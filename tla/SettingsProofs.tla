----------------------------- MODULE SettingsProofs -----------------------------
(***************************************************************************)
(* Proofs about Settings for any number of requests and worker processes.  *)
(***************************************************************************)
EXTENDS Settings, TLAPS

\* What a request carries: a number if its form was submitted, and what the key
\* of an applicant may be compared with.
Fits(q) ==
    /\ q.op \in {"ask", "store"} => q.form # 0
    /\ q.op = "staff" => InForce(q.role) \in q.valid
    /\ q.op = "register" => q.expected \in q.valid \/ (q.blind /\ q.expected = 0)

IInv ==
    /\ TypeOK
    /\ \A r \in Requests : Fits(req[r])
    /\ AdmittedByKey

-----------------------------------------------------------------------------
(* Requests                                                                 *)

\* An idle request fits any state.
LEMMA IdleFits == Idle \in Request /\ Fits(Idle) /\ Idle.op = "none"
  <1>1. (CHOOSE w \in Workers : TRUE) \in Workers
    BY ConstantsAssumption
  <1>2. Idle \in Request
    BY <1>1 DEF Idle, Request, Keys
  <1>3. Fits(Idle) /\ Idle.op = "none"
    BY DEF Idle, Fits
  <1>4. QED BY <1>2, <1>3

\* A key in force is a number.
LEMMA InForceNat == ASSUME TypeOK, NEW k \in Keys PROVE InForce(k) \in Nat
  BY DEF TypeOK, InForce, Absent

\* The key to be stored next is one of the two.
LEMMA NextKeyIsKey == ASSUME NEW q PROVE NextKey(q) \in Keys
  BY DEF NextKey, Keys

\* The steps of one request that store no key.
LEMMA OneMoves ==
    ASSUME IInv, NEW r \in Requests, NEW q \in Request, Fits(q),
           req' = [req EXCEPT ![r] = q], keys' = keys
    PROVE  req' \in [Requests -> Request] /\ \A s \in Requests : Fits(req[s])'
  <1>1. req' \in [Requests -> Request]
    BY DEF IInv, TypeOK
  <1>2. \A s \in Requests : req'[s] = IF s = r THEN q ELSE req[s]
    BY DEF IInv, TypeOK
  <1>3. \A s \in Requests : Fits(req[s])'
    BY <1>2 DEF IInv, Fits, InForce
  <1>4. QED BY <1>1, <1>3

\* A request that starts.
LEMMA StartStep ==
    ASSUME IInv, NEW r \in Requests, NEW q \in Request, Fits(q), Start(r, q), forms' \in Nat
    PROVE  IInv'
  <1>1. req' \in [Requests -> Request] /\ \A s \in Requests : Fits(req[s])'
    BY OneMoves DEF Start
  <1>2. alone' \in BOOLEAN
    BY DEF Start, IInv, TypeOK
  <1>3. TypeOK'
    BY <1>1, <1>2 DEF Start, IInv, TypeOK
  <1>4. AdmittedByKey'
    BY DEF Start, IInv, AdmittedByKey
  <1>5. QED BY <1>1, <1>3, <1>4 DEF IInv

\* A request that goes on, or ends, without storing a key or admitting anybody.
LEMMA MoveStep ==
    ASSUME IInv, NEW r \in Requests, NEW q \in Request, Fits(q), Become(r, q),
           keys' = keys, admitted' = admitted,
           config' \in [Workers -> [Fields -> Nat]],
           \A x \in saved' : x \in Saved
    PROVE  IInv'
  <1>1. req' \in [Requests -> Request] /\ \A s \in Requests : Fits(req[s])'
    BY OneMoves DEF Become
  <1>2. TypeOK'
    BY <1>1 DEF Become, IInv, TypeOK
  <1>3. AdmittedByKey'
    BY DEF IInv, AdmittedByKey
  <1>4. QED BY <1>1, <1>2, <1>3 DEF IInv

-----------------------------------------------------------------------------
(* The system settings                                                      *)

\* A form with system settings starts.
LEMMA StartSettingsStep == ASSUME IInv, NEW r \in Requests, StartSettings(r) PROVE IInv'
  <1>1. PICK w \in Workers, b \in Breaks :
           Submit(r, [Idle EXCEPT !.op = "settings", !.worker = w, !.break = b])
    BY DEF StartSettings
  <1> DEFINE n == forms + 1
             p == [Idle EXCEPT !.op = "settings", !.worker = w, !.break = b]
             q == [p EXCEPT !.form = n]
  <1>2. n \in Nat /\ b \in Nat
    BY DEF Breaks, IInv, TypeOK
  <1>3. p \in Request /\ p.op = "settings"
    BY <1>2, IdleFits DEF Request
  <1> HIDE DEF n, p
  <1>4. q \in Request /\ q.op = "settings"
    BY <1>2, <1>3 DEF Request
  <1>5. Start(r, q) /\ forms' \in Nat
    BY <1>1, <1>2 DEF Submit, n, p
  <1> HIDE DEF q
  <1>6. QED BY <1>4, <1>5, StartStep DEF Fits

\* The assignment of a field.
LEMMA AssignStep == ASSUME IInv, NEW r \in Requests, Assign(r) PROVE IInv'
  <1> DEFINE q == [req[r] EXCEPT !.at = @ + 1]
  <1>1. req[r] \in Request
    BY DEF IInv, TypeOK
  <1>2. q \in Request /\ q.op = "settings"
    BY <1>1 DEF Assign, Request
  <1>3. config' \in [Workers -> [Fields -> Nat]]
    BY <1>1 DEF Assign, IInv, TypeOK, Request
  <1>4. Become(r, q) /\ keys' = keys /\ admitted' = admitted /\ saved' = saved
    BY DEF Assign
  <1> HIDE DEF q
  <1>5. QED BY <1>2, <1>3, <1>4, MoveStep DEF Fits, IInv, TypeOK

\* The success message of the system settings.
LEMMA SaveSettingsStep == ASSUME IInv, NEW r \in Requests, SaveSettings(r) PROVE IInv'
  <1>1. [form |-> req[r].form, worker |-> req[r].worker, keys |-> {}] \in Saved
    BY DEF IInv, TypeOK, Request, Saved
  <1>2. \A x \in saved' : x \in Saved
    BY <1>1 DEF SaveSettings, IInv, TypeOK
  <1>3. Become(r, Idle) /\ keys' = keys /\ admitted' = admitted /\ config' = config
    BY DEF SaveSettings
  <1>4. QED BY <1>2, <1>3, IdleFits, MoveStep DEF IInv, TypeOK

-----------------------------------------------------------------------------
(* The keys                                                                 *)

\* A form with keys starts.
LEMMA StartKeysStep == ASSUME IInv, NEW r \in Requests, StartKeys(r) PROVE IInv'
  <1>1. PICK named \in SUBSET Keys :
           Submit(r, [Idle EXCEPT !.op = "ask", !.todo = named, !.named = named])
    BY DEF StartKeys
  <1> DEFINE n == forms + 1
             p == [Idle EXCEPT !.op = "ask", !.todo = named, !.named = named]
             q == [p EXCEPT !.form = n]
  <1>2. n \in Nat /\ n # 0
    BY DEF IInv, TypeOK
  <1>3. p \in Request /\ p.op = "ask"
    BY IdleFits DEF Request
  <1> HIDE DEF n, p
  <1>4. q \in Request /\ q.op = "ask" /\ q.form # 0
    BY <1>2, <1>3 DEF Request
  <1>5. Start(r, q) /\ forms' \in Nat
    BY <1>1, <1>2 DEF Submit, n, p
  <1> HIDE DEF q
  <1>6. QED BY <1>4, <1>5, StartStep DEF Fits

\* The look-up of the row of a key.
LEMMA AskRowStep == ASSUME IInv, NEW r \in Requests, AskRow(r) PROVE IInv'
  <1> DEFINE found == keys[NextKey(req[r])] # Absent
             q     == [req[r] EXCEPT !.op = "store", !.found = found]
  <1>1. req[r] \in Request /\ Fits(req[r]) /\ req[r].op = "ask"
    BY DEF IInv, TypeOK, AskRow
  <1>2. found \in BOOLEAN
    OBVIOUS
  <1>3. Become(r, q) /\ UNCHANGED <<config, keys, saved, admitted>>
    BY DEF AskRow
  <1> HIDE DEF found
  <1>4. q \in Request /\ q.op = "store" /\ q.form = req[r].form
    BY <1>1, <1>2 DEF Request
  <1>5. Fits(q)
    BY <1>1, <1>4 DEF Fits
  <1> HIDE DEF q
  <1>6. QED BY <1>3, <1>4, <1>5, MoveStep DEF IInv, TypeOK

\* What is left of a form after one of its keys.
LEMMA StoredFits ==
    ASSUME NEW q \in Request, q.form # 0
    PROVE  /\ Stored(q) \in Request
           /\ Stored(q).op = "ask" /\ Stored(q).form = q.form
           /\ [Stored(q) EXCEPT !.lost = @ \cup {NextKey(q)}] \in Request
           /\ Fits([Stored(q) EXCEPT !.lost = @ \cup {NextKey(q)}])
  <1> DEFINE k    == NextKey(q)
             todo == q.todo \ {k}
             s    == Stored(q)
             lost == s.lost \cup {k}
             l    == [s EXCEPT !.lost = lost]
  <1>1. k \in Keys
    BY NextKeyIsKey
  <1>2. s = [q EXCEPT !.op = "ask", !.todo = todo]
    BY DEF Stored
  <1> HIDE DEF k, s
  <1>3. s \in Request /\ s.op = "ask" /\ s.form = q.form
    BY <1>2 DEF Request
  <1>4. lost \in SUBSET Keys
    BY <1>1, <1>3 DEF Request
  <1> HIDE DEF lost
  <1>5. l \in Request /\ l.op = "ask" /\ l.form = q.form
    BY <1>3, <1>4 DEF Request
  <1> HIDE DEF l
  <1>6. Fits(l)
    BY <1>5 DEF Fits
  <1>7. QED BY <1>3, <1>5, <1>6 DEF k, s, l, lost

\* A key is stored: it becomes the one in force, and every registration in
\* progress that needs it has seen it.
LEMMA StoreStep == ASSUME IInv, NEW r \in Requests, Store(r) PROVE IInv'
  <1> DEFINE q == req[r]
             k == NextKey(q)
             v == q.form
  <1>1. q \in Request /\ k \in Keys /\ v \in Nat /\ v # 0
    BY NextKeyIsKey DEF IInv, TypeOK, Store, Fits, Request
  <1>2. keys' \in [Keys -> Nat \cup {Absent}] /\ keys'[k] = v
        /\ \A j \in Keys : j # k => keys'[j] = keys[j]
    BY <1>1 DEF Store, IInv, TypeOK
  <1>3. \A s \in Requests : Published(k, v)[s] \in Request
    <2>1. ASSUME NEW s \in Requests PROVE Published(k, v)[s] \in Request
      <3> DEFINE valid == req[s].valid \cup {v}
      <3>1. req[s] \in Request
        BY DEF IInv, TypeOK
      <3>2. valid \in SUBSET Nat
        BY <1>1, <3>1 DEF Request
      <3>3. Published(k, v)[s] =
              IF req[s].op = "staff" /\ req[s].role = k
              THEN [req[s] EXCEPT !.valid = valid] ELSE req[s]
        BY DEF Published
      <3> HIDE DEF valid, k, v
      <3>4. [req[s] EXCEPT !.valid = valid] \in Request
        BY <3>1, <3>2 DEF Request
      <3>5. QED BY <3>1, <3>3, <3>4
    <2>2. QED BY <2>1
  <1>4. \A s \in Requests : req'[s] = IF s = r THEN Stored(q) ELSE Published(k, v)[s]
    BY DEF Store, Published
  <1>5. Stored(q) \in Request /\ Stored(q).op = "ask" /\ Stored(q).form # 0
    BY <1>1, StoredFits
  <1>6. req' \in [Requests -> Request]
    <2>1. req' = [Published(k, v) EXCEPT ![r] = Stored(q)]
      BY DEF Store
    <2>2. DOMAIN req' = Requests /\ req' = [s \in Requests |-> req'[s]]
      BY <2>1 DEF Published
    <2> HIDE DEF q, k, v
    <2>3. QED BY <1>3, <1>4, <1>5, <2>2
  <1>7. ASSUME NEW s \in Requests, s # r PROVE Fits(req[s])'
    <2> DEFINE valid == req[s].valid \cup {v}
    <2>1. req[s] \in Request /\ Fits(req[s])
      BY DEF IInv, TypeOK
    <2>2. req'[s] = IF req[s].op = "staff" /\ req[s].role = k
                    THEN [req[s] EXCEPT !.valid = valid] ELSE req[s]
      BY <1>4, <1>7 DEF Published
    <2> HIDE DEF q, k, v
    <2>3. CASE req[s].op = "staff" /\ req[s].role = k
      <3>1. req'[s].op = "staff" /\ req'[s].role = k /\ req'[s].valid = valid
        BY <2>1, <2>2, <2>3 DEF Request
      <3>2. InForce(req[s].role)' = v
        BY <1>1, <1>2, <3>1 DEF InForce
      <3>3. v \in req'[s].valid
        BY <3>1
      <3>4. QED BY <3>1, <3>2, <3>3 DEF Fits
    <2>4. CASE req[s].op = "staff" /\ req[s].role # k
      <3>1. req'[s] = req[s] /\ req[s].role \in Keys
        BY <2>1, <2>2, <2>4 DEF Request
      <3>2. InForce(req[s].role)' = InForce(req[s].role)
        BY <1>2, <2>4, <3>1 DEF InForce
      <3>3. QED BY <2>1, <2>4, <3>1, <3>2 DEF Fits
    <2>5. CASE req[s].op # "staff"
      BY <2>1, <2>2, <2>5 DEF Fits
    <2>6. QED BY <2>3, <2>4, <2>5
  <1>8. Fits(req[r])'
    BY <1>4, <1>5 DEF Fits
  <1>9. TypeOK'
    BY <1>2, <1>6 DEF Store, IInv, TypeOK
  <1>10. AdmittedByKey'
    BY DEF Store, IInv, AdmittedByKey
  <1>11. QED BY <1>7, <1>8, <1>9, <1>10 DEF IInv

\* A failure that is swallowed.
LEMMA SwallowStep == ASSUME IInv, NEW r \in Requests, Swallow(r) PROVE IInv'
  <1> DEFINE q == req[r]
             l == [Stored(q) EXCEPT !.lost = @ \cup {NextKey(q)}]
  <1>1. q \in Request /\ q.form # 0
    BY DEF IInv, TypeOK, Swallow, Fits
  <1>2. l \in Request /\ Fits(l)
    BY <1>1, StoredFits
  <1>3. Become(r, l) /\ UNCHANGED <<config, keys, saved, admitted>>
    BY DEF Swallow
  <1> HIDE DEF l
  <1>4. QED BY <1>2, <1>3, MoveStep DEF IInv, TypeOK

\* The success message of the keys.
LEMMA SaveKeysStep == ASSUME IInv, NEW r \in Requests, SaveKeys(r) PROVE IInv'
  <1> DEFINE q == req[r]
             s == [form |-> q.form, worker |-> q.worker, keys |-> q.named \ q.lost]
  <1>1. q \in Request
    BY DEF IInv, TypeOK
  <1>2. s \in Saved
    BY <1>1 DEF Request, Saved
  <1>3. saved' = saved \cup {s}
    BY DEF SaveKeys
  <1> HIDE DEF s
  <1>4. \A x \in saved' : x \in Saved
    BY <1>2, <1>3 DEF IInv, TypeOK
  <1>5. Become(r, Idle) /\ UNCHANGED <<config, keys, admitted>>
    BY DEF SaveKeys
  <1>6. QED BY <1>4, <1>5, IdleFits, MoveStep DEF IInv, TypeOK

-----------------------------------------------------------------------------
(* Registration of staff                                                    *)

\* A registration of staff starts with the key in force as valid.
LEMMA StartStaffStep == ASSUME IInv, NEW r \in Requests, StartStaff(r) PROVE IInv'
  <1>1. PICK k \in Keys, v \in 0 .. forms :
          /\ Start(r, [Idle EXCEPT !.op = "staff", !.role = k, !.offer = v, !.valid = {InForce(k)}])
          /\ UNCHANGED forms
    BY DEF StartStaff
  <1> DEFINE f == InForce(k)
             q == [Idle EXCEPT !.op = "staff", !.role = k, !.offer = v, !.valid = {f}]
  <1>2. f \in Nat /\ v \in Nat /\ forms \in Nat
    BY InForceNat DEF IInv, TypeOK
  <1>3. Start(r, q)
    BY <1>1
  <1> HIDE DEF f
  <1>4. q \in Request /\ q.op = "staff" /\ q.role = k /\ q.valid = {f}
    BY <1>2, IdleFits DEF Request
  <1> HIDE DEF q
  <1>5. Fits(q)
    BY <1>4 DEF Fits, f
  <1>6. QED BY <1>1, <1>2, <1>3, <1>4, <1>5, StartStep

\* The look-up of the key to compare with.
LEMMA ExpectStep == ASSUME IInv, NEW r \in Requests, Expect(r) PROVE IInv'
  <1> DEFINE f == InForce(req[r].role)
             q == [req[r] EXCEPT !.op = "register", !.expected = f]
  <1>1. req[r] \in Request /\ f \in Nat /\ f \in req[r].valid
    BY InForceNat DEF IInv, TypeOK, Request, Expect, Fits
  <1>2. Become(r, q) /\ UNCHANGED <<config, keys, saved, admitted>>
    BY DEF Expect
  <1> HIDE DEF f
  <1>3. q \in Request /\ q.op = "register" /\ q.expected = f /\ q.valid = req[r].valid
    BY <1>1 DEF Request
  <1> HIDE DEF q
  <1>4. Fits(q)
    BY <1>1, <1>3 DEF Fits
  <1>5. QED BY <1>2, <1>3, <1>4, MoveStep DEF IInv, TypeOK

\* A look-up that the database does not answer.
LEMMA ExpectBlindlyStep == ASSUME IInv, NEW r \in Requests, ExpectBlindly(r) PROVE IInv'
  <1> DEFINE q == [req[r] EXCEPT !.op = "register", !.expected = 0, !.blind = TRUE]
  <1>1. req[r] \in Request
    BY DEF IInv, TypeOK
  <1>2. Become(r, q) /\ UNCHANGED <<config, keys, saved, admitted>>
    BY DEF ExpectBlindly
  <1>3. q \in Request /\ q.op = "register" /\ q.expected = 0 /\ q.blind
    BY <1>1 DEF Request
  <1> HIDE DEF q
  <1>4. Fits(q)
    BY <1>3 DEF Fits
  <1>5. QED BY <1>2, <1>3, <1>4, MoveStep DEF IInv, TypeOK

\* A registration goes through.
LEMMA AdmitStep == ASSUME IInv, NEW r \in Requests, Admit(r) PROVE IInv'
  <1> DEFINE q == req[r]
             a == [role |-> q.role, key |-> q.offer, valid |-> q.valid, blind |-> q.blind]
  <1>1. q \in Request /\ Fits(q) /\ q.op = "register" /\ q.offer = q.expected
    BY DEF IInv, TypeOK, Admit
  <1>2. admitted' = {a} /\ Become(r, Idle) /\ UNCHANGED <<config, keys, saved>>
    BY DEF Admit
  <1>3. a \in Admission
    BY <1>1 DEF Request, Admission
  <1>4. a.key \in a.valid \/ (a.blind /\ a.key = 0)
    BY <1>1 DEF Fits
  <1> HIDE DEF q, a
  <1>5. req' \in [Requests -> Request] /\ \A s \in Requests : Fits(req[s])'
    BY <1>2, IdleFits, OneMoves DEF Become
  <1>6. TypeOK'
    BY <1>2, <1>3, <1>5 DEF Become, IInv, TypeOK
  <1>7. AdmittedByKey'
    BY <1>2, <1>4 DEF AdmittedByKey
  <1>8. QED BY <1>5, <1>6, <1>7 DEF IInv

\* A request ends without an effect.
LEMMA GiveUpStep == ASSUME IInv, NEW r \in Requests, GiveUp(r) PROVE IInv'
  BY IdleFits, MoveStep DEF GiveUp, IInv, TypeOK
\* A worker is replaced.
LEMMA RestartStep == ASSUME IInv, NEW w \in Workers, Restart(w) PROVE IInv'
  <1>1. \A s \in Requests : req'[s] = IF req[s].worker = w THEN Idle ELSE req[s]
    BY DEF Restart
  <1>2. req' \in [Requests -> Request]
    BY IdleFits DEF Restart, IInv, TypeOK
  <1>3. \A s \in Requests : Fits(req[s])'
    <2>1. ASSUME NEW s \in Requests PROVE Fits(req[s])'
      <3>1. req'[s].op = "none" \/ req'[s] = req[s]
        BY <1>1, IdleFits
      <3>2. keys' = keys
        BY DEF Restart
      <3>3. QED BY <3>1, <3>2 DEF Fits, InForce, IInv
    <2>2. QED BY <2>1
  <1>4. TypeOK'
    BY <1>2 DEF Restart, IInv, TypeOK
  <1>5. AdmittedByKey'
    BY DEF Restart, IInv, AdmittedByKey
  <1>6. QED BY <1>2, <1>3, <1>4, <1>5 DEF IInv

-----------------------------------------------------------------------------
(* The invariant                                                            *)

\* The invariant holds at first.
LEMMA InitIInv == Init => IInv
  <1> SUFFICES ASSUME Init PROVE IInv
    OBVIOUS
  <1>1. \A r \in Requests : req[r] = Idle
    BY DEF Init
  <1>2. req \in [Requests -> Request]
    BY IdleFits DEF Init
  <1>3. config \in [Workers -> [Fields -> Nat]]
    BY DEF Init
  <1>4. TypeOK
    BY <1>2, <1>3, ConstantsAssumption DEF Init, TypeOK
  <1>5. \A r \in Requests : Fits(req[r])
    BY <1>1, IdleFits
  <1>6. AdmittedByKey
    BY DEF Init, AdmittedByKey
  <1>7. QED BY <1>4, <1>5, <1>6 DEF IInv

\* Every step keeps the invariant.
LEMMA NextIInv == IInv /\ [Next]_vars => IInv'
  <1> SUFFICES ASSUME IInv, [Next]_vars PROVE IInv'
    OBVIOUS
  <1>1. CASE UNCHANGED vars
    BY <1>1 DEF vars, IInv, TypeOK, Fits, InForce, AdmittedByKey
  <1>2. ASSUME NEW r \in Requests, StartSettings(r) \/ Assign(r) \/ SaveSettings(r) PROVE IInv'
    BY <1>2, StartSettingsStep, AssignStep, SaveSettingsStep
  <1>3. ASSUME NEW r \in Requests,
               StartKeys(r) \/ AskRow(r) \/ Store(r) \/ Swallow(r) \/ SaveKeys(r)
        PROVE  IInv'
    BY <1>3, StartKeysStep, AskRowStep, StoreStep, SwallowStep, SaveKeysStep
  <1>4. ASSUME NEW r \in Requests,
               StartStaff(r) \/ Expect(r) \/ ExpectBlindly(r) \/ Admit(r) \/ GiveUp(r)
        PROVE  IInv'
    BY <1>4, StartStaffStep, ExpectStep, ExpectBlindlyStep, AdmitStep, GiveUpStep
  <1>5. ASSUME NEW w \in Workers, Restart(w) PROVE IInv'
    BY <1>5, RestartStep
  <1>6. QED BY <1>1, <1>2, <1>3, <1>4, <1>5 DEF Next

\* The invariant holds at every moment.
LEMMA Invariance == Spec => []IInv
  BY InitIInv, NextIInv, PTL DEF Spec

-----------------------------------------------------------------------------
(* Theorems                                                                 *)

\* Every reachable state is well typed.
THEOREM TypeCorrect == Spec => []TypeOK
  <1>1. IInv => TypeOK
    BY DEF IInv
  <1>2. QED BY <1>1, Invariance, PTL

\* However rotations of the keys overlap a registration of staff, the key that
\* admitted was in force during it, or the database had failed to answer
\* (employee_register, admin_register, SystemSetting.get).
THEOREM StaffAdmittedByKey == Spec => []AdmittedByKey
  <1>1. IInv => AdmittedByKey
    BY DEF IInv
  <1>2. QED BY <1>1, Invariance, PTL

-----------------------------------------------------------------------------
(* Requests that do not overlap                                             *)

\* A form leaves its fields on top of the older values of the others.
Layered(c) == \A w \in Workers : \A f, g \in Fields : f <= g => c[w][f] >= c[w][g]

\* No value is of a form that has not been submitted.
Submitted(c, ks, n) ==
    /\ \A w \in Workers : \A f \in Fields : c[w][f] <= n
    /\ \A k \in Keys : ks[k] <= n

\* What the success message of a form promises.
Promised(s, c, ks) ==
    /\ s.keys = {} /\ (\E f \in Fields : c[s.worker][f] = s.form)
          => \A f \in Fields : c[s.worker][f] >= s.form
    /\ \A k \in s.keys : ks[k] >= s.form

Answered(sv, c, ks, n) == \A s \in sv : s.form # 0 /\ s.form <= n /\ Promised(s, c, ks)

\* A form in progress is the last one submitted: its first fields, or its first
\* keys, are in force.
Progress(q, c, ks, sv, n) ==
    /\ q.op \in {"settings", "ask", "store"} =>
          q.form = n /\ n # 0 /\ \A s \in sv : s.form < n
    /\ q.op = "settings" => \A f \in Fields : f < q.at => c[q.worker][f] = n
    /\ q.op \in {"ask", "store"} =>
          /\ \A w \in Workers : \A f \in Fields : c[w][f] < n
          /\ \A k \in q.named \ (q.todo \cup q.lost) : ks[k] = n

\* Of two requests one is idle.
Single == \A r, s \in Requests : req[r] # Idle /\ req[s] # Idle => r = s

AloneInv ==
    alone =>
        /\ Single
        /\ Layered(config)
        /\ Submitted(config, keys, forms)
        /\ Answered(saved, config, keys, forms)
        /\ \A r \in Requests : Progress(req[r], config, keys, saved, forms)

-----------------------------------------------------------------------------
(* One request moves, the others are idle                                   *)

\* An idle request promises nothing.
LEMMA IdleProgress ==
    ASSUME NEW q, q.op \notin {"settings", "ask", "store"}, NEW c, NEW ks, NEW sv, NEW n
    PROVE  Progress(q, c, ks, sv, n)
  BY DEF Progress

\* The invariant after a step of one request.
LEMMA OneMovesAlone ==
    ASSUME IInv, AloneInv, NEW r \in Requests, NEW q, req' = [req EXCEPT ![r] = q],
           alone' = alone,
           alone => /\ req[r] # Idle
                    /\ Layered(config')
                    /\ Submitted(config', keys', forms')
                    /\ Answered(saved', config', keys', forms')
                    /\ Progress(q, config', keys', saved', forms')
    PROVE  AloneInv'
  <1> SUFFICES ASSUME alone
               PROVE  (/\ Single
                       /\ Layered(config)
                       /\ Submitted(config, keys, forms)
                       /\ Answered(saved, config, keys, forms)
                       /\ \A s \in Requests : Progress(req[s], config, keys, saved, forms))'
    BY DEF AloneInv
  <1>1. \A s \in Requests : s # r => req[s] = Idle
    BY DEF AloneInv, Single
  <1>2. \A s \in Requests : req'[s] = IF s = r THEN q ELSE req[s]
    BY DEF IInv, TypeOK
  <1>3. Single'
    BY <1>1, <1>2 DEF Single
  <1>4. ASSUME NEW s \in Requests PROVE Progress(req[s], config, keys, saved, forms)'
    <2>1. CASE s = r
      <3>1. req'[s] = q
        BY <1>2, <2>1
      <3>2. QED BY <3>1 DEF Progress
    <2>2. CASE s # r
      <3>1. req'[s].op = "none"
        BY <1>1, <1>2, <2>2, IdleFits
      <3>2. QED BY <3>1 DEF Progress
    <2>3. QED BY <2>1, <2>2
  <1>5. Layered(config)' /\ Submitted(config, keys, forms)' /\ Answered(saved, config, keys, forms)'
    BY DEF Layered, Submitted, Answered, Promised
  <1>6. QED BY <1>3, <1>4, <1>5

\* A request that starts, with a new form or without one.
LEMMA StartsAlone ==
    ASSUME IInv, AloneInv, NEW r \in Requests, NEW q, Start(r, q),
           forms' \in Nat, forms' >= forms,
           alone => Progress(q, config, keys, saved, forms')
    PROVE  AloneInv'
  <1> SUFFICES ASSUME alone'
               PROVE  (/\ Single
                       /\ Layered(config)
                       /\ Submitted(config, keys, forms)
                       /\ Answered(saved, config, keys, forms)
                       /\ \A s \in Requests : Progress(req[s], config, keys, saved, forms))'
    BY DEF AloneInv
  <1>1. /\ alone /\ \A s \in Requests : req[s] = Idle
        /\ req' = [req EXCEPT ![r] = q]
        /\ config' = config /\ keys' = keys /\ saved' = saved
    BY DEF Start
  <1>2. \A s \in Requests : req'[s] = IF s = r THEN q ELSE Idle
    BY <1>1 DEF IInv, TypeOK
  <1>3. Single'
    BY <1>2 DEF Single
  <1>4. ASSUME NEW s \in Requests PROVE Progress(req[s], config, keys, saved, forms)'
    <2>1. CASE s = r
      <3>1. req'[s] = q
        BY <1>2, <2>1
      <3>2. QED BY <1>1, <3>1 DEF Progress
    <2>2. CASE s # r
      <3>1. req'[s].op = "none"
        BY <1>2, <2>2, IdleFits
      <3>2. QED BY <3>1 DEF Progress
    <2>3. QED BY <2>1, <2>2
  <1>5. Layered(config)'
    BY <1>1 DEF AloneInv, Layered
  <1>6. Submitted(config, keys, forms)'
    <2>1. Submitted(config, keys, forms) /\ forms \in Nat
      BY <1>1 DEF AloneInv, IInv, TypeOK
    <2>2. \A w \in Workers : \A f \in Fields : config[w][f] \in Nat
      BY DEF IInv, TypeOK
    <2>3. \A k \in Keys : keys[k] \in Nat \cup {-1}
      BY DEF IInv, TypeOK, Absent
    <2>4. \A w \in Workers : \A f \in Fields : config[w][f] <= forms'
      BY <2>1, <2>2 DEF Submitted
    <2>5. \A k \in Keys : keys[k] <= forms'
      BY <2>1, <2>3 DEF Submitted
    <2>6. QED BY <1>1, <2>4, <2>5 DEF Submitted
  <1>7. Answered(saved, config, keys, forms)'
    <2>1. Answered(saved, config, keys, forms) /\ forms \in Nat
      BY <1>1 DEF AloneInv, IInv, TypeOK
    <2>2. \A s \in saved : s.form \in Nat
      BY DEF IInv, TypeOK, Saved
    <2>3. \A s \in saved : s.form # 0 /\ s.form <= forms' /\ Promised(s, config, keys)
      BY <2>1, <2>2 DEF Answered
    <2>4. QED BY <1>1, <2>3 DEF Answered, Promised
  <1>8. QED BY <1>3, <1>4, <1>5, <1>6, <1>7

\* A new form finds only older ones, in force or answered.
LEMMA NewForm ==
    ASSUME IInv, AloneInv, alone
    PROVE  /\ forms + 1 \in Nat /\ forms + 1 # 0 /\ forms + 1 >= forms
           /\ \A s \in saved : s.form < forms + 1
           /\ \A w \in Workers : \A f \in Fields : config[w][f] < forms + 1
  <1>1. forms \in Nat
    BY DEF IInv, TypeOK
  <1>2. \A s \in saved : s.form \in Nat /\ s.form <= forms
    BY DEF IInv, TypeOK, Saved, AloneInv, Answered
  <1>3. \A w \in Workers : \A f \in Fields : config[w][f] \in Nat /\ config[w][f] <= forms
    BY DEF IInv, TypeOK, AloneInv, Submitted
  <1>4. QED BY <1>1, <1>2, <1>3

\* A form with settings starts.
LEMMA StartSettingsAlone ==
    ASSUME IInv, AloneInv, NEW r \in Requests, StartSettings(r)
    PROVE  AloneInv'
  <1>1. PICK w \in Workers, b \in Breaks :
           Submit(r, [Idle EXCEPT !.op = "settings", !.worker = w, !.break = b])
    BY DEF StartSettings
  <1> DEFINE n == forms + 1
             p == [Idle EXCEPT !.op = "settings", !.worker = w, !.break = b]
             q == [p EXCEPT !.form = n]
  <1>2. p.op = "settings" /\ p.at = 1 /\ DOMAIN p = DOMAIN Idle
    BY DEF Idle
  <1>3. "form" \in DOMAIN Idle
    BY DEF Idle
  <1>4. Start(r, q) /\ forms' = n
    BY <1>1 DEF Submit
  <1>5. n \in Nat /\ n >= forms
    BY DEF IInv, TypeOK
  <1> HIDE DEF p, n
  <1>6. q.op = "settings" /\ q.at = 1 /\ q.form = n
    BY <1>2, <1>3
  <1> HIDE DEF q
  <1>7. ASSUME alone PROVE Progress(q, config, keys, saved, n)
    <2>1. n # 0 /\ \A s \in saved : s.form < n
      BY <1>7, NewForm DEF n
    <2>2. \A f \in Fields : ~(f < 1)
      BY DEF Fields
    <2>3. QED BY <1>6, <2>1, <2>2 DEF Progress
  <1>8. QED BY <1>4, <1>5, <1>7, StartsAlone

\* A form with keys starts.
LEMMA StartKeysAlone ==
    ASSUME IInv, AloneInv, NEW r \in Requests, StartKeys(r)
    PROVE  AloneInv'
  <1>1. PICK named \in SUBSET Keys :
           Submit(r, [Idle EXCEPT !.op = "ask", !.todo = named, !.named = named])
    BY DEF StartKeys
  <1> DEFINE n == forms + 1
             p == [Idle EXCEPT !.op = "ask", !.todo = named, !.named = named]
             q == [p EXCEPT !.form = n]
  <1>2. p.op = "ask" /\ p.todo = named /\ p.named = named /\ DOMAIN p = DOMAIN Idle
    BY DEF Idle
  <1>3. "form" \in DOMAIN Idle
    BY DEF Idle
  <1>4. Start(r, q) /\ forms' = n
    BY <1>1 DEF Submit
  <1>5. n \in Nat /\ n >= forms
    BY DEF IInv, TypeOK
  <1> HIDE DEF p, n
  <1>6. q.op = "ask" /\ q.todo = named /\ q.named = named /\ q.form = n
    BY <1>2, <1>3
  <1> HIDE DEF q
  <1>7. ASSUME alone PROVE Progress(q, config, keys, saved, n)
    <2>1. /\ n # 0 /\ \A s \in saved : s.form < n
          /\ \A w \in Workers : \A f \in Fields : config[w][f] < n
      BY <1>7, NewForm DEF n
    <2>2. q.named \ (q.todo \cup q.lost) = {}
      BY <1>6
    <2>3. QED BY <1>6, <2>1, <2>2 DEF Progress
  <1>8. QED BY <1>4, <1>5, <1>7, StartsAlone

\* A registration of staff starts.
LEMMA StartStaffAlone ==
    ASSUME IInv, AloneInv, NEW r \in Requests, StartStaff(r)
    PROVE  AloneInv'
  <1>1. PICK k \in Keys, v \in 0 .. forms :
          /\ Start(r, [Idle EXCEPT !.op = "staff", !.role = k, !.offer = v, !.valid = {InForce(k)}])
          /\ UNCHANGED forms
    BY DEF StartStaff
  <1> DEFINE q == [Idle EXCEPT !.op = "staff", !.role = k, !.offer = v, !.valid = {InForce(k)}]
  <1>2. q.op = "staff"
    BY DEF Idle
  <1>3. Start(r, q) /\ forms' = forms /\ forms \in Nat
    BY <1>1 DEF IInv, TypeOK
  <1> HIDE DEF q
  <1>4. Progress(q, config, keys, saved, forms')
    BY <1>2, IdleProgress
  <1>5. forms' \in Nat /\ forms' >= forms
    BY <1>3
  <1>6. QED BY <1>3, <1>4, <1>5, StartsAlone

\* A request that ends, or is none of a form, and leaves the variables alone.
LEMMA QuietAlone ==
    ASSUME IInv, AloneInv, NEW r \in Requests, NEW q, Become(r, q), req[r] # Idle,
           config' = config, keys' = keys, saved' = saved,
           alone => Progress(q, config, keys, saved, forms)
    PROVE  AloneInv'
  <1>1. req' = [req EXCEPT ![r] = q] /\ alone' = alone /\ forms' = forms
    BY DEF Become
  <1>2. alone => /\ Layered(config')
                 /\ Submitted(config', keys', forms')
                 /\ Answered(saved', config', keys', forms')
                 /\ Progress(q, config', keys', saved', forms')
    BY <1>1 DEF AloneInv
  <1>3. QED BY <1>1, <1>2, OneMovesAlone

\* Registrations of staff, and requests that give up.
LEMMA QuietSteps ==
    ASSUME IInv, AloneInv, NEW r \in Requests,
           Expect(r) \/ ExpectBlindly(r) \/ Admit(r) \/ GiveUp(r)
    PROVE  AloneInv'
  <1>1. req[r] \in Request
    BY DEF IInv, TypeOK
  <1>2. PICK q : /\ Become(r, q) /\ config' = config /\ keys' = keys /\ saved' = saved
                 /\ q.op \notin {"settings", "ask", "store"}
    <2>1. CASE Expect(r)
      <3> DEFINE f == InForce(req[r].role)
                 q == [req[r] EXCEPT !.op = "register", !.expected = f]
      <3>1. Become(r, q) /\ config' = config /\ keys' = keys /\ saved' = saved
        BY <2>1 DEF Expect
      <3> HIDE DEF f
      <3>2. q.op = "register"
        BY <1>1 DEF Request
      <3> HIDE DEF q
      <3>3. QED BY <3>1, <3>2
    <2>2. CASE ExpectBlindly(r)
      <3> DEFINE q == [req[r] EXCEPT !.op = "register", !.expected = 0, !.blind = TRUE]
      <3>1. Become(r, q) /\ config' = config /\ keys' = keys /\ saved' = saved
        BY <2>2 DEF ExpectBlindly
      <3>2. q.op = "register"
        BY <1>1 DEF Request
      <3> HIDE DEF q
      <3>3. QED BY <3>1, <3>2
    <2>3. CASE Admit(r) \/ GiveUp(r)
      <3>1. Become(r, Idle) /\ config' = config /\ keys' = keys /\ saved' = saved
        BY <2>3 DEF Admit, GiveUp
      <3>2. QED BY <3>1, IdleFits
    <2>4. QED BY <2>1, <2>2, <2>3
  <1>3. req[r] # Idle
    <2>1. req[r].op \in {"staff", "register"} \/ req[r] # Idle
      BY DEF Expect, ExpectBlindly, Admit, GiveUp
    <2>2. QED BY <2>1, IdleFits
  <1>4. Progress(q, config, keys, saved, forms)
    BY <1>2, IdleProgress
  <1>5. QED BY <1>2, <1>3, <1>4, QuietAlone

-----------------------------------------------------------------------------
(* The forms                                                                *)

\* What holds of the form in progress while requests do not overlap.
LEMMA InProgress ==
    ASSUME IInv, AloneInv, alone, NEW r \in Requests, req[r].op \in {"settings", "ask", "store"}
    PROVE  /\ req[r] \in Request /\ req[r] # Idle
           /\ Progress(req[r], config, keys, saved, forms)
           /\ req[r].form = forms /\ forms # 0 /\ forms \in Nat
           /\ \A s \in saved : s.form \in Nat /\ s.form < forms
           /\ Layered(config)
           /\ Submitted(config, keys, forms)
           /\ Answered(saved, config, keys, forms)
  <1>1. req[r] \in Request /\ forms \in Nat /\ \A s \in saved : s.form \in Nat
    BY DEF IInv, TypeOK, Saved
  <1>2. req[r] # Idle
    BY IdleFits
  <1>3. Progress(req[r], config, keys, saved, forms)
    BY DEF AloneInv
  <1>4. req[r].form = forms /\ forms # 0 /\ \A s \in saved : s.form < forms
    BY <1>3 DEF Progress
  <1>5. Layered(config) /\ Submitted(config, keys, forms) /\ Answered(saved, config, keys, forms)
    BY DEF AloneInv
  <1>6. QED BY <1>1, <1>2, <1>3, <1>4, <1>5

\* The next field is assigned: it lies on older values and under the fields of
\* the same form, and breaks no promise, for those that are in force as a whole
\* stay at or above their form.
LEMMA AssignAlone ==
    ASSUME IInv, AloneInv, NEW r \in Requests, Assign(r)
    PROVE  AloneInv'
  <1> DEFINE q == req[r]
             w == q.worker
             i == q.at
             p == [q EXCEPT !.at = @ + 1]
  <1>1. /\ q.op = "settings" /\ i <= 5
        /\ config' = [config EXCEPT ![w][i] = q.form]
        /\ Become(r, p) /\ keys' = keys /\ saved' = saved
    BY DEF Assign
  <1>2. req' = [req EXCEPT ![r] = p] /\ alone' = alone /\ forms' = forms
    BY <1>1 DEF Become
  <1>3. q \in Request /\ w \in Workers /\ i \in Nat
    BY DEF IInv, TypeOK, Request
  <1>4. /\ p.op = "settings" /\ p.at = i + 1 /\ p.form = q.form /\ p.worker = w
        /\ p.named = q.named /\ p.todo = q.todo /\ p.lost = q.lost
    BY <1>1, <1>3 DEF Request
  <1>5. config \in [Workers -> [Fields -> Nat]]
    BY DEF IInv, TypeOK
  <1> HIDE DEF p, w, i
  <1>6. ASSUME NEW v \in Workers, NEW f \in Fields
        PROVE  config'[v][f] = IF v = w /\ f = i THEN q.form ELSE config[v][f]
    BY <1>1, <1>3, <1>5
  <1>7. ASSUME alone
        PROVE  /\ q # Idle
               /\ Layered(config')
               /\ Submitted(config', keys', forms')
               /\ Answered(saved', config', keys', forms')
               /\ Progress(p, config', keys', saved', forms')
    <2>1. /\ q # Idle
          /\ Progress(q, config, keys, saved, forms)
          /\ q.form = forms /\ forms # 0 /\ forms \in Nat
          /\ \A s \in saved : s.form \in Nat /\ s.form < forms
          /\ Layered(config)
          /\ Submitted(config, keys, forms)
          /\ Answered(saved, config, keys, forms)
      BY <1>1, <1>7, InProgress
    <2>2. \A f \in Fields : f < i => config[w][f] = forms
      BY <1>1, <2>1 DEF Progress, w, i
    <2>3. \A v \in Workers, f \in Fields : config[v][f] \in Nat /\ config[v][f] <= forms
      BY <1>5, <2>1 DEF Submitted
    <2>4. \A f \in Fields : f \in Int
      BY DEF Fields
    <2> HIDE DEF q
    <2>5. Layered(config')
      <3>1. ASSUME NEW v \in Workers, NEW f \in Fields, NEW g \in Fields, f <= g
            PROVE  config'[v][f] >= config'[v][g]
        <4>1. config[v][f] >= config[v][g]
          BY <2>1, <3>1 DEF Layered
        <4>2. CASE v = w /\ f = i
          BY <1>6, <2>1, <2>3, <4>2
        <4>3. CASE v = w /\ g = i /\ f # i
          <5>1. f < i
            BY <1>3, <2>4, <3>1, <4>3
          <5>2. config'[v][f] = forms /\ config'[v][g] = forms
            BY <1>6, <2>1, <2>2, <4>3, <5>1
          <5>3. QED BY <2>1, <5>2
        <4>4. CASE ~(v = w /\ f = i) /\ ~(v = w /\ g = i)
          BY <1>6, <4>1, <4>4
        <4>5. QED BY <4>2, <4>3, <4>4
      <3>2. QED BY <3>1 DEF Layered
    <2>6. Submitted(config', keys', forms')
      <3>1. \A v \in Workers : \A f \in Fields : config'[v][f] <= forms
        BY <1>6, <2>1, <2>3
      <3>2. QED BY <1>1, <1>2, <2>1, <3>1 DEF Submitted
    <2>7. Answered(saved', config', keys', forms')
      <3>1. ASSUME NEW s \in saved PROVE Promised(s, config', keys)
        <4>1. Promised(s, config, keys) /\ s.form \in Nat /\ s.form < forms /\ s.worker \in Workers
          BY <2>1 DEF Answered, IInv, TypeOK, Saved
        <4>2. ASSUME s.keys = {}, NEW g \in Fields, config'[s.worker][g] = s.form
              PROVE  \A f \in Fields : config'[s.worker][f] >= s.form
          <5>1. config[s.worker][g] = s.form
            BY <1>6, <2>1, <4>1, <4>2
          <5>2. \A f \in Fields : config[s.worker][f] >= s.form
            BY <4>1, <4>2, <5>1 DEF Promised
          <5>3. QED BY <1>6, <2>1, <4>1, <5>2
        <4>3. QED BY <4>1, <4>2 DEF Promised
      <3>2. QED BY <1>1, <1>2, <2>1, <3>1 DEF Answered
    <2>8. Progress(p, config', keys', saved', forms')
      <3>1. \A f \in Fields : f < i + 1 => config'[w][f] = forms
        BY <1>3, <1>6, <2>1, <2>2, <2>4
      <3>2. QED BY <1>1, <1>2, <1>4, <2>1, <3>1 DEF Progress
    <2>9. QED BY <2>1, <2>5, <2>6, <2>7, <2>8
  <1>8. QED BY <1>2, <1>7, OneMovesAlone DEF q

\* A form is answered: all its fields are in force.
LEMMA SaveSettingsAlone ==
    ASSUME IInv, AloneInv, NEW r \in Requests, SaveSettings(r)
    PROVE  AloneInv'
  <1> DEFINE q == req[r]
             s == [form |-> q.form, worker |-> q.worker, keys |-> {}]
  <1>1. /\ q.op = "settings" /\ q.at = 6
        /\ saved' = saved \cup {s}
        /\ Become(r, Idle) /\ config' = config /\ keys' = keys
    BY DEF SaveSettings
  <1>2. req' = [req EXCEPT ![r] = Idle] /\ alone' = alone /\ forms' = forms
    BY <1>1 DEF Become
  <1>3. s.form = q.form /\ s.worker = q.worker /\ s.keys = {}
    OBVIOUS
  <1> HIDE DEF s
  <1>4. ASSUME alone
        PROVE  /\ q # Idle
               /\ Layered(config')
               /\ Submitted(config', keys', forms')
               /\ Answered(saved', config', keys', forms')
               /\ Progress(Idle, config', keys', saved', forms')
    <2>1. /\ q # Idle
          /\ Progress(q, config, keys, saved, forms)
          /\ q.form = forms /\ forms # 0 /\ forms \in Nat
          /\ Layered(config)
          /\ Submitted(config, keys, forms)
          /\ Answered(saved, config, keys, forms)
      BY <1>1, <1>4, InProgress
    <2>2. \A f \in Fields : config[q.worker][f] = forms
      <3>1. \A f \in Fields : f < 6
        BY DEF Fields
      <3>2. QED BY <1>1, <2>1, <3>1 DEF Progress
    <2>3. Promised(s, config, keys)
      BY <1>3, <2>1, <2>2 DEF Promised
    <2>4. Answered(saved', config', keys', forms')
      BY <1>1, <1>2, <1>3, <2>1, <2>3 DEF Answered
    <2>5. Progress(Idle, config', keys', saved', forms')
      BY IdleFits DEF Progress
    <2>6. QED BY <1>1, <1>2, <2>1, <2>4, <2>5
  <1>5. QED BY <1>2, <1>4, OneMovesAlone

\* The look-up of a key's row.
LEMMA AskRowAlone ==
    ASSUME IInv, AloneInv, NEW r \in Requests, AskRow(r)
    PROVE  AloneInv'
  <1> DEFINE q     == req[r]
             found == keys[NextKey(q)] # Absent
             p     == [q EXCEPT !.op = "store", !.found = found]
  <1>1. q.op = "ask" /\ Become(r, p) /\ config' = config /\ keys' = keys /\ saved' = saved
    BY DEF AskRow
  <1>2. q \in Request
    BY DEF IInv, TypeOK
  <1> HIDE DEF found
  <1>3. /\ p.op = "store" /\ p.form = q.form
        /\ p.named = q.named /\ p.todo = q.todo /\ p.lost = q.lost
    BY <1>2 DEF Request
  <1> HIDE DEF p
  <1>4. alone => Progress(p, config, keys, saved, forms)
    BY <1>1, <1>3, InProgress DEF Progress
  <1>5. q # Idle
    BY <1>1, IdleFits
  <1>6. QED BY <1>1, <1>4, <1>5, QuietAlone

\* What is left of a form after one of its keys.
LEMMA StoredRest ==
    ASSUME NEW q \in Request
    PROVE  /\ Stored(q).op = "ask" /\ Stored(q).form = q.form
           /\ Stored(q).named = q.named /\ Stored(q).lost = q.lost
           /\ Stored(q).todo = q.todo \ {NextKey(q)}
           /\ Stored(q) \in Request
  <1> DEFINE k    == NextKey(q)
             todo == q.todo \ {k}
             s    == Stored(q)
  <1>1. s = [q EXCEPT !.op = "ask", !.todo = todo]
    BY DEF Stored
  <1> HIDE DEF k, s
  <1>2. /\ s.op = "ask" /\ s.form = q.form /\ s.named = q.named /\ s.lost = q.lost
        /\ s.todo = todo /\ s \in Request
    BY <1>1 DEF Request
  <1>3. QED BY <1>2 DEF s, k

\* A key whose failure is swallowed is lost.
LEMMA SwallowAlone ==
    ASSUME IInv, AloneInv, NEW r \in Requests, Swallow(r)
    PROVE  AloneInv'
  <1> DEFINE q    == req[r]
             t    == Stored(q)
             lost == t.lost \cup {NextKey(q)}
             p    == [t EXCEPT !.lost = lost]
  <1>1. q.op = "store" /\ Become(r, p) /\ config' = config /\ keys' = keys /\ saved' = saved
    BY DEF Swallow
  <1>2. q \in Request
    BY DEF IInv, TypeOK
  <1>3. /\ t.op = "ask" /\ t.form = q.form /\ t.named = q.named /\ t.lost = q.lost
        /\ t.todo = q.todo \ {NextKey(q)} /\ t \in Request
    BY <1>2, StoredRest
  <1> HIDE DEF t, lost
  <1>4. /\ p.op = "ask" /\ p.form = q.form
        /\ p.named = q.named /\ p.todo = q.todo \ {NextKey(q)} /\ p.lost = lost
    BY <1>3 DEF Request
  <1> HIDE DEF p
  <1>5. p.named \ (p.todo \cup p.lost) \subseteq q.named \ (q.todo \cup q.lost)
    BY <1>3, <1>4 DEF lost
  <1>6. ASSUME alone PROVE Progress(p, config, keys, saved, forms)
    <2>1. Progress(q, config, keys, saved, forms)
      BY <1>1, <1>6, InProgress
    <2> HIDE DEF q
    <2>2. QED BY <1>1, <1>4, <1>5, <2>1 DEF Progress
  <1>7. q # Idle
    BY <1>1, IdleFits
  <1>8. QED BY <1>1, <1>6, <1>7, QuietAlone

\* A key is stored: it is newer than every form that was answered.
LEMMA StoreAlone ==
    ASSUME IInv, AloneInv, NEW r \in Requests, Store(r)
    PROVE  AloneInv'
  <1> DEFINE q == req[r]
             k == NextKey(q)
             p == Stored(q)
  <1>1. /\ q.op = "store" /\ keys' = [keys EXCEPT ![k] = q.form]
        /\ req' = [Published(k, q.form) EXCEPT ![r] = p]
        /\ config' = config /\ saved' = saved /\ forms' = forms /\ alone' = alone
    BY DEF Store
  <1>2. q \in Request /\ k \in Keys
    BY NextKeyIsKey DEF IInv, TypeOK
  <1>3. /\ p.op = "ask" /\ p.form = q.form /\ p.named = q.named /\ p.lost = q.lost
        /\ p.todo = q.todo \ {k}
    BY <1>2, StoredRest
  <1>4. \A j \in Keys : keys'[j] = IF j = k THEN q.form ELSE keys[j]
    BY <1>1 DEF IInv, TypeOK
  <1>5. keys \in [Keys -> Nat \cup {-1}]
    BY DEF IInv, TypeOK, Absent
  <1>6. ASSUME alone PROVE req' = [req EXCEPT ![r] = p]
    <2>1. \A s \in Requests : s # r => req[s].op = "none"
      <3>1. q # Idle
        BY <1>1, IdleFits
      <3>2. \A s \in Requests : s # r => req[s] = Idle
        BY <1>6, <3>1 DEF AloneInv, Single
      <3>3. QED BY <3>2, IdleFits
    <2>2. DOMAIN req = Requests
      BY DEF IInv, TypeOK
    <2> HIDE DEF k, p
    <2>3. Published(k, q.form) = [s \in Requests |->
             IF req[s].op = "staff" /\ req[s].role = k
             THEN [req[s] EXCEPT !.valid = @ \cup {q.form}] ELSE req[s]]
      BY DEF Published
    <2>4. req[r].op # "staff"
      BY <1>1
    <2>5. \A s \in Requests : req[s].op # "staff"
      BY <2>1, <2>4
    <2>6. Published(k, q.form) = [s \in Requests |-> req[s]]
      BY <2>3, <2>5
    <2>7. req = [s \in Requests |-> req[s]]
      BY DEF IInv, TypeOK
    <2>8. QED BY <1>1, <2>6, <2>7
  <1>7. ASSUME alone
        PROVE  /\ q # Idle
               /\ Layered(config')
               /\ Submitted(config', keys', forms')
               /\ Answered(saved', config', keys', forms')
               /\ Progress(p, config', keys', saved', forms')
    <2>1. /\ q # Idle
          /\ Progress(q, config, keys, saved, forms)
          /\ q.form = forms /\ forms # 0 /\ forms \in Nat
          /\ \A s \in saved : s.form \in Nat /\ s.form < forms
          /\ Layered(config)
          /\ Submitted(config, keys, forms)
          /\ Answered(saved, config, keys, forms)
      BY <1>1, <1>7, InProgress
    <2>2. \A w \in Workers : \A f \in Fields : config[w][f] < forms
      BY <1>1, <2>1 DEF Progress
    <2> HIDE DEF q, k, p
    <2>3. \A j \in Keys : keys'[j] <= forms
      BY <1>2, <1>4, <2>1 DEF Submitted
    <2>4. Submitted(config', keys', forms')
      BY <1>1, <2>1, <2>3 DEF Submitted
    <2>5. ASSUME NEW s \in saved PROVE Promised(s, config, keys')
      <3>1. Promised(s, config, keys) /\ s.form \in Nat /\ s.form < forms /\ s.keys \subseteq Keys
        BY <2>1 DEF Answered, IInv, TypeOK, Saved
      <3>2. \A j \in s.keys : keys'[j] >= s.form
        BY <1>2, <1>4, <2>1, <3>1 DEF Promised
      <3>3. QED BY <3>1, <3>2 DEF Promised
    <2>6. Answered(saved', config', keys', forms')
      BY <1>1, <2>1, <2>5 DEF Answered
    <2>7. \A j \in p.named \ (p.todo \cup p.lost) : keys'[j] = forms
      <3>1. ASSUME NEW j \in p.named \ (p.todo \cup p.lost) PROVE keys'[j] = forms
        <4>1. j \in Keys
          BY <1>2, <1>3 DEF Request
        <4>2. CASE j = k
          BY <1>4, <2>1, <4>1, <4>2
        <4>3. CASE j # k
          <5>1. j \in q.named \ (q.todo \cup q.lost)
            BY <1>3, <4>3
          <5>2. keys[j] = forms
            BY <1>1, <2>1, <5>1 DEF Progress
          <5>3. QED BY <1>4, <4>1, <4>3, <5>2
        <4>4. QED BY <4>2, <4>3
      <3>2. QED BY <3>1
    <2>8. Progress(p, config', keys', saved', forms')
      BY <1>1, <1>3, <2>1, <2>2, <2>7 DEF Progress
    <2>9. QED BY <1>1, <2>1, <2>4, <2>6, <2>8
  <1>8. CASE alone
    BY <1>1, <1>6, <1>7, <1>8, OneMovesAlone
  <1>9. CASE ~alone
    BY <1>1, <1>9 DEF AloneInv
  <1>10. QED BY <1>8, <1>9

\* The keys are answered: those that were not lost are in force.
LEMMA SaveKeysAlone ==
    ASSUME IInv, AloneInv, NEW r \in Requests, SaveKeys(r)
    PROVE  AloneInv'
  <1> DEFINE q == req[r]
             s == [form |-> q.form, worker |-> q.worker, keys |-> q.named \ q.lost]
  <1>1. /\ q.op = "ask" /\ q.todo = {}
        /\ saved' = saved \cup {s}
        /\ Become(r, Idle) /\ config' = config /\ keys' = keys
    BY DEF SaveKeys
  <1>2. req' = [req EXCEPT ![r] = Idle] /\ alone' = alone /\ forms' = forms
    BY <1>1 DEF Become
  <1>3. s.form = q.form /\ s.worker = q.worker /\ s.keys = q.named \ q.lost
    OBVIOUS
  <1>4. q \in Request
    BY DEF IInv, TypeOK
  <1> HIDE DEF s
  <1>5. ASSUME alone
        PROVE  /\ q # Idle
               /\ Layered(config')
               /\ Submitted(config', keys', forms')
               /\ Answered(saved', config', keys', forms')
               /\ Progress(Idle, config', keys', saved', forms')
    <2>1. /\ q # Idle
          /\ Progress(q, config, keys, saved, forms)
          /\ q.form = forms /\ forms # 0 /\ forms \in Nat
          /\ Layered(config)
          /\ Submitted(config, keys, forms)
          /\ Answered(saved, config, keys, forms)
      BY <1>1, <1>5, InProgress
    <2>2. /\ \A w \in Workers : \A f \in Fields : config[w][f] < forms
          /\ \A k \in q.named \ q.lost : keys[k] = forms
      BY <1>1, <2>1 DEF Progress
    <2>3. q.worker \in Workers /\ \A w \in Workers : \A f \in Fields : config[w][f] \in Nat
      BY <1>4 DEF Request, IInv, TypeOK
    <2> HIDE DEF q
    <2>4. ~ \E f \in Fields : config[s.worker][f] = s.form
      BY <1>3, <2>1, <2>2, <2>3
    <2>5. \A k \in s.keys : keys[k] >= s.form
      BY <1>3, <2>1, <2>2
    <2>6. Promised(s, config, keys)
      BY <2>4, <2>5 DEF Promised
    <2>7. Answered(saved', config', keys', forms')
      BY <1>1, <1>2, <1>3, <2>1, <2>6 DEF Answered
    <2>8. Progress(Idle, config', keys', saved', forms')
      BY IdleFits DEF Progress
    <2>9. QED BY <1>1, <1>2, <2>1, <2>7, <2>8
  <1>6. QED BY <1>2, <1>5, OneMovesAlone

\* A worker that is replaced goes by config.py: its forms are no longer in force
\* in part, and the forms at the others are where they were.
LEMMA RestartAlone ==
    ASSUME IInv, AloneInv, NEW w \in Workers, Restart(w)
    PROVE  AloneInv'
  <1> DEFINE zero == [f \in Fields |-> 0]
  <1>1. /\ config' = [config EXCEPT ![w] = zero]
        /\ \A r \in Requests : req'[r] = IF req[r].worker = w THEN Idle ELSE req[r]
        /\ keys' = keys /\ saved' = saved /\ forms' = forms /\ alone' = alone
    BY DEF Restart
  <1>2. config \in [Workers -> [Fields -> Nat]] /\ forms \in Nat
    BY DEF IInv, TypeOK
  <1>3. \A f \in Fields : zero[f] = 0
    OBVIOUS
  <1> HIDE DEF zero
  <1>4. \A v \in Workers, f \in Fields : config'[v][f] = IF v = w THEN 0 ELSE config[v][f]
    BY <1>1, <1>2, <1>3
  <1> SUFFICES ASSUME alone
               PROVE  (/\ Single
                       /\ Layered(config)
                       /\ Submitted(config, keys, forms)
                       /\ Answered(saved, config, keys, forms)
                       /\ \A s \in Requests : Progress(req[s], config, keys, saved, forms))'
    BY <1>1 DEF AloneInv
  <1>5. /\ Single /\ Layered(config) /\ Submitted(config, keys, forms)
        /\ Answered(saved, config, keys, forms)
        /\ \A s \in Requests : Progress(req[s], config, keys, saved, forms)
    BY DEF AloneInv
  <1>6. Single'
    BY <1>1, <1>5 DEF Single
  <1>7. Layered(config)'
    <2>1. ASSUME NEW v \in Workers, NEW f \in Fields, NEW g \in Fields, f <= g
          PROVE  config'[v][f] >= config'[v][g]
      <3>1. CASE v = w
        BY <1>4, <3>1
      <3>2. CASE v # w
        BY <1>4, <1>5, <2>1, <3>2 DEF Layered
      <3>3. QED BY <3>1, <3>2
    <2>2. QED BY <2>1 DEF Layered
  <1>8. Submitted(config, keys, forms)'
    <2>1. \A v \in Workers : \A f \in Fields : config'[v][f] <= forms
      BY <1>2, <1>4, <1>5 DEF Submitted
    <2>2. QED BY <1>1, <1>5, <2>1 DEF Submitted
  <1>9. ASSUME NEW s \in saved PROVE Promised(s, config', keys)
    <2>1. Promised(s, config, keys) /\ s.form # 0 /\ s.worker \in Workers
      BY <1>5 DEF Answered, IInv, TypeOK, Saved
    <2>2. CASE s.worker = w
      <3>1. \A f \in Fields : config'[s.worker][f] # s.form
        BY <1>4, <2>1, <2>2
      <3>2. QED BY <2>1, <3>1 DEF Promised
    <2>3. CASE s.worker # w
      <3>1. \A f \in Fields : config'[s.worker][f] = config[s.worker][f]
        BY <1>4, <2>1, <2>3
      <3>2. QED BY <2>1, <3>1 DEF Promised
    <2>4. QED BY <2>2, <2>3
  <1>10. Answered(saved, config, keys, forms)'
    <2>1. Answered(saved, config', keys, forms)
      BY <1>5, <1>9 DEF Answered
    <2>2. QED BY <1>1, <2>1 DEF Answered, Promised
  <1>11. ASSUME NEW s \in Requests PROVE Progress(req[s], config, keys, saved, forms)'
    <2>1. CASE req[s].worker = w
      <3>1. req'[s].op = "none"
        BY <1>1, <2>1, IdleFits
      <3>2. QED BY <3>1 DEF Progress
    <2>2. CASE req[s].worker # w
      <3> PICK q : q = req[s]
        OBVIOUS
      <3>1. Progress(q, config, keys, saved, forms) /\ q.worker \in Workers
        BY <1>5 DEF IInv, TypeOK, Request
      <3>2. \A f \in Fields : config'[q.worker][f] = config[q.worker][f]
        BY <1>4, <2>2, <3>1
      <3>3. forms # 0 /\ (\A v \in Workers : \A f \in Fields : config[v][f] < forms)
              => \A v \in Workers : \A f \in Fields : config'[v][f] < forms
        BY <1>2, <1>4
      <3>4. Progress(q, config', keys, saved, forms)
        BY <3>1, <3>2, <3>3 DEF Progress
      <3>5. req'[s] = q
        BY <1>1, <2>2
      <3>6. QED BY <1>1, <3>4, <3>5 DEF Progress
    <2>3. QED BY <2>1, <2>2
  <1>12. QED BY <1>6, <1>7, <1>8, <1>10, <1>11

\* Nothing is submitted at first.
LEMMA InitAlone == Init => AloneInv
  <1> SUFFICES ASSUME Init PROVE AloneInv
    OBVIOUS
  <1>1. /\ config = [w \in Workers |-> [f \in Fields |-> 0]]
        /\ keys = [k \in Keys |-> -1] /\ saved = {} /\ forms = 0
        /\ \A r \in Requests : req[r] = Idle
    BY DEF Init, Absent
  <1>2. (\A w \in Workers : \A f \in Fields : config[w][f] = 0) /\ \A k \in Keys : keys[k] = -1
    BY <1>1
  <1>3. Layered(config)
    BY <1>2 DEF Layered
  <1>4. Submitted(config, keys, forms)
    <2>1. 0 <= 0 /\ -1 <= 0
      OBVIOUS
    <2>2. QED BY <1>1, <1>2, <2>1 DEF Submitted
  <1>5. Answered(saved, config, keys, forms)
    BY <1>1 DEF Answered
  <1>6. \A r \in Requests : Progress(req[r], config, keys, saved, forms)
    BY <1>1, IdleFits, IdleProgress
  <1>7. Single
    BY <1>1 DEF Single
  <1>8. QED BY <1>3, <1>4, <1>5, <1>6, <1>7 DEF AloneInv

\* Every step keeps the invariant.
LEMMA NextAlone ==
    ASSUME IInv, AloneInv, [Next]_vars
    PROVE  AloneInv'
  <1>1. CASE UNCHANGED vars
    BY <1>1 DEF vars, AloneInv, Single, Layered, Submitted, Answered, Promised, Progress
  <1>2. ASSUME NEW r \in Requests, StartSettings(r) \/ Assign(r) \/ SaveSettings(r) PROVE AloneInv'
    BY <1>2, StartSettingsAlone, AssignAlone, SaveSettingsAlone
  <1>3. ASSUME NEW r \in Requests,
               StartKeys(r) \/ AskRow(r) \/ Store(r) \/ Swallow(r) \/ SaveKeys(r)
        PROVE  AloneInv'
    BY <1>3, StartKeysAlone, AskRowAlone, StoreAlone, SwallowAlone, SaveKeysAlone
  <1>4. ASSUME NEW r \in Requests,
               StartStaff(r) \/ Expect(r) \/ ExpectBlindly(r) \/ Admit(r) \/ GiveUp(r)
        PROVE  AloneInv'
    BY <1>4, StartStaffAlone, QuietSteps
  <1>5. ASSUME NEW w \in Workers, Restart(w) PROVE AloneInv'
    BY <1>5, RestartAlone
  <1>6. QED BY <1>1, <1>2, <1>3, <1>4, <1>5 DEF Next

\* What a sequential execution holds on to at every moment.
LEMMA SequentialInvariance == Spec => [](IInv /\ AloneInv)
  <1>1. Init => IInv /\ AloneInv
    BY InitIInv, InitAlone
  <1>2. IInv /\ AloneInv /\ [Next]_vars => IInv' /\ AloneInv'
    BY NextIInv, NextAlone
  <1>3. QED BY <1>1, <1>2, PTL DEF Spec

\* While requests come one after the other, the values a worker goes by lie in
\* layers, newer forms above older ones, however many forms fail half-way and
\* workers are replaced (settings).
THEOREM ConfigLayered == Spec => []ConfigInLayers
  <1>1. AloneInv => ConfigInLayers
    BY DEF AloneInv, Layered, ConfigInLayers
  <1>2. QED BY <1>1, SequentialInvariance, PTL

\* While requests come one after the other, a form with the success message is
\* in force as a whole at its worker until a newer form or a restart reaches
\* that worker (settings).
THEOREM SavedInForce == Spec => []SavedApplyWhole
  <1>1. AloneInv => SavedApplyWhole
    BY DEF AloneInv, Answered, Promised, SavedApplyWhole
  <1>2. QED BY <1>1, SequentialInvariance, PTL

\* While requests come one after the other, a key that the success message
\* covers, and whose failure was not swallowed, is the form's or a newer one
\* (update_auth_keys, SystemSetting.set).
THEOREM RotationsHold == Spec => []RotationTakesHold
  <1>1. ASSUME IInv, AloneInv PROVE RotationTakesHold
    <2>1. ASSUME alone, NEW s \in saved, NEW k \in s.keys PROVE InForce(k) >= s.form
      <3>1. keys[k] >= s.form /\ s.form # 0 /\ s.form \in Nat /\ k \in Keys
        BY <1>1, <2>1 DEF AloneInv, Answered, Promised, IInv, TypeOK, Saved
      <3>2. keys[k] \in Nat \cup {-1}
        BY <1>1, <3>1 DEF IInv, TypeOK, Absent
      <3>3. QED BY <3>1, <3>2 DEF InForce
    <2>2. QED BY <2>1 DEF RotationTakesHold
  <1>2. QED BY <1>1, SequentialInvariance, PTL
================================================================================
