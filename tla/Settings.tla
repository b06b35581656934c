------------------------------- MODULE Settings --------------------------------
(***************************************************************************)
(* The settings an administrator changes at run time, and who reads them   *)
(* (app/routes/admin.py, app/models/system_setting.py, app/routes/auth.py).*)
(*                                                                         *)
(* The system settings are written into the configuration of the worker    *)
(* process that happens to serve the form, one field after the other, and  *)
(* int() may raise between two of them.  The two keys that staff register  *)
(* with are rows of system_settings; SystemSetting.set looks a row up,     *)
(* stores it with a commit of its own and swallows every failure.          *)
(***************************************************************************)
EXTENDS Integers

CONSTANTS
    Requests,  \* Concurrent HTTP requests.
    Workers,   \* Worker processes, each with a configuration of its own.
    MaxForms   \* Bound on the forms that administrators submit.

ASSUME ConstantsAssumption == MaxForms \in Nat /\ Workers # {}

VARIABLES
    config,    \* Per worker and field, the form the value is from; 0: config.py.
    keys,      \* Per key, the form its row is from; 0: an empty value.
    saved,     \* Forms that were audited and answered with a success message.
    admitted,  \* The last registration of staff that went through, if any.
    req,       \* Every request: its form and its progress.
    forms,     \* Forms submitted so far.
    alone      \* History: no request has started during another one so far.

vars == <<config, keys, saved, admitted, req, forms, alone>>

-----------------------------------------------------------------------------
\* INSTITUTION_NAME, DAILY_TRANSFER_LIMIT, MAX_FAILED_LOGIN_ATTEMPTS,
\* SESSION_TIMEOUT_MINUTES and VERSION_DIFF_ENGINE, as they are assigned.
Fields == 1 .. 5

\* The fields that go through Decimal() or int(); 6 stands for a good form.
Breaks == {2, 3, 4, 6}

Keys == {"employee", "admin"}

Absent == -1

\* The key a registration must show; 0 is the default of config.py, also for an
\* empty row (SystemSetting.get).
InForce(k) == IF keys[k] > 0 THEN keys[k] ELSE 0

\* `at' is the field to assign next, `break' the field that raises; `todo' are
\* the keys left to store, `found' whether the row of the next one exists and
\* `lost' the keys whose failure was swallowed; `offer' is the key an applicant
\* shows, `expected' the one it is compared with, `valid' the ones in force
\* since the request began and `blind' whether the look-up failed.
Request ==
    [op : {"none", "settings", "ask", "store", "staff", "register"},
     worker : Workers, form : Nat, at : Nat, break : Nat,
     todo : SUBSET Keys, named : SUBSET Keys, lost : SUBSET Keys, found : BOOLEAN,
     role : Keys, offer : Nat, expected : Nat, valid : SUBSET Nat, blind : BOOLEAN]

Idle ==
    [op |-> "none", worker |-> CHOOSE w \in Workers : TRUE, form |-> 0, at |-> 1,
     break |-> 6, todo |-> {}, named |-> {}, lost |-> {}, found |-> FALSE,
     role |-> "admin", offer |-> 0, expected |-> 0, valid |-> {}, blind |-> FALSE]

Saved == [form : Nat, worker : Workers, keys : SUBSET Keys]

Admission == [role : Keys, key : Nat, valid : SUBSET Nat, blind : BOOLEAN]

Init ==
    /\ config = [w \in Workers |-> [f \in Fields |-> 0]]
    /\ keys = [k \in Keys |-> Absent]
    /\ saved = {}
    /\ admitted = {}
    /\ req = [r \in Requests |-> Idle]
    /\ forms = 0
    /\ alone = TRUE

Start(r, q) ==
    /\ req[r] = Idle
    /\ req' = [req EXCEPT ![r] = q]
    /\ alone' = (alone /\ \A s \in Requests : req[s] = Idle)
    /\ UNCHANGED <<config, keys, saved, admitted>>

Become(r, q) == req' = [req EXCEPT ![r] = q] /\ UNCHANGED <<forms, alone>>

Submit(r, q) ==
    /\ forms < MaxForms
    /\ forms' = forms + 1
    /\ Start(r, [q EXCEPT !.form = forms + 1])

-----------------------------------------------------------------------------
(* The system settings                                                      *)

StartSettings(r) ==
    \E w \in Workers, b \in Breaks :
        Submit(r, [Idle EXCEPT !.op = "settings", !.worker = w, !.break = b])

\* Fault: the engine is assigned before the numbers are parsed.
AssignBackwards(r) ==
    LET q == req[r]
    IN  /\ q.op = "settings"
        /\ q.at <= 5
        /\ q.at # q.break
        /\ config' = [config EXCEPT ![q.worker][6 - q.at] = q.form]
        /\ Become(r, [q EXCEPT !.at = @ + 1])
        /\ UNCHANGED <<keys, saved, admitted>>

Assign(r) ==
    LET q == req[r]
    IN  /\ q.op = "settings"
        /\ q.at <= 5
        /\ q.at # q.break
        /\ config' = [config EXCEPT ![q.worker][q.at] = q.form]
        /\ Become(r, [q EXCEPT !.at = @ + 1])
        /\ UNCHANGED <<keys, saved, admitted>>

\* Fault: the success message is in a finally clause.
SaveSettingsAnyway(r) ==
    /\ req[r].op = "settings"
    /\ saved' = saved \cup {[form |-> req[r].form, worker |-> req[r].worker, keys |-> {}]}
    /\ Become(r, Idle)
    /\ UNCHANGED <<config, keys, admitted>>

\* The audit row commits and the page says so.
SaveSettings(r) ==
    /\ req[r].op = "settings"
    /\ req[r].at = 6
    /\ saved' = saved \cup {[form |-> req[r].form, worker |-> req[r].worker, keys |-> {}]}
    /\ Become(r, Idle)
    /\ UNCHANGED <<config, keys, admitted>>

-----------------------------------------------------------------------------
(* The keys                                                                 *)

StartKeys(r) ==
    \E named \in SUBSET Keys :
        Submit(r, [Idle EXCEPT !.op = "ask", !.todo = named, !.named = named])

\* The employees' key comes first.
NextKey(q) == IF "employee" \in q.todo THEN "employee" ELSE "admin"

\* SystemSetting.set looks for the row ...
AskRow(r) ==
    LET q == req[r]
    IN  /\ q.op = "ask"
        /\ q.todo # {}
        /\ Become(r, [q EXCEPT !.op = "store", !.found = keys[NextKey(q)] # Absent])
        /\ UNCHANGED <<config, keys, saved, admitted>>

Stored(q) == [q EXCEPT !.op = "ask", !.todo = @ \ {NextKey(q)}]

\* Registrations in progress see the new key or the old one.
Published(k, v) ==
    [s \in Requests |->
        IF req[s].op = "staff" /\ req[s].role = k
        THEN [req[s] EXCEPT !.valid = @ \cup {v}] ELSE req[s]]

\* Fault: both keys are stored under the name of the first.
StoreUnderFirst(r) ==
    LET q == req[r]
    IN  /\ q.op = "store"
        /\ keys' = [keys EXCEPT !["employee"] = q.form]
        /\ req' = [Published("employee", q.form) EXCEPT ![r] = Stored(q)]
        /\ UNCHANGED <<config, saved, admitted, forms, alone>>

\* ... and updates or inserts it, committed by itself.  An INSERT must still
\* find no row of that key.
Store(r) ==
    LET q == req[r]
        k == NextKey(q)
    IN  /\ q.op = "store"
        /\ q.found \/ keys[k] = Absent
        /\ keys' = [keys EXCEPT ![k] = q.form]
        /\ req' = [Published(k, q.form) EXCEPT ![r] = Stored(q)]
        /\ UNCHANGED <<config, saved, admitted, forms, alone>>

\* A broken UNIQUE constraint or "database is locked" is swallowed.
Swallow(r) ==
    LET q == req[r]
    IN  /\ q.op = "store"
        /\ Become(r, [Stored(q) EXCEPT !.lost = @ \cup {NextKey(q)}])
        /\ UNCHANGED <<config, keys, saved, admitted>>

SaveKeys(r) ==
    LET q == req[r]
    IN  /\ q.op = "ask"
        /\ q.todo = {}
        /\ saved' = saved \cup {[form |-> q.form, worker |-> q.worker, keys |-> q.named \ q.lost]}
        /\ Become(r, Idle)
        /\ UNCHANGED <<config, keys, admitted>>

-----------------------------------------------------------------------------
(* Registration of staff                                                    *)

StartStaff(r) ==
    \E k \in Keys, v \in 0 .. forms :
        /\ Start(r, [Idle EXCEPT !.op = "staff", !.role = k, !.offer = v, !.valid = {InForce(k)}])
        /\ UNCHANGED forms

\* Fault: the key of config.py is the one expected.
ExpectDefault(r) ==
    /\ req[r].op = "staff"
    /\ Become(r, [req[r] EXCEPT !.op = "register", !.expected = 0])
    /\ UNCHANGED <<config, keys, saved, admitted>>

Expect(r) ==
    /\ req[r].op = "staff"
    /\ Become(r, [req[r] EXCEPT !.op = "register", !.expected = InForce(req[r].role)])
    /\ UNCHANGED <<config, keys, saved, admitted>>

\* SystemSetting.get answers a database error with the default.
ExpectBlindly(r) ==
    /\ req[r].op = "staff"
    /\ Become(r, [req[r] EXCEPT !.op = "register", !.expected = 0, !.blind = TRUE])
    /\ UNCHANGED <<config, keys, saved, admitted>>

Admit(r) ==
    LET q == req[r]
    IN  /\ q.op = "register"
        /\ q.offer = q.expected
        /\ admitted' = {[role |-> q.role, key |-> q.offer, valid |-> q.valid, blind |-> q.blind]}
        /\ Become(r, Idle)
        /\ UNCHANGED <<config, keys, saved>>

\* The form raises, the key is wrong, an exception or a dropped connection:
\* what was assigned or committed before stays.
GiveUp(r) ==
    /\ req[r] # Idle
    /\ Become(r, Idle)
    /\ UNCHANGED <<config, keys, saved, admitted>>

\* Fault: fields that config.py does not name have no default.
RestartIncomplete(w) ==
    /\ config' = [config EXCEPT ![w] = [f \in Fields \ {1, 5} |-> 0]]
    /\ req' = [r \in Requests |-> IF req[r].worker = w THEN Idle ELSE req[r]]
    /\ UNCHANGED <<keys, saved, admitted, forms, alone>>

\* A worker is replaced; it starts with config.py, and its requests are lost.
Restart(w) ==
    /\ config' = [config EXCEPT ![w] = [f \in Fields |-> 0]]
    /\ req' = [r \in Requests |-> IF req[r].worker = w THEN Idle ELSE req[r]]
    /\ UNCHANGED <<keys, saved, admitted, forms, alone>>

Next ==
    \/ \E r \in Requests :
          \/ StartSettings(r) \/ Assign(r) \/ SaveSettings(r)
          \/ StartKeys(r) \/ AskRow(r) \/ Store(r) \/ Swallow(r) \/ SaveKeys(r)
          \/ StartStaff(r) \/ Expect(r) \/ ExpectBlindly(r) \/ Admit(r) \/ GiveUp(r)
    \/ \E w \in Workers : Restart(w)

Spec == Init /\ [][Next]_vars

-----------------------------------------------------------------------------
(* Properties of every execution                                            *)

\* Every variable has its type.
TypeOK ==
    /\ config \in [Workers -> [Fields -> Nat]]
    /\ keys \in [Keys -> Nat \cup {Absent}]
    /\ \A s \in saved : s \in Saved
    /\ \A a \in admitted : a \in Admission
    /\ req \in [Requests -> Request]
    /\ forms \in Nat
    /\ alone \in BOOLEAN

\* Staff register only with a key that was in force at some moment of their
\* registration, however rotations overlap it; the default of config.py admits
\* after a rotation only when the database failed to answer (employee_register,
\* admin_register, SystemSetting.get).
AdmittedByKey ==
    \A a \in admitted : a.key \in a.valid \/ (a.blind /\ a.key = 0)

-----------------------------------------------------------------------------
(* Properties of executions in which requests do not overlap                *)

\* What a worker goes by lies in layers: a form that fails leaves its first
\* fields on top of the older values of the others, so no field is newer than
\* one assigned before it (settings).
ConfigInLayers ==
    alone => \A w \in Workers : \A f, g \in Fields : f <= g => config[w][f] >= config[w][g]

\* A form that was answered with the success message is in force as a whole at
\* the worker that served it, until a newer form or a restart reaches that
\* worker (settings: "System configuration updated").
SavedApplyWhole ==
    alone =>
        \A s \in saved :
            /\ s.keys = {}
            /\ \E f \in Fields : config[s.worker][f] = s.form
            => \A f \in Fields : config[s.worker][f] >= s.form

\* A key that the success message covers and whose failure was not swallowed is
\* that of the form, or of a newer one (update_auth_keys, SystemSetting.set).
RotationTakesHold ==
    alone => \A s \in saved : \A k \in s.keys : InForce(k) >= s.form
=============================================================================
