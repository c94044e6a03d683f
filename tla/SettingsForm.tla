---------------------------- MODULE SettingsForm ----------------------------
(***************************************************************************)
(* A system-settings form of the web console: useSettingsForm with the     *)
(* option query that feeds it and the mutations that save it               *)
(* (src/web/default/src/features/system-settings/hooks).                   *)
(*                                                                         *)
(* The form is fed by a cached query that may be refetched at any time     *)
(* (every saved option invalidates it), edited by the user, saved field    *)
(* by field or in bulk, and the options themselves are shared with other   *)
(* administrators.  React runs the hook's effect after the render that     *)
(* follows a new snapshot or a change of isDirty; here it is part of the   *)
(* step that causes that render.                                           *)
(*                                                                         *)
(* On the server the options are the database and the OptionMap of the     *)
(* replica that stores them (controller/option.go, model/option.go).  The  *)
(* query may be answered by another replica, whose OptionMap is loaded     *)
(* from the database now and then.                                         *)
(***************************************************************************)
EXTENDS Naturals

CONSTANTS
    Fields,      \* the options of the section
    Values,      \* their values, as the server stores them
    Unset,       \* an emptied number field: undefined
    Rough,       \* an input that the server normalizes, ...
    Normal,      \* ... and what it stores instead
    Optional,    \* the fields that may be empty
    MaxEdits,    \* bound: edits of the user
    MaxOthers,   \* bound: writes of other administrators
    MaxFailures  \* bound: saves that fail half way

ASSUME BoundsAssumption ==
    MaxEdits \in Nat /\ MaxOthers \in Nat /\ MaxFailures \in Nat

ASSUME InputsAssumption ==
    Normal \in Values /\ Rough \notin Values /\ Unset \notin Values \cup {Rough}

Snapshot == [Fields -> Values]

\* What the fields of the form can hold.
Inputs == Values \cup {Rough, Unset}
Form == [Fields -> Inputs]

VARIABLES
    server,     \* the options of the server
    replica,    \* the OptionMap of another replica
    late,       \* options sent by saves that were given up, not stored yet
    fetch,      \* the option query: "idle", "asked", "read" (with the snapshot
                \* on its way) or "failed"
    shown,      \* the cached snapshot the section renders (expandedDefaults)
    values,     \* what the form's inputs hold
    base,       \* the form's default values and the hook's baselineRef
    applied,    \* serializedServerRef: the last server snapshot handled
    deferred,   \* deferredServerRef: the deferred snapshot, or nothing
    save,       \* the submit under way
    edits, others, failures,
    \* history, for the properties only
    held,       \* held[f]: values the server has had
    touched,    \* fields edited since the form was last reset
    saved       \* "no", "yes": the last thing that happened is a completed save;
                \* "disturbed": since it began the user typed, another
                \* administrator wrote or an earlier save was stored

hook == <<values, base, applied, deferred>>
counters == <<edits, others, failures>>
vars == <<server, replica, late, fetch, shown, values, base, applied, deferred, save,
          edits, others, failures, held, touched, saved>>

\* active: onSubmit is running.  todo: changed fields to send and not confirmed
\* yet; sent: the ones on the wire; landed: of these, the ones the server has
\* applied, and prior the options before it did.  data: the submitted values;
\* seen: expandedDefaults of the render whose handler is running; from, fields,
\* touched: the baseline, the changed and the edited fields at that moment.
Save == [active : BOOLEAN, bulk : BOOLEAN, todo : SUBSET Fields,
         sent : SUBSET Fields, landed : SUBSET Fields, prior : Snapshot, data : Form,
         seen : Snapshot, from : Form, fields : SUBSET Fields, touched : SUBSET Fields]

TypeOK ==
    /\ server \in Snapshot
    /\ replica \in Snapshot
    /\ late \subseteq [field : Fields, value : Values]
    /\ fetch \in [phase : {"idle", "asked", "read", "failed"}, data : Snapshot]
    /\ shown \in Snapshot
    /\ values \in Form
    /\ base \in Form
    /\ applied \in Snapshot
    /\ deferred \in SUBSET Snapshot
    /\ save \in Save
    /\ edits \in Nat /\ others \in Nat /\ failures \in Nat
    /\ held \in [Fields -> SUBSET Values]
    /\ touched \in SUBSET Fields
    /\ saved \in {"no", "yes", "disturbed"}

\* The section mounts with a snapshot in the cache.
Init ==
    /\ server \in Snapshot
    /\ replica = server
    /\ late = {}
    /\ fetch = [phase |-> "idle", data |-> server]
    /\ shown = server
    /\ values = server
    /\ base = server
    /\ applied = server
    /\ deferred = {}
    /\ save = [active |-> FALSE, bulk |-> FALSE, todo |-> {}, sent |-> {},
               landed |-> {}, prior |-> server, data |-> server, seen |-> server,
               from |-> server, fields |-> {}, touched |-> {}]
    /\ edits = 0 /\ others = 0 /\ failures = 0
    /\ held = [f \in Fields |-> {server[f]}]
    /\ touched = {}
    /\ saved = "no"

\* Every field of the section is sent.
ChangedAll(v, b) == Fields

\* collectDirtyValues and flattenValues: the fields to save.
Changed(v, b) == {f \in Fields : v[f] # b[f]}
isDirty == values # base

\* The hook's effect, run on snapshot s with the form holding v over b, the
\* last handled snapshot a and the deferred one d.
Effect(s, v, b, a, d) ==
    IF s = a
    THEN values' = v /\ base' = b /\ applied' = a /\ deferred' = d
    ELSE IF v # b
    THEN values' = v /\ base' = b /\ applied' = a /\ deferred' = {s}
    ELSE IF s \in d
    THEN values' = v /\ base' = b /\ applied' = a /\ deferred' = d
    ELSE values' = s /\ base' = s /\ applied' = s /\ deferred' = d

\* normalizeOptionValues: ServerAddress is parsed and written out again.
Stored(x) == IF x = Rough THEN Normal ELSE x

-----------------------------------------------------------------------------
(* The user                                                                  *)

Edit(f, x) ==
    /\ edits < MaxEdits
    /\ values[f] # x
    /\ edits' = edits + 1
    /\ Effect(shown, [values EXCEPT ![f] = x], base, applied, deferred)
    /\ touched' = touched \cup {f}
    /\ saved' = IF save.active THEN "disturbed" ELSE "no"
    /\ UNCHANGED <<server, replica, late, fetch, shown, save, others, failures, held>>

\* handleReset: back to defaultValuesRef.
handleReset ==
    /\ isDirty
    /\ ~save.active
    /\ Effect(shown, base, base, applied, deferred)
    /\ touched' = {}
    /\ saved' = "no"
    /\ UNCHANGED <<server, replica, late, fetch, shown, save, counters, held>>

\* handleSubmit up to its await: the resolver accepts the form, and some dirty
\* field differs from the baseline.  onSubmit skips what is undefined; the
\* section that saves in bulk has no such field.
Submit(bulk) ==
    /\ ~save.active
    /\ \A f \in Fields : values[f] = Unset => f \in Optional /\ ~bulk
    /\ Changed(values, base) # {}
    /\ save' = [active |-> TRUE, bulk |-> bulk,
                todo |-> {f \in Changed(values, base) : values[f] # Unset},
                sent |-> {}, landed |-> {}, prior |-> shown, data |-> values,
                seen |-> shown, from |-> base, fields |-> Changed(values, base),
                touched |-> touched]
    /\ saved' = "no"
    /\ UNCHANGED <<server, replica, late, fetch, shown, hook, counters, held, touched>>

-----------------------------------------------------------------------------
(* Saving: onSubmit awaits one mutation per field, or one for all of them    *)

Send ==
    /\ save.active
    /\ save.sent = {}
    /\ save.todo # {}
    /\ IF save.bulk
       THEN save' = [save EXCEPT !.sent = save.todo]
       ELSE \E f \in save.todo : save' = [save EXCEPT !.sent = {f}]
    /\ UNCHANGED <<server, replica, late, fetch, shown, hook, counters, held, touched, saved>>

\* persistOptionValues: the options enter the OptionMap one by one, and a query
\* may be answered in between.
Store(f) ==
    /\ f \in save.sent \ save.landed
    /\ server' = [server EXCEPT ![f] = Stored(save.data[f])]
    /\ held' = [held EXCEPT ![f] = @ \cup {Stored(save.data[f])}]
    /\ save' = [save EXCEPT !.landed = @ \cup {f},
                            !.prior = IF save.landed = {} THEN server ELSE @]
    /\ UNCHANGED <<replica, late, fetch, shown, hook, counters, touched, saved>>

\* The mutation succeeds: its onSuccess invalidates the option query, which
\* asks again.  A GET that is on its way already answers this one too (api.get).
Confirm ==
    /\ save.sent # {}
    /\ save.sent = save.landed
    /\ save' = [save EXCEPT !.todo = @ \ save.sent, !.sent = {}, !.landed = {},
                            !.prior = save.seen]
    /\ fetch' = IF fetch.phase \in {"asked", "read"}
                THEN fetch
                ELSE [fetch EXCEPT !.phase = "asked"]
    /\ UNCHANGED <<server, replica, late, shown, hook, counters, held, touched, saved>>

\* A save that does not forget the deferred snapshot.
FinishKeepsDeferred ==
    /\ save.active
    /\ save.todo = {}
    /\ save' = [save EXCEPT !.active = FALSE]
    /\ IF isDirty
       THEN Effect(shown, save.data, save.data, save.seen, deferred)
       ELSE /\ values' = save.data
            /\ base' = save.data
            /\ applied' = save.seen
            /\ UNCHANGED deferred
    /\ touched' = {}
    /\ saved' = IF saved = "disturbed" THEN "disturbed" ELSE "yes"
    /\ UNCHANGED <<server, replica, late, fetch, shown, counters, held>>

\* handleSubmit after its await.  Its closure still holds the snapshot of the
\* render it was created in (save.seen).
Finish ==
    /\ save.active
    /\ save.todo = {}
    /\ save' = [save EXCEPT !.active = FALSE]
    /\ IF isDirty
       THEN Effect(shown, save.data, save.data, save.seen, {})
       ELSE /\ values' = save.data
            /\ base' = save.data
            /\ applied' = save.seen
            /\ deferred' = {}
    /\ touched' = {}
    /\ saved' = IF saved = "disturbed" THEN "disturbed" ELSE "yes"
    /\ UNCHANGED <<server, replica, late, fetch, shown, counters, held>>

\* rollbackOptionValues: the options that have entered the OptionMap leave it.
RolledBack ==
    [f \in Fields |-> IF f \in save.landed THEN save.prior[f] ELSE server[f]]

\* What the client does not wait for any longer.
Left == {[field |-> f, value |-> Stored(save.data[f])] : f \in save.sent \ save.landed}

\* A failed save moves the baseline as a successful one does.
FailRebased ==
    /\ save.sent # {}
    /\ failures < MaxFailures
    /\ failures' = failures + 1
    /\ save' = [save EXCEPT !.active = FALSE, !.todo = {}, !.sent = {}, !.landed = {},
                            !.prior = save.seen]
    /\ \/ save.landed # save.sent /\ server' = RolledBack /\ UNCHANGED late
       \/ late' = late \cup Left /\ UNCHANGED server
    /\ saved' = "no"
    /\ base' = save.data
    /\ UNCHANGED <<replica, fetch, shown, values, applied, deferred, edits, others,
                   held, touched>>

\* The mutation fails: the server refused the options or could not apply one of
\* them, or the answer does not come in time, whether or not the server stores
\* them.  handleSubmit rejects and the remaining fields are not sent.
Fail ==
    /\ save.sent # {}
    /\ failures < MaxFailures
    /\ failures' = failures + 1
    /\ save' = [save EXCEPT !.active = FALSE, !.todo = {}, !.sent = {}, !.landed = {},
                            !.prior = save.seen]
    /\ \/ save.landed # save.sent /\ server' = RolledBack /\ UNCHANGED late
       \/ late' = late \cup Left /\ UNCHANGED server
    /\ saved' = "no"
    /\ UNCHANGED <<replica, fetch, shown, hook, edits, others, held, touched>>

-----------------------------------------------------------------------------
(* The option query, and the rest of the world                               *)

Refetch ==
    /\ fetch.phase \in {"idle", "failed"}
    /\ fetch' = [fetch EXCEPT !.phase = "asked"]
    /\ UNCHANGED <<server, replica, late, shown, hook, save, counters, held, touched, saved>>

\* GetOptions reads the OptionMap of the replica that answers.
Read ==
    /\ fetch.phase = "asked"
    /\ \E s \in {server, replica} : fetch' = [phase |-> "read", data |-> s]
    /\ UNCHANGED <<server, replica, late, shown, hook, save, counters, held, touched, saved>>

\* The answer arrives: a new snapshot is rendered and the effect runs.
Arrive ==
    /\ fetch.phase = "read"
    /\ fetch' = [fetch EXCEPT !.phase = "idle"]
    /\ shown' = fetch.data
    /\ Effect(fetch.data, values, base, applied, deferred)
    /\ touched' = IF isDirty THEN touched ELSE {}
    /\ UNCHANGED <<server, replica, late, save, counters, held, saved>>

FetchFails ==
    /\ fetch.phase \in {"asked", "read"}
    /\ fetch' = [phase |-> "failed", data |-> shown]
    /\ UNCHANGED <<server, replica, late, shown, hook, save, counters, held, touched, saved>>

\* loadOptionsFromDatabase, called by RunOptionSync.
Sync ==
    /\ replica # server
    /\ replica' = server
    /\ UNCHANGED <<server, late, fetch, shown, hook, save, counters, held, touched, saved>>

\* optionUpdateMutex: between the options of one save nobody else writes.
Write(f, x) ==
    /\ save.landed \in {{}, save.sent}
    /\ server' = [server EXCEPT ![f] = x]
    /\ held' = [held EXCEPT ![f] = @ \cup {x}]
    /\ saved' = IF saved # "no" \/ save.active THEN "disturbed" ELSE "no"
    /\ UNCHANGED <<replica, fetch, shown, hook, save, edits, failures, touched>>

\* Another administrator writes an option.
Other(f, x) ==
    /\ others < MaxOthers
    /\ others' = others + 1
    /\ Write(f, x)
    /\ UNCHANGED late

\* The server stores what a client has given up.
StoreLate(w) ==
    /\ late' = late \ {w}
    /\ Write(w.field, w.value)
    /\ UNCHANGED others

Next ==
    \/ \E f \in Fields, x \in Inputs : Edit(f, x)
    \/ \E f \in Fields, x \in Values : Other(f, x)
    \/ \E w \in late : StoreLate(w)
    \/ handleReset
    \/ \E bulk \in BOOLEAN : Submit(bulk)
    \/ \E f \in Fields : Store(f)
    \/ Send \/ Confirm \/ Finish \/ Fail
    \/ Refetch \/ Read \/ Arrive \/ FetchFails \/ Sync

Spec == Init /\ [][Next]_vars

-----------------------------------------------------------------------------
(* Properties                                                                *)

\* The server has had input x in field f, or x is empty and never sent.
Known(f, x) == x = Unset \/ Stored(x) \in held[f]

\* A form that reports nothing to save shows, but for emptied fields, only
\* what the server has had or has normalized: handleSubmit moves the baseline
\* to the submitted values only after every mutation succeeded, and snapshots
\* come from the server.
CleanMeansSaved ==
    ~isDirty => \A f \in Fields : Known(f, values[f])

\* A save overwrites only options the user edited, at once or after it was
\* given up: what another administrator wrote to the others stays, however late
\* this form learns of it.
SavesOnlyEdits ==
    [][\A f \in Fields :
        server'[f] # server[f] /\ others' = others =>
            f \in save.touched \/ \E w \in late : w.field = f /\ w \notin late']_vars

\* The hook does not lock out what it waits for: after a save that nothing
\* disturbed, of a form based on the snapshot on display, the form shows what
\* the server holds as soon as the section does.  Neither the deferred snapshot
\* nor the one marked as handled stands in the way.  (They do if a submitted
\* value was not sent or was normalized.)
FreshIsShown ==
    /\ saved = "yes" /\ save.seen = save.from
    /\ \A f \in save.fields : save.data[f] \in Values
    /\ shown = server
    => values = shown

\* The parts of the inductive invariant of the proofs.  Snapshots come from the
\* server and so does the baseline, but for what is empty or was normalized; a
\* save has confirmed, or found in the baseline, every submitted value that is
\* not waiting to be stored, and has only edited fields to send; only edited
\* fields differ from the baseline.
AllHeld(s) == \A f \in Fields : s[f] \in held[f]

SnapshotsHeld ==
    /\ AllHeld(server) /\ AllHeld(replica) /\ AllHeld(fetch.data) /\ AllHeld(shown)
    /\ AllHeld(save.prior) /\ AllHeld(save.seen)
    /\ \A f \in Fields : Known(f, base[f])

SaveFits ==
    /\ save.landed \subseteq save.sent /\ save.sent \subseteq save.todo
    /\ save.todo \subseteq save.touched
    /\ \A f \in save.todo : save.data[f] # Unset
    /\ save.active =>
          \A f \in Fields : f \in save.todo \ save.landed \/ Known(f, save.data[f])

EditsFit == Changed(values, base) \subseteq touched

FormInv == TypeOK /\ SnapshotsHeld /\ SaveFits /\ EditsFit

\* What handleSubmit says of the snapshot it marks as handled: the values just
\* saved are not overwritten by an older one.
SavedStaysShown ==
    saved = "yes" => \A f \in save.fields : values[f] = save.data[f]

\* What system-info-section.tsx says of its own form: none reports "saved" while
\* it displays something the server never stored.
CleanShowsStored ==
    ~isDirty => \A f \in Fields : values[f] \in held[f]
=============================================================================
