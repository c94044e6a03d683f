------------------------- MODULE SettingsFormProofs -------------------------
(***************************************************************************)
(* Proofs about SettingsForm, for any fields, values and bounds: FormInv   *)
(* is inductive, so a form that reports nothing to save shows, but for     *)
(* emptied fields, what the server has had or has normalized, and a save   *)
(* overwrites edited options only.                                         *)
(***************************************************************************)
EXTENDS SettingsForm, TLAPS

Fetch == [phase : {"idle", "asked", "read", "failed"}, data : Snapshot]

\* A snapshot can be shown in the form.
LEMMA SnapshotIsForm == \A s \in Snapshot : s \in Form
  BY DEF Snapshot, Form, Inputs

\* The server stores the values it holds as they are, and everything that is not
\* empty as some value.
LEMMA StoredValue ==
    /\ \A x \in Values : Stored(x) = x
    /\ \A x \in Inputs : x # Unset => Stored(x) \in Values
  BY InputsAssumption DEF Stored, Inputs

\* What a snapshot from the server shows is known.
LEMMA HeldIsKnown ==
    ASSUME NEW s \in Snapshot, AllHeld(s)
    PROVE  \A f \in Fields : Known(f, s[f])
  BY StoredValue DEF AllHeld, Known, Snapshot

\* What the hook's effect may do: it leaves the form alone, or it shows the
\* snapshot in a form without edits.
LEMMA EffectCases ==
    ASSUME NEW s \in Snapshot, NEW v \in Form, NEW b \in Form, NEW a \in Snapshot,
           NEW d \in SUBSET Snapshot, Effect(s, v, b, a, d)
    PROVE  /\ values' \in Form /\ base' \in Form /\ applied' \in Snapshot
           /\ deferred' \in SUBSET Snapshot
           /\ \/ values' = v /\ base' = b
              \/ v = b /\ values' = s /\ base' = s
<1>0. s \in Form
  BY SnapshotIsForm
<1>1. CASE s = a
  BY <1>1 DEF Effect
<1>2. CASE s # a /\ v # b
  BY <1>2 DEF Effect
<1>3. CASE s # a /\ v = b /\ s \in d
  BY <1>3 DEF Effect
<1>4. CASE s # a /\ v = b /\ s \notin d
  BY <1>0, <1>4 DEF Effect
<1> QED
  BY <1>1, <1>2, <1>3, <1>4

\* A step that leaves the save alone keeps SaveFits, if held only grows.
LEMMA SaveKept ==
    ASSUME SaveFits, UNCHANGED save, \A f \in Fields : held[f] \subseteq held'[f]
    PROVE  SaveFits'
  BY DEF SaveFits, Known

\* The snapshots stay held and the baseline known, if held only grows.
LEMMA KnownKept ==
    ASSUME SnapshotsHeld, \A f \in Fields : held[f] \subseteq held'[f],
           AllHeld(server)', replica' \in {replica, server},
           fetch'.data \in {fetch.data, server, replica, shown},
           save'.prior \in {save.prior, save.seen, server, shown},
           save'.seen \in {save.seen, shown},
           UNCHANGED <<shown, base>>
    PROVE  SnapshotsHeld'
  BY DEF SnapshotsHeld, AllHeld, Known

-----------------------------------------------------------------------------
(* The user.                                                                *)

\* An edit, and the effect that a change of isDirty may trigger.
LEMMA EditKeeps ==
    ASSUME FormInv, NEW f \in Fields, NEW x \in Inputs, Edit(f, x)
    PROVE  FormInv'
<1> DEFINE v == [values EXCEPT ![f] = x]
<1>1. TypeOK /\ SnapshotsHeld /\ SaveFits /\ EditsFit
  BY DEF FormInv
<1>2. v \in Form /\ base \in Form /\ shown \in Snapshot
  BY <1>1 DEF TypeOK, Form
<1>3. Effect(shown, v, base, applied, deferred)
  BY DEF Edit
<1> HIDE DEF v
<1>4. /\ values' \in Form /\ base' \in Form /\ applied' \in Snapshot
      /\ deferred' \in SUBSET Snapshot
      /\ \/ values' = v /\ base' = base
         \/ values' = shown /\ base' = shown
  BY <1>1, <1>2, <1>3, EffectCases DEF TypeOK
<1>5. /\ UNCHANGED <<server, replica, late, fetch, shown, save, others, failures, held>>
      /\ edits' = edits + 1 /\ touched' = touched \cup {f}
      /\ saved' \in {"no", "disturbed"}
  BY DEF Edit
<1>6. TypeOK'
  BY <1>1, <1>4, <1>5 DEF TypeOK
<1>7. SnapshotsHeld'
  <2>1. \A g \in Fields : Known(g, shown[g])
    BY <1>1, <1>2, HeldIsKnown DEF SnapshotsHeld
  <2> QED
    BY <1>1, <1>4, <1>5, <2>1 DEF SnapshotsHeld, AllHeld, Known
<1>8. SaveFits'
  BY <1>1, <1>5, SaveKept
<1>9. EditsFit'
  <2>1. CASE values' = v /\ base' = base
    BY <1>1, <1>2, <1>5, <2>1 DEF EditsFit, Changed, v, Form, TypeOK
  <2>2. CASE values' = shown /\ base' = shown
    BY <2>2 DEF EditsFit, Changed
  <2> QED
    BY <1>4, <2>1, <2>2
<1> QED
  BY <1>6, <1>7, <1>8, <1>9 DEF FormInv

\* A reset form equals its baseline.
LEMMA ResetKeeps ==
    ASSUME FormInv, handleReset
    PROVE  FormInv'
<1>1. TypeOK /\ SnapshotsHeld /\ SaveFits /\ EditsFit
  BY DEF FormInv
<1>2. Effect(shown, base, base, applied, deferred)
  BY DEF handleReset
<1>3. /\ values' \in Form /\ base' \in Form /\ applied' \in Snapshot
      /\ deferred' \in SUBSET Snapshot
      /\ values' = base' /\ base' \in {base, shown}
  BY <1>1, <1>2, EffectCases DEF TypeOK
<1>4. /\ UNCHANGED <<server, replica, late, fetch, shown, save, edits, others, failures, held>>
      /\ touched' = {} /\ saved' = "no"
  BY DEF handleReset, counters
<1>5. TypeOK'
  BY <1>1, <1>3, <1>4 DEF TypeOK
<1>6. SnapshotsHeld'
  <2>1. \A g \in Fields : Known(g, shown[g])
    BY <1>1, HeldIsKnown DEF SnapshotsHeld, TypeOK
  <2> QED
    BY <1>1, <1>3, <1>4, <2>1 DEF SnapshotsHeld, AllHeld, Known
<1>7. SaveFits'
  BY <1>1, <1>4, SaveKept
<1>8. EditsFit'
  BY <1>3 DEF EditsFit, Changed
<1> QED
  BY <1>5, <1>6, <1>7, <1>8 DEF FormInv

\* A field that is not sent is empty or has the value of the baseline.
LEMMA SubmitKeeps ==
    ASSUME FormInv, NEW bulk \in BOOLEAN, Submit(bulk)
    PROVE  FormInv'
<1> DEFINE todo == {f \in Changed(values, base) : values[f] # Unset}
<1>1. TypeOK /\ SnapshotsHeld /\ SaveFits /\ EditsFit
  BY DEF FormInv
<1>2. /\ save' = [active |-> TRUE, bulk |-> bulk, todo |-> todo,
                  sent |-> {}, landed |-> {}, prior |-> shown, data |-> values, seen |-> shown,
                  from |-> base, fields |-> Changed(values, base), touched |-> touched]
      /\ saved' = "no"
      /\ UNCHANGED <<server, replica, late, fetch, shown, values, base, applied, deferred,
                     edits, others, failures, held, touched>>
  BY DEF Submit, hook, counters
<1>3. Changed(values, base) \in SUBSET Fields /\ todo \in SUBSET Fields
  BY DEF Changed
<1>4. save' \in Save
  BY <1>1, <1>2, <1>3 DEF Save, TypeOK
<1>5. TypeOK'
  BY <1>1, <1>2, <1>4 DEF TypeOK
<1>6. save'.prior = shown /\ save'.seen = shown
  BY <1>2
<1>7. SnapshotsHeld'
  BY <1>1, <1>2, <1>6, KnownKept DEF SnapshotsHeld, AllHeld
<1>8. EditsFit'
  BY <1>1, <1>2 DEF EditsFit, Changed
<1>9. SaveFits'
  <2>1. \A f \in Fields : f \in todo \/ Known(f, values[f])
    BY <1>1 DEF Changed, SnapshotsHeld, Known
  <2>2. todo \subseteq touched /\ \A f \in todo : values[f] # Unset
    BY <1>1 DEF EditsFit
  <2> HIDE DEF todo
  <2> QED
    BY <1>2, <2>1, <2>2 DEF SaveFits, Known
<1> QED
  BY <1>5, <1>7, <1>8, <1>9 DEF FormInv

-----------------------------------------------------------------------------
(* Saving.                                                                  *)

\* Sending chooses among the fields left to do.
LEMMA SendKeeps ==
    ASSUME FormInv, Send
    PROVE  FormInv'
<1>1. TypeOK /\ SnapshotsHeld /\ SaveFits /\ EditsFit /\ save \in Save
  BY DEF FormInv, TypeOK
<1>2. UNCHANGED <<server, replica, late, fetch, shown, values, base, applied, deferred,
                  edits, others, failures, held, touched, saved>>
  BY DEF Send, hook, counters
<1>3. PICK out \in SUBSET save.todo : save' = [save EXCEPT !.sent = out]
  BY DEF Send
<1>4. save.sent = {}
  BY DEF Send
<1>5. /\ save' \in Save /\ save'.sent = out /\ save'.todo = save.todo
      /\ save'.landed = save.landed /\ save'.touched = save.touched
      /\ save'.active = save.active /\ save'.data = save.data
      /\ save'.prior = save.prior /\ save'.seen = save.seen
  BY <1>1, <1>3 DEF Save
<1>6. TypeOK' /\ EditsFit'
  BY <1>1, <1>2, <1>5 DEF TypeOK, EditsFit, Changed
<1>7. SnapshotsHeld'
  BY <1>1, <1>2, <1>5, KnownKept DEF SnapshotsHeld, AllHeld
<1>8. SaveFits'
  BY <1>1, <1>2, <1>4, <1>5 DEF SaveFits, Known
<1> QED
  BY <1>6, <1>7, <1>8 DEF FormInv

\* A write of one option adds to what the server has had.
LEMMA WriteHolds ==
    ASSUME TypeOK, SnapshotsHeld, NEW f \in Fields, NEW x \in Values,
           server' = [server EXCEPT ![f] = x], held' = [held EXCEPT ![f] = held[f] \cup {x}]
    PROVE  /\ server' \in Snapshot /\ held' \in [Fields -> SUBSET Values]
           /\ \A g \in Fields : held[g] \subseteq held'[g]
           /\ x \in held'[f] /\ AllHeld(server)'
<1>1. server' \in Snapshot /\ held' \in [Fields -> SUBSET Values]
  BY DEF TypeOK, Snapshot
<1>2. /\ \A g \in Fields : held[g] \subseteq held'[g]
      /\ x \in held'[f]
  BY DEF TypeOK
<1>3. AllHeld(server)'
  BY <1>2 DEF TypeOK, Snapshot, SnapshotsHeld, AllHeld
<1> QED
  BY <1>1, <1>2, <1>3

\* What lands on the server is held from then on.
LEMMA StoreKeeps ==
    ASSUME FormInv, NEW f \in Fields, Store(f)
    PROVE  FormInv'
<1> DEFINE x == Stored(save.data[f])
<1>1. /\ TypeOK /\ SnapshotsHeld /\ SaveFits /\ EditsFit /\ save \in Save
      /\ server \in Snapshot
  BY DEF FormInv, TypeOK
<1>2. /\ f \in save.sent \ save.landed
      /\ server' = [server EXCEPT ![f] = x]
      /\ held' = [held EXCEPT ![f] = held[f] \cup {x}]
      /\ UNCHANGED <<replica, late, fetch, shown, values, base, applied, deferred,
                     edits, others, failures, touched, saved>>
  BY DEF Store, hook, counters
<1>3. PICK p \in {server, save.prior} :
          save' = [save EXCEPT !.landed = save.landed \cup {f}, !.prior = p]
  BY DEF Store
<1>4. p \in Snapshot /\ save.data \in Form
  BY <1>1 DEF Save
<1>5. /\ save' \in Save /\ save'.sent = save.sent /\ save'.todo = save.todo
      /\ save'.landed = save.landed \cup {f} /\ save'.touched = save.touched
      /\ save'.active = save.active /\ save'.data = save.data
      /\ save'.prior = p /\ save'.seen = save.seen
  BY <1>1, <1>3, <1>4 DEF Save
<1>6. save.data[f] # Unset /\ save.data[f] \in Inputs
  BY <1>1, <1>2, <1>4 DEF SaveFits, Form
<1>7. x \in Values
  BY <1>6, StoredValue
<1> HIDE DEF x
<1>8. /\ server' \in Snapshot /\ held' \in [Fields -> SUBSET Values]
      /\ \A g \in Fields : held[g] \subseteq held'[g]
      /\ x \in held'[f] /\ AllHeld(server)'
  BY <1>1, <1>2, <1>7, WriteHolds
<1>9. TypeOK'
  BY <1>1, <1>2, <1>5, <1>8 DEF TypeOK
<1>10. SnapshotsHeld'
  BY <1>1, <1>2, <1>5, <1>8, KnownKept
<1>11. EditsFit'
  BY <1>1, <1>2 DEF EditsFit, Changed
<1>12. SaveFits'
  <2>1. Stored(save.data[f]) \in held'[f]
    BY <1>8 DEF x
  <2>2. ASSUME save.active, NEW g \in Fields
        PROVE  \/ g \in save.todo \ (save.landed \cup {f})
               \/ save.data[g] = Unset \/ Stored(save.data[g]) \in held'[g]
    BY <1>1, <1>8, <2>1, <2>2 DEF SaveFits, Known
  <2> QED
    BY <1>1, <1>2, <1>5, <2>2 DEF SaveFits, Known
<1> QED
  BY <1>9, <1>10, <1>11, <1>12 DEF FormInv

\* What is confirmed has landed.
LEMMA ConfirmKeeps ==
    ASSUME FormInv, Confirm
    PROVE  FormInv'
<1>1. TypeOK /\ SnapshotsHeld /\ SaveFits /\ EditsFit /\ save \in Save /\ fetch \in Fetch
  BY DEF FormInv, TypeOK, Fetch
<1>2. /\ save.sent = save.landed
      /\ save' = [save EXCEPT !.todo = save.todo \ save.sent, !.sent = {}, !.landed = {},
                              !.prior = save.seen]
      /\ fetch' \in {fetch, [fetch EXCEPT !.phase = "asked"]}
      /\ UNCHANGED <<server, replica, late, shown, values, base, applied, deferred,
                     edits, others, failures, held, touched, saved>>
  BY DEF Confirm, hook, counters
<1>3. /\ save' \in Save /\ save'.sent = {} /\ save'.todo = save.todo \ save.sent
      /\ save'.landed = {} /\ save'.touched = save.touched
      /\ save'.active = save.active /\ save'.data = save.data
      /\ save'.prior = save.seen /\ save'.seen = save.seen
  BY <1>1, <1>2 DEF Save
<1>4. fetch' \in Fetch /\ fetch'.data = fetch.data
  BY <1>1, <1>2 DEF Fetch
<1>5. TypeOK' /\ EditsFit'
  BY <1>1, <1>2, <1>3, <1>4 DEF TypeOK, Fetch, EditsFit, Changed
<1>6. SnapshotsHeld'
  BY <1>1, <1>2, <1>3, <1>4, KnownKept DEF SnapshotsHeld, AllHeld
<1>7. SaveFits'
  BY <1>1, <1>2, <1>3 DEF SaveFits, Known
<1> QED
  BY <1>5, <1>6, <1>7 DEF FormInv

\* The baseline moves to the submitted values when all that were sent are held.
LEMMA FinishKeeps ==
    ASSUME FormInv, Finish
    PROVE  FormInv'
<1>1. TypeOK /\ SnapshotsHeld /\ SaveFits /\ EditsFit /\ save \in Save
  BY DEF FormInv, TypeOK
<1>2. /\ save.active /\ save.todo = {} /\ save' = [save EXCEPT !.active = FALSE]
      /\ touched' = {} /\ saved' \in {"yes", "disturbed"}
      /\ UNCHANGED <<server, replica, late, fetch, shown, edits, others, failures, held>>
  BY DEF Finish, counters
<1>3. /\ save.data \in Form /\ save.seen \in Snapshot /\ {} \in SUBSET Snapshot
      /\ shown \in Snapshot
  BY <1>1 DEF Save, TypeOK
<1>4. /\ values' \in Form /\ base' \in Form /\ applied' \in Snapshot
      /\ deferred' \in SUBSET Snapshot
      /\ values' = base' /\ base' \in {save.data, shown}
  <2>1. CASE Effect(shown, save.data, save.data, save.seen, {})
    BY <1>3, <2>1, EffectCases
  <2>2. CASE values' = save.data /\ base' = save.data /\ applied' = save.seen /\ deferred' = {}
    BY <1>3, <2>2
  <2> QED
    BY <2>1, <2>2 DEF Finish
<1>5. \A f \in Fields : Known(f, save.data[f]) /\ Known(f, shown[f])
  BY <1>1, <1>2, <1>3, HeldIsKnown DEF SaveFits, SnapshotsHeld
<1>6. /\ save' \in Save /\ save'.todo = {} /\ save'.sent = save.sent
      /\ save'.landed = save.landed /\ ~save'.active
      /\ save'.prior = save.prior /\ save'.seen = save.seen
  BY <1>1, <1>2 DEF Save
<1>7. TypeOK'
  BY <1>1, <1>2, <1>4, <1>6 DEF TypeOK
<1>8. SnapshotsHeld'
  BY <1>1, <1>2, <1>4, <1>5, <1>6 DEF SnapshotsHeld, AllHeld, Known
<1>9. SaveFits'
  BY <1>1, <1>2, <1>6 DEF SaveFits
<1>10. EditsFit'
  BY <1>4 DEF EditsFit, Changed
<1> QED
  BY <1>7, <1>8, <1>9, <1>10 DEF FormInv

\* A failed save leaves form and baseline as they are; the server returns to
\* options it has had, or stores the rest later.
LEMMA FailKeeps ==
    ASSUME FormInv, Fail
    PROVE  FormInv'
<1>1. TypeOK /\ SnapshotsHeld /\ SaveFits /\ EditsFit /\ save \in Save
  BY DEF FormInv, TypeOK
<1>2. /\ save' = [save EXCEPT !.active = FALSE, !.todo = {}, !.sent = {}, !.landed = {},
                              !.prior = save.seen]
      /\ failures' = failures + 1 /\ saved' = "no"
      /\ UNCHANGED <<replica, fetch, shown, values, base, applied, deferred,
                     edits, others, held, touched>>
      /\ server' \in {server, RolledBack} /\ late' \in {late, late \cup Left}
  BY DEF Fail, hook
<1>3. /\ save' \in Save /\ save'.todo = {} /\ save'.sent = {} /\ save'.landed = {}
      /\ ~save'.active /\ save'.prior = save.seen /\ save'.seen = save.seen
  BY <1>1, <1>2 DEF Save
<1>4. RolledBack \in Snapshot /\ AllHeld(RolledBack)
  <2>1. server \in Snapshot /\ save.prior \in Snapshot
    BY <1>1 DEF TypeOK, Save
  <2> QED
    BY <1>1, <2>1 DEF RolledBack, Snapshot, SnapshotsHeld, AllHeld
<1>5. Left \subseteq [field : Fields, value : Values]
  <2>1. ASSUME NEW f \in save.sent PROVE f \in Fields /\ Stored(save.data[f]) \in Values
    <3>1. f \in Fields /\ save.data \in Form /\ save.data[f] # Unset
      BY <1>1, <2>1 DEF Save, SaveFits
    <3> QED
      BY <3>1, StoredValue DEF Form
  <2> QED
    BY <2>1 DEF Left
<1>6. server' \in Snapshot /\ AllHeld(server)'
  BY <1>1, <1>2, <1>4 DEF TypeOK, SnapshotsHeld, AllHeld
<1>7. late' \subseteq [field : Fields, value : Values]
  BY <1>1, <1>2, <1>5 DEF TypeOK
<1>8. TypeOK' /\ EditsFit'
  BY <1>1, <1>2, <1>3, <1>6, <1>7 DEF TypeOK, EditsFit, Changed
<1>9. SnapshotsHeld'
  BY <1>1, <1>2, <1>3, <1>6, KnownKept
<1>10. SaveFits'
  BY <1>3 DEF SaveFits
<1> QED
  BY <1>8, <1>9, <1>10 DEF FormInv

-----------------------------------------------------------------------------
(* The option query, the replicas and other administrators.                 *)

\* Steps of the query and of the replica that show nothing yet.
LEMMA QueryKeeps ==
    ASSUME FormInv, Refetch \/ Read \/ FetchFails \/ Sync
    PROVE  FormInv'
<1>1. TypeOK /\ SnapshotsHeld /\ SaveFits /\ EditsFit
  BY DEF FormInv
<1>2. UNCHANGED <<server, late, shown, values, base, applied, deferred, save,
                  edits, others, failures, held, touched, saved>>
  BY DEF Refetch, Read, FetchFails, Sync, hook, counters
<1>3. /\ fetch' \in Fetch /\ fetch'.data \in {fetch.data, server, replica, shown}
      /\ replica' \in {replica, server}
  BY <1>1 DEF Refetch, Read, FetchFails, Sync, TypeOK, Fetch
<1>4. TypeOK' /\ EditsFit'
  BY <1>1, <1>2, <1>3 DEF TypeOK, Fetch, EditsFit, Changed
<1>5. SnapshotsHeld'
  BY <1>1, <1>2, <1>3, KnownKept DEF SnapshotsHeld, AllHeld
<1>6. SaveFits'
  BY <1>1, <1>2, SaveKept
<1> QED
  BY <1>4, <1>5, <1>6 DEF FormInv

\* A snapshot replaces the values of a clean form only.
LEMMA ArriveKeeps ==
    ASSUME FormInv, Arrive
    PROVE  FormInv'
<1>1. TypeOK /\ SnapshotsHeld /\ SaveFits /\ EditsFit
  BY DEF FormInv
<1>2. /\ fetch' = [fetch EXCEPT !.phase = "idle"] /\ shown' = fetch.data
      /\ Effect(fetch.data, values, base, applied, deferred)
      /\ touched' = IF isDirty THEN touched ELSE {}
      /\ UNCHANGED <<server, replica, late, save, edits, others, failures, held, saved>>
  BY DEF Arrive, counters
<1>3. /\ fetch.data \in Snapshot /\ fetch'.data = fetch.data
      /\ fetch' \in Fetch
  BY <1>1, <1>2 DEF TypeOK, Fetch
<1>4. /\ values' \in Form /\ base' \in Form /\ applied' \in Snapshot
      /\ deferred' \in SUBSET Snapshot
      /\ \/ values' = values /\ base' = base
         \/ values' = fetch.data /\ base' = fetch.data
  BY <1>1, <1>2, <1>3, EffectCases DEF TypeOK
<1>5. TypeOK'
  BY <1>1, <1>2, <1>3, <1>4 DEF TypeOK, Fetch
<1>6. SnapshotsHeld'
  <2>1. \A f \in Fields : Known(f, fetch.data[f])
    BY <1>1, <1>3, HeldIsKnown DEF SnapshotsHeld
  <2> QED
    BY <1>1, <1>2, <1>3, <1>4, <2>1 DEF SnapshotsHeld, AllHeld, Known
<1>7. SaveFits'
  BY <1>1, <1>2, SaveKept
<1>8. EditsFit'
  <2>1. CASE values' = fetch.data /\ base' = fetch.data
    BY <2>1 DEF EditsFit, Changed
  <2>2. CASE values' = values /\ base' = base /\ isDirty
    BY <1>1, <1>2, <2>2 DEF EditsFit, Changed
  <2>3. CASE values' = values /\ base' = base /\ ~isDirty
    BY <2>3 DEF EditsFit, Changed, isDirty
  <2> QED
    BY <1>4, <2>1, <2>2, <2>3
<1> QED
  BY <1>5, <1>6, <1>7, <1>8 DEF FormInv

\* Another administrator, or a save that was given up, adds to what the server
\* has had.
LEMMA WriteKeeps ==
    ASSUME FormInv, NEW f \in Fields, NEW x \in Values, Write(f, x),
           others' \in Nat, late' \subseteq late
    PROVE  FormInv'
<1>1. TypeOK /\ SnapshotsHeld /\ SaveFits /\ EditsFit
  BY DEF FormInv
<1>2. /\ server' = [server EXCEPT ![f] = x]
      /\ held' = [held EXCEPT ![f] = held[f] \cup {x}]
      /\ saved' \in {"no", "disturbed"}
      /\ UNCHANGED <<replica, fetch, shown, values, base, applied, deferred, save,
                     edits, failures, touched>>
  BY DEF Write, hook
<1>3. /\ server' \in Snapshot /\ held' \in [Fields -> SUBSET Values]
      /\ \A g \in Fields : held[g] \subseteq held'[g]
      /\ AllHeld(server)'
  BY <1>1, <1>2, WriteHolds
<1>4. TypeOK'
  BY <1>1, <1>2, <1>3 DEF TypeOK
<1>5. SnapshotsHeld'
  BY <1>1, <1>2, <1>3, KnownKept
<1>6. SaveFits' /\ EditsFit'
  BY <1>1, <1>2, <1>3, SaveKept DEF EditsFit, Changed
<1> QED
  BY <1>4, <1>5, <1>6 DEF FormInv

LEMMA OtherKeeps ==
    ASSUME FormInv, NEW f \in Fields, NEW x \in Values, Other(f, x)
    PROVE  FormInv'
<1>1. others' \in Nat /\ late' \subseteq late
  BY DEF Other, FormInv, TypeOK
<1> QED
  BY <1>1, WriteKeeps DEF Other

LEMMA LateKeeps ==
    ASSUME FormInv, NEW w \in late, StoreLate(w)
    PROVE  FormInv'
<1>1. w.field \in Fields /\ w.value \in Values
  BY DEF FormInv, TypeOK
<1>2. others' \in Nat /\ late' \subseteq late
  BY DEF StoreLate, FormInv, TypeOK
<1> QED
  BY <1>1, <1>2, WriteKeeps DEF StoreLate

-----------------------------------------------------------------------------
\* The section mounts with the server's snapshot.
LEMMA FormInit == Init => FormInv
<1> SUFFICES ASSUME Init PROVE FormInv
  OBVIOUS
<1>1. /\ server \in Snapshot /\ server \in Form
      /\ \A f \in Fields : server[f] \in Values
  BY SnapshotIsForm DEF Init, Snapshot
<1>2. save \in Save /\ held \in [Fields -> SUBSET Values]
  BY <1>1 DEF Init, Save
<1>3. TypeOK
  BY <1>1, <1>2 DEF Init, TypeOK
<1>4. AllHeld(server) /\ \A f \in Fields : Known(f, server[f])
  <2>1. AllHeld(server)
    BY DEF Init, AllHeld
  <2> QED
    BY <1>1, <2>1, HeldIsKnown
<1>5. SnapshotsHeld
  BY <1>4 DEF Init, SnapshotsHeld
<1>6. SaveFits /\ EditsFit
  BY DEF Init, SaveFits, EditsFit, Changed
<1> QED
  BY <1>3, <1>5, <1>6 DEF FormInv

\* Every step of the hook, of the query, of the mutations and of other
\* administrators keeps FormInv.
LEMMA FormNext == FormInv /\ [Next]_vars => FormInv'
<1> SUFFICES ASSUME FormInv, [Next]_vars PROVE FormInv'
  OBVIOUS
<1>1. CASE UNCHANGED vars
  BY <1>1 DEF vars, FormInv, TypeOK, SnapshotsHeld, AllHeld, Known, SaveFits, EditsFit, Changed
<1>2. CASE Next
  BY <1>2, EditKeeps, OtherKeeps, LateKeeps, ResetKeeps, SubmitKeeps, SendKeeps, StoreKeeps,
     ConfirmKeeps, FinishKeeps, FailKeeps, QueryKeeps, ArriveKeeps
  DEF Next
<1> QED
  BY <1>1, <1>2

\* The form, its baseline, the snapshots it remembers and the save under way
\* fit together (use-settings-form.ts), whichever replica answers the query and
\* whatever becomes of a save that was given up.
THEOREM FormInvariant == Spec => []FormInv
  BY FormInit, FormNext, PTL DEF Spec

\* A form without unsaved changes shows, but for emptied fields, values that the
\* server has had or has normalized: a save that failed half way, a snapshot that
\* arrived during it or a deferred one never makes the form look saved when it is
\* not.
THEOREM CleanFormIsSaved == Spec => []CleanMeansSaved
<1>1. FormInv => CleanMeansSaved
  BY DEF FormInv, SnapshotsHeld, CleanMeansSaved, isDirty
<1> QED
  BY <1>1, FormInvariant, PTL

\* A save writes edited options only, however late the form learns of what
\* other administrators wrote (collectDirtyValues against baselineRef).
THEOREM OnlyEditsAreSaved == Spec => SavesOnlyEdits
<1> DEFINE P == \A f \in Fields :
                   server'[f] # server[f] /\ others' = others =>
                       f \in save.touched \/ \E w \in late : w.field = f /\ w \notin late'
<1>1. ASSUME FormInv, [Next]_vars PROVE P
  <2>0. TypeOK /\ SaveFits /\ server \in Snapshot /\ others \in Nat
    BY <1>1 DEF FormInv, TypeOK
  <2>1. CASE UNCHANGED server
    BY <2>1
  <2>2. ASSUME NEW g \in Fields, Store(g) PROVE P
    <3>1. \A f \in Fields : f \notin save.sent => server'[f] = server[f]
      BY <2>0, <2>2 DEF Store, Snapshot
    <3> QED
      BY <2>0, <3>1 DEF SaveFits
  <2>3. CASE others' = others + 1
    BY <2>0, <2>3
  <2>4. CASE Fail
    <3>1. \A f \in Fields : f \notin save.landed => server'[f] = server[f]
      BY <2>4 DEF Fail, RolledBack
    <3> QED
      BY <2>0, <3>1 DEF SaveFits
  <2>5. ASSUME NEW w \in late, StoreLate(w) PROVE P
    <3>1. \A f \in Fields : f # w.field => server'[f] = server[f]
      BY <2>0, <2>5 DEF StoreLate, Write, Snapshot
    <3>2. w \notin late'
      BY <2>5 DEF StoreLate
    <3> QED
      BY <3>1, <3>2
  <2>6. \/ UNCHANGED server \/ (\E g \in Fields : Store(g)) \/ others' = others + 1
        \/ Fail \/ \E w \in late : StoreLate(w)
    BY <1>1 DEF Next, Edit, handleReset, Submit, Send, Confirm, Finish, Refetch, Read,
                Arrive, FetchFails, Sync, Other, vars
  <2> QED
    BY <2>1, <2>2, <2>3, <2>4, <2>5, <2>6
<1>2. FormInv /\ [Next]_vars =>
        \A f \in Fields :
            server'[f] # server[f] /\ others' = others =>
                f \in save.touched \/ \E w \in late : w.field = f /\ w \notin late'
  BY <1>1
<1> QED
  BY <1>2, FormInvariant, PTL DEF Spec, SavesOnlyEdits

=============================================================================
