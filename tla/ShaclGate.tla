------------------------------ MODULE ShaclGate ------------------------------
(***************************************************************************)
(* Validation on ingest: the SHACL endpoints, and the write handlers of    *)
(* oxigraph-server/main.rs in a build with the shacl feature.              *)
(*                                                                         *)
(* A write through /update or /store is committed first and validated      *)
(* afterwards, with the whole store, under the mutex of the validator.     *)
(* The commit of an HTTP transaction and the undo of a changelog entry are *)
(* not validated at all.  The changelog is in the same store: after the    *)
(* verdict its entry is written and old ones are removed, which nobody     *)
(* validates either; Changelog has the detail.                             *)
(***************************************************************************)

CONSTANTS
  Quads,
  EntryQuads,       \* those of the changelog's graph; none when there is no changelog
  Requests,         \* the server threads
  Shapes,           \* the shapes graphs that can be uploaded
  Conforms(_, _),   \* whether a set of quads conforms to a shapes graph
  startMode         \* --shacl-mode

NoShapes == "no shapes"
None == "none"
Modes == {"off", "warn", "enforce"}

ASSUME ConstantsAssumption ==
  /\ EntryQuads \subseteq Quads
  /\ NoShapes \notin Shapes
  /\ None \notin Requests
  /\ startMode \in Modes
  /\ \A s \in Shapes, quads \in SUBSET Quads : Conforms(s, quads) \in BOOLEAN

VARIABLES
  store,       \* the committed quads
  mode,        \* the mode of the validator
  shapes,      \* its compiled shapes
  validator,   \* the request that holds the validator's mutex
  pc,          \* where each request is
  snapshot,    \* what the validation of each request has read
  clean,       \* history: see Clean
  judged       \* history: the quads that were validated last

vars == <<store, mode, shapes, validator, pc, snapshot, clean, judged>>
history == <<clean, judged>>
gate == <<mode, shapes, validator>>

Locations == {"idle", "written", "validating", "record"}

Init ==
  /\ store = {}
  /\ mode = startMode
  /\ shapes = NoShapes
  /\ validator = None
  /\ pc = [r \in Requests |-> "idle"]
  /\ snapshot = [r \in Requests |-> {}]
  /\ clean = FALSE
  /\ judged = {}

Goto(r, location) == pc' = [pc EXCEPT ![r] = location]
Return(r) == Goto(r, "idle") /\ snapshot' = [snapshot EXCEPT ![r] = {}]

-----------------------------------------------------------------------------
(* POST /update and POST /store *)

\* Mutant: what is validated is the store before the write.
ValidateFirst(r, delete, insert) ==
  /\ pc[r] = "idle"
  /\ validator = None
  /\ store' = (store \ delete) \cup insert
  /\ IF shapes = NoShapes \/ mode = "off"
     THEN Goto(r, "record") /\ UNCHANGED <<validator, snapshot>>
     ELSE /\ validator' = r
          /\ Goto(r, "validating")
          /\ snapshot' = [snapshot EXCEPT ![r] = store]
  /\ UNCHANGED <<mode, shapes, history>>

\* The update or the upload is committed.
Write(r, delete, insert) ==
  /\ pc[r] = "idle"
  /\ store' = (store \ delete) \cup insert
  /\ Goto(r, "written")
  /\ UNCHANGED <<gate, snapshot, history>>

\* validate_after_write takes the mutex and returns when there is nothing to
\* check; otherwise validate reads the store.
LockValidator(r) ==
  /\ pc[r] = "written"
  /\ validator = None
  /\ IF shapes = NoShapes \/ mode = "off"
     THEN Goto(r, "record") /\ UNCHANGED <<validator, snapshot>>
     ELSE /\ validator' = r
          /\ Goto(r, "validating")
          /\ snapshot' = [snapshot EXCEPT ![r] = store]
  /\ UNCHANGED <<store, mode, shapes, history>>

Rejects(r) == ~Conforms(shapes, snapshot[r]) /\ mode = "enforce"

Accept(r) ==
  /\ pc[r] = "validating"
  /\ ~Rejects(r)
  /\ validator' = None
  /\ Goto(r, "record")
  /\ judged' = snapshot[r]
  /\ UNCHANGED <<store, mode, shapes, snapshot, clean>>

\* The handler answers 422, or 500 when the engine fails, and returns: the
\* commit stands, and it is not recorded.
Leave(r) ==
  /\ pc[r] = "validating"
  /\ validator' = None
  /\ Return(r)
  /\ clean' = FALSE
  /\ UNCHANGED <<store, mode, shapes, judged>>

Reject(r) == Rejects(r) /\ Leave(r)
ValidationError(r) == Leave(r)

\* A transaction on the changelog: the entry is written, or old ones are removed.
Record(r, gone, entry) ==
  /\ pc[r] = "record"
  /\ store' = (store \ gone) \cup entry
  /\ UNCHANGED <<gate, pc, snapshot, history>>

\* The client is answered.
Answer(r) ==
  /\ pc[r] = "record"
  /\ Return(r)
  /\ UNCHANGED <<store, gate, history>>

\* DELETE /changelog, with the entries that are there when it begins.
Purge(r, gone) ==
  /\ pc[r] = "idle"
  /\ store' = store \ gone
  /\ UNCHANGED <<gate, pc, snapshot, history>>

\* PUT /transactions/{id}/commit and POST /changelog/{id}/undo are handled by
\* handle_request_core: committed and recorded, never validated.
UnvalidatedWrite(r, delete, insert) ==
  /\ pc[r] = "idle"
  /\ store' = (store \ delete) \cup insert
  /\ Goto(r, "record")
  /\ clean' = FALSE
  /\ UNCHANGED <<gate, snapshot, judged>>

-----------------------------------------------------------------------------
(* The SHACL endpoints; each holds the validator's mutex *)

\* History: enforcement is on, and began on a store that conformed.
Clean(m, s) == m = "enforce" /\ s # NoShapes /\ Conforms(s, store)

UploadShapes(s) ==
  /\ validator = None
  /\ shapes' = s
  /\ clean' = Clean(mode, s)
  /\ judged' = store
  /\ UNCHANGED <<store, mode, validator, pc, snapshot>>

DeleteShapes ==
  /\ validator = None
  /\ shapes' = NoShapes
  /\ clean' = FALSE
  /\ UNCHANGED <<store, mode, validator, pc, snapshot, judged>>

SetMode(m) ==
  /\ validator = None
  /\ mode' = m
  /\ clean' = Clean(m, shapes)
  /\ judged' = store
  /\ UNCHANGED <<store, shapes, validator, pc, snapshot>>

\* The shapes are only in memory: a restart on the same store has none.
Restart ==
  /\ mode' = startMode
  /\ shapes' = NoShapes
  /\ validator' = None
  /\ pc' = [r \in Requests |-> "idle"]
  /\ snapshot' = [r \in Requests |-> {}]
  /\ clean' = FALSE
  /\ UNCHANGED <<store, judged>>

Handle(r) ==
  \/ \E delete, insert \in SUBSET Quads :
       Write(r, delete, insert) \/ UnvalidatedWrite(r, delete, insert)
  \/ LockValidator(r)
  \/ Accept(r)
  \/ Reject(r)
  \/ ValidationError(r)
  \/ \E gone, entry \in SUBSET EntryQuads : Record(r, gone, entry)
  \/ \E gone \in SUBSET EntryQuads : Purge(r, gone)
  \/ Answer(r)

Next ==
  \/ \E r \in Requests : Handle(r)
  \/ \E s \in Shapes : UploadShapes(s)
  \/ \E m \in Modes : SetMode(m)
  \/ DeleteShapes
  \/ Restart

Spec == Init /\ [][Next]_vars

-----------------------------------------------------------------------------
(* Properties *)

\* Types; the mutex of the validator is held by the request that validates.
TypeOK ==
  /\ store \subseteq Quads
  /\ mode \in Modes
  /\ shapes \in Shapes \cup {NoShapes}
  /\ validator \in Requests \cup {None}
  /\ pc \in [Requests -> Locations]
  /\ snapshot \in [Requests -> SUBSET Quads]
  /\ clean \in BOOLEAN
  /\ judged \subseteq Quads
  /\ \A r \in Requests : pc[r] = "validating" <=> validator = r

\* Two sets of quads that differ at most in the entries of the changelog.
SameData(s, t) == s \ EntryQuads = t \ EntryQuads

\* Validating after the commit is sound as long as nobody is refused: if enforcement
\* began on a conforming store, and every write since went through /update or /store
\* and was answered with success, then, whenever no such write waits for its
\* validation and however they interleaved, what was validated last conforms, and the
\* store is that, but for entries of the changelog that were written or removed since:
\* without a changelog the store conforms.
AcceptedWritesConform ==
  clean /\ (\A r \in Requests : pc[r] \in {"idle", "record"})
    => Conforms(shapes, judged) /\ SameData(judged, store)
=============================================================================
