---------------------------- MODULE ManifestStore ---------------------------
(***************************************************************************)
(* What the crate promises of a document, with no archive in sight: a list *)
(* of members no call ever changes, and at most one Manifest Store, which  *)
(* a caller puts (embed), replaces by another of the same length (fill) or *)
(* clears (remove).  A call that is refused changes nothing.               *)
(***************************************************************************)
EXTENDS Sequences

CONSTANTS Stores,    \* the Manifest Stores callers embed
          Files,     \* what can be known of a member
          Refusals   \* the errors a call may return

VARIABLES members,   \* the document's members, in order
          manifest,  \* its Manifest Store
          call       \* the last call and its answer

vars == <<members, manifest, call>>

Absent == [state |-> "absent", cells |-> <<>>]

\* An entry at the manifest path the crate refuses to read.
Unusable == [state |-> "unusable", cells |-> <<>>]

Present(s) == [state |-> "present", cells |-> s]

Answer(op, s, verdict) == call' = [op |-> op, store |-> s, verdict |-> verdict]

Init ==
  /\ members \in Seq(Files)
  /\ manifest \in {Absent, Unusable, Present(manifest.cells)}
  /\ call = [op |-> "none", store |-> <<>>, verdict |-> "none"]

Put(s) == Answer("embed", s, "ok") /\ manifest' = Present(s)

\* Only a store that can be read is replaced, and by one that fits its place.
Replace(s) ==
  /\ manifest.state = "present"
  /\ Len(s) = Len(manifest.cells)
  /\ Answer("fill", s, "ok")
  /\ manifest' = Present(s)

Clear == Answer("remove", <<>>, "ok") /\ manifest' = Absent

Refuse ==
  /\ \E s \in Stores \cup {<<>>}, error \in Refusals :
       Answer("embed", s, error) \/ Answer("fill", s, error) \/ Answer("remove", s, error)
  /\ UNCHANGED manifest

Next ==
  /\ UNCHANGED members
  /\ Clear \/ Refuse \/ \E s \in Stores : Put(s) \/ Replace(s)

Spec == Init /\ [][Next]_vars
=============================================================================
