--------------------------- MODULE TwoPassSigning --------------------------
(***************************************************************************)
(* Two-pass signing with the calls of the crate (writer.rs, fill_manifest).*)
(*                                                                         *)
(* A signer reserves a placeholder with embed_manifest, hashes what        *)
(* collection_members and central_directory_ranges name, signs, pads the   *)
(* store to the placeholder and puts it in place with fill_manifest.  When *)
(* it does not fit it starts again with a larger placeholder.  Meanwhile,  *)
(* and afterwards, another program may save the document with changes.  A  *)
(* validator compares what it hashes with what was signed.                 *)
(*                                                                         *)
(* A digest is modelled by what it is taken of: different inputs have      *)
(* different digests.                                                      *)
(***************************************************************************)
EXTENDS C2paZip

CONSTANTS
  Zero,        \* a zero byte: placeholders and padding consist of it
  Sizes,       \* the lengths of placeholders a signer may choose
  Stores,      \* the Manifest Stores signing may yield
  Edits(_),    \* the archives another program may turn an archive into
  MaxEdits     \* bound on the number of such changes

VARIABLES
  phase,       \* what the signer has done last
  room,        \* the length of its placeholder, or the least for the next one
  store,       \* the store it has signed
  assertion,   \* what that says the hashes are of
  seen,        \* history: the members a reader saw when they were hashed
  edited,      \* history: the phases with a change since the last Reserve
  edits        \* the number of changes so far

held == <<doc, call>>
signingVars == <<held, phase, room, store, assertion, seen, edited, edits>>

Phases == {"draft", "reserved", "hashed", "signed", "filled", "refused"}

Zeros(n) == [i \in 1 .. n |-> Zero]

Padded(s, n) == s \o Zeros(IF Len(s) < n THEN n - Len(s) ELSE 0)

ASSUME BoundAssumption == MaxEdits \in Nat

\* Some placeholder is large enough.
ASSUME SizeAssumption ==
  /\ Sizes \subseteq Nat /\ Stores \subseteq Archives
  /\ \E n \in Sizes : \A s \in Stores : Len(s) <= n

\* The signer is a caller of the crate.
ASSUME SignerAssumption ==
  \A n \in Sizes : /\ Zeros(n) \in Payloads
                   /\ \A s \in Stores : Padded(s, n) \in Payloads

SigningInit ==
  /\ Init
  /\ phase = "draft" /\ room = 0 /\ store = <<>>
  /\ assertion = [members |-> <<>>, directory |-> <<>>] /\ seen = <<>>
  /\ edited = {} /\ edits = 0

-----------------------------------------------------------------------------
(* The signer                                                              *)

\* First pass: embed_manifest with a zero-filled placeholder.
Reserve(n) ==
  /\ phase = "draft" /\ n >= room
  /\ EmbedManifest(Zeros(n))
  /\ phase' = IF call'.verdict = "ok" THEN "reserved" ELSE "refused"
  /\ room' = n
  /\ edited' = {}
  /\ UNCHANGED <<store, assertion, seen, edits>>

Hash ==
  /\ phase = "reserved"
  /\ IF CollectionVerdict(doc) = "ok" /\ RangesVerdict(doc) = "ok"
     THEN /\ phase' = "hashed"
          /\ assertion' = [members   |-> CollectionInput(doc),
                           directory |-> DirectoryInput(doc)]
          /\ seen' = MemberFiles(doc)
     ELSE phase' = "refused" /\ UNCHANGED <<assertion, seen>>
  /\ UNCHANGED <<held, room, store, edited, edits>>

Sign(s) ==
  /\ phase = "hashed"
  /\ phase' = "signed"
  /\ store' = s
  /\ UNCHANGED <<held, room, assertion, seen, edited, edits>>

\* Second pass.  One error says that the store is too long and that the
\* placeholder is gone: in either case the signer starts again, with room
\* for the store it has now.
Fill ==
  /\ phase = "signed"
  /\ FillManifest(Padded(store, room))
  /\ phase' = CASE call'.verdict = "ok"        -> "filled"
                [] call'.verdict = "Truncated" -> "draft"
                [] OTHER                       -> "refused"
  /\ room' = Max({room, Len(store)})
  /\ UNCHANGED <<store, assertion, seen, edited, edits>>

\* A signed document may be signed again.
Restart ==
  /\ phase = "filled"
  /\ phase' = "draft"
  /\ room' = 0
  /\ UNCHANGED <<held, store, assertion, seen, edited, edits>>

Signing == (\E n \in Sizes : Reserve(n)) \/ Hash \/ (\E s \in Stores : Sign(s)) \/ Fill

-----------------------------------------------------------------------------
(* The other program                                                       *)

Edit ==
  /\ edits < MaxEdits /\ edits' = edits + 1
  /\ doc' \in Edits(doc)
  /\ edited' = edited \cup {phase}
  /\ UNCHANGED <<call, phase, room, store, assertion, seen>>

SigningNext == Signing \/ Restart \/ Edit

\* The signer is one program that runs to its end: it does not stay in a phase
\* it can leave.  From these phases only a step of Signing changes the phase,
\* every such step does, and one is always possible.
SignerMoves ==
  /\ phase \in {"draft", "reserved", "hashed", "signed"}
  /\ phase' \in Phases \ {phase}

SigningSpec ==
  SigningInit /\ [][SigningNext]_signingVars /\ WF_phase(SignerMoves)

-----------------------------------------------------------------------------
(* The validator                                                           *)

Valid(b) ==
  /\ ReadVerdict(b, ManifestPath) = "ok"
  /\ IsPrefix(store, ReadContent(b, ManifestPath))
  /\ CollectionVerdict(b) = "ok"
  /\ CollectionInput(b) = assertion.members
  /\ DirectoryInput(b) = assertion.directory

-----------------------------------------------------------------------------
(* Properties                                                              *)

SigningTypeOK ==
  /\ doc \in Archives /\ call.verdict \in Verdicts
  /\ phase \in Phases /\ room \in Nat /\ store \in Stores \cup {<<>>}
  /\ assertion.directory \in Archives
  /\ edited \subseteq Phases /\ edits \in 0 .. MaxEdits

\* Whatever manifest the document came with and however often the signer had to
\* start again, every entry of a signed document can be bound, so that its
\* manifest can be replaced again: fill_manifest does not meet a manifest whose
\* descriptor it would leave stale, for embed_manifest has replaced that one.
SignedStaysBindable ==
  phase = "filled" /\ edited = {} => Bindable(doc)

\* The document the signer leaves validates, also when it was changed before
\* the hashes were taken, unless that left a manifest with a data descriptor:
\* then the fill makes the document one whose members the crate refuses to
\* list (fill_manifest, entry_binding_range).
LateHashValidates ==
  phase = "filled" /\ edited \subseteq {"reserved"} =>
    Valid(doc) \/ Streamed(doc, FirstNamed(doc, ManifestPath))

\* A document that validates has the members a reader saw when it was signed:
\* no change to a name, a content or how to decode it goes unnoticed, nor does
\* a member added, dropped or moved (collection_members and
\* central_directory_ranges together, "so that an entry added after signing
\* cannot leave the manifest valid").
ChangesNoticed ==
  phase = "filled" /\ Parses(doc) /\ Valid(doc) => MemberFiles(doc) = seen

\* A document the crate can bind gets signed, however long its store turns
\* out to be, unless something changes it meanwhile (fill_manifest).
SigningCompletes ==
  phase = "draft" /\ CollectionVerdict(doc) = "ok" /\ edits = MaxEdits
    ~> phase = "filled"
=============================================================================
