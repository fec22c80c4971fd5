--------------------------- MODULE EvidenceChain ---------------------------
(***************************************************************************)
(* EvidenceArtifact and EvidenceChain of ytaimbot_ml/quality/evidence.py.   *)
(* SHA-256 is taken to tell strings apart, so that a hash is the string it  *)
(* is made of: the fields one after the other, with nothing between, and at  *)
(* the end the previous hash and the timestamp.                             *)
(***************************************************************************)
EXTENDS Integers, Sequences, FiniteSets, SequencesExt

CONSTANTS
    Fields,         \* what an artifact says: a sequence of strings
    MaxArtifacts,   \* bound
    MaxPending      \* bound: artifacts made and not yet appended

EvidenceAssumption == MaxArtifacts \in Nat /\ MaxPending \in Nat

VARIABLES
    artifacts,  \* _artifacts
    pending,    \* artifacts of callers, made for the hash that was last then
    clock,      \* timestamps
    history,    \* history: every artifact appended, but for one lost at the end
    edited      \* history: was the list changed by anything but append()

evars == <<artifacts, pending, clock, history, edited>>

\* _compute_hash(): of the fields only their concatenation is left.
Hash(f, prev, time) == <<FlattenSeq(f), prev, time>>
Genesis == Hash(<<>>, <<>>, 0)

EInit ==
    /\ artifacts = <<>> /\ pending = {} /\ clock = 0
    /\ history = <<>> /\ edited = FALSE

LastHash == IF artifacts = <<>> THEN Genesis ELSE Last(artifacts).hash

\* create() with the last_hash of now
Create(f) ==
    /\ clock < MaxArtifacts /\ Cardinality(pending) < MaxPending
    /\ clock' = clock + 1
    /\ pending' = pending \cup
          {[fields |-> f, prev |-> LastHash, time |-> clock', hash |-> Hash(f, LastHash, clock')]}
    /\ UNCHANGED <<artifacts, history, edited>>

\* Mutant of AppendArtifact: whoever comes is appended.
AppendAny(a) ==
    /\ pending' = pending \ {a}
    /\ artifacts' = Append(artifacts, a) /\ history' = Append(history, a)
    /\ UNCHANGED <<clock, edited>>

\* append(): refused when another one was appended since it was made.
AppendArtifact(a) ==
    /\ pending' = pending \ {a}
    /\ IF a.prev # LastHash THEN UNCHANGED <<artifacts, history>>
       ELSE artifacts' = Append(artifacts, a) /\ history' = Append(history, a)
    /\ UNCHANGED <<clock, edited>>

\* The list is damaged: other fields, an artifact lost, two swapped.
Edit ==
    /\ edited' = TRUE
    /\ \E i \in DOMAIN artifacts :
          \/ /\ artifacts' = RemoveAt(artifacts, i)
             /\ history' = IF i = Len(artifacts) THEN Front(history) ELSE history
          \/ /\ \/ \E f \in Fields : artifacts' = [artifacts EXCEPT ![i].fields = f]
                \/ \E j \in DOMAIN artifacts :
                      artifacts' = [artifacts EXCEPT ![i] = artifacts[j], ![j] = artifacts[i]]
             /\ UNCHANGED history
    /\ artifacts' # artifacts /\ UNCHANGED <<pending, clock>>

ENext ==
    \/ \E f \in Fields : Create(f)
    \/ \E a \in pending : AppendArtifact(a)
    \/ ~ edited /\ Edit
------------------------------------------------------------------------------
\* verify() of an artifact, verify_chain()
Verify(a, prevHash) == a.prev = prevHash /\ a.hash = Hash(a.fields, a.prev, a.time)
VerifyChain ==
    \A i \in DOMAIN artifacts :
       Verify(artifacts[i], IF i = 1 THEN Genesis ELSE artifacts[i - 1].hash)

\* Several callers may each make an artifact for the same last hash and append in any
\* order (evidence.py:193-262): the chain verifies as long as nobody edits the
\* list.  After an edit, and however many are appended to what is left, it verifies
\* only if every artifact is the one that was appended there, up to how its strings
\* are cut into fields: a loss at the end goes unseen, any other does not.
ChainTells ==
    /\ ~ edited => VerifyChain /\ artifacts = history
    /\ VerifyChain =>
          /\ Len(artifacts) = Len(history)
          /\ \A i \in DOMAIN artifacts :
                [history[i] EXCEPT !.fields = <<>>] = [artifacts[i] EXCEPT !.fields = <<>>]
                /\ FlattenSeq(history[i].fields) = FlattenSeq(artifacts[i].fields)

\* What evidence.py:5 and 186 say: whatever is done to the list, it can be detected.
TamperingTells == edited => ~ VerifyChain
==============================================================================
