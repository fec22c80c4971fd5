---------------------------- MODULE QualityGate ----------------------------
(***************************************************************************)
(* What decides on a script in ytaimbot_ml/quality: the BlocklistTrie and    *)
(* the ContentSanitizer that replaces what it finds, the TopicBlacklist and *)
(* the ComplianceChecker that refuse a text, and the BayesQualityFilter.  A *)
(* text is a sequence of characters, numbers in their order, each of which  *)
(* has a lower case of one character or more.                               *)
(***************************************************************************)
EXTENDS Integers, Sequences, SequencesExt, FiniteSetsExt

CONSTANTS
    Lower,          \* characters that change -> what str.lower() makes of them
    Phrases,        \* what insert() and add_pattern() make of their arguments
    Texts,          \* descriptions and scripts
    Replacement,    \* "[REMOVED]"
    Space,
    Odds,           \* clamped value of a feature -> <<bad, good>>
    Prior,          \* the same of prior_bad
    Features,       \* names of features
    MinDuration, Durations, NoDuration,
    MaxTurns        \* bound: replacements in one text

Has(text, p) == \E i \in 1 .. Len(text) : IsPrefix(p, SubSeq(text, i, Len(text)))

\* str.lower(), character by character
Lowered(t) ==
    LET low[i \in Nat] ==
            IF i = 0 THEN <<>>
            ELSE low[i - 1] \o IF t[i] \in DOMAIN Lower THEN Lower[t[i]] ELSE <<t[i]>>
    IN  low[Len(t)]

\* The filter clamps a probability and what is left of 1, so that both are positive,
\* and the odds grow with the probability.
GateAssumption ==
    /\ Lower \in [DOMAIN Lower -> Seq(Int)] /\ DOMAIN Lower \subseteq Int
    /\ Phrases \cup Texts \cup {Replacement} \subseteq Seq(Int) /\ Texts # {}
    /\ \A p \in Phrases : p # <<>>
    /\ Lowered(Replacement) # <<>> /\ Space \in Int /\ MaxTurns \in Nat
    /\ Durations \subseteq Int \ {NoDuration} /\ MinDuration \in Int
    /\ IsFiniteSet(Features) /\ DOMAIN Odds \subseteq Int
    /\ \A o \in Range(Odds) \cup {Prior} : o \in (Nat \ {0}) \X (Nat \ {0})
    /\ \A v, w \in DOMAIN Odds : v <= w => Odds[v][1] * Odds[w][2] <= Odds[w][1] * Odds[v][2]

VARIABLES
    nodes,      \* prefixes that have a TrieNode
    ends,       \* those with is_end
    phraseCount,
    patterns,   \* of the TopicBlacklist
    text,       \* script under the sanitizer
    matches,    \* phrases it still has to replace, sorted
    inserted,   \* history: phrases inserted
    known,      \* history: those the text was sanitized of
    came,       \* history: the text as it came
    replaced    \* history: what has been replaced in it, in order

trie  == <<nodes, ends, phraseCount, inserted>>
run   == <<text, matches, known, came, replaced>>
gvars == <<trie, patterns, run>>

GInit ==
    /\ nodes = {<<>>} /\ ends = {} /\ phraseCount = 0 /\ inserted = {}
    /\ patterns = {} /\ text \in Texts /\ matches = <<>> /\ known = {}
    /\ came = text /\ replaced = <<>>
------------------------------------------------------------------------------

\* Mutant of Insert: a phrase ends only in a node of its own.
InsertNewPath(p) ==
    /\ nodes' = nodes \cup Prefixes(p)
    /\ ends' = IF p \in nodes THEN ends ELSE ends \cup {p}
    /\ phraseCount' = IF p \in nodes THEN phraseCount ELSE phraseCount + 1
    /\ inserted' = inserted \cup {p}
    /\ UNCHANGED <<patterns, run>>

Insert(p) ==
    /\ nodes' = nodes \cup Prefixes(p)
    /\ ends' = ends \cup {p}
    /\ phraseCount' = IF p \in ends THEN phraseCount ELSE phraseCount + 1
    /\ inserted' = inserted \cup {p}
    /\ UNCHANGED <<patterns, run>>

\* From every start of the lowered text down the trie to the first child missing.
Walk(t, i) == {n \in i .. Len(t) : \A k \in i .. n : SubSeq(t, i, k) \in nodes}
Found(t) == ends \cap UNION {{SubSeq(t, i, n) : n \in Walk(t, i)} : i \in 1 .. Len(t)}
Search(t) == Found(Lowered(t)) # {}

Before(p, q) ==
    \/ IsStrictPrefix(p, q)
    \/ \E i \in DOMAIN p \cap DOMAIN q :
          p[i] < q[i] /\ SubSeq(p, 1, i - 1) = SubSeq(q, 1, i - 1)

\* find_matches(): the one way to list what was found in order.
FindMatches(t) ==
    {m \in [1 .. Cardinality(Found(Lowered(t))) -> Found(Lowered(t))] :
        \A i, j \in DOMAIN m : i < j => Before(m[i], m[j])}

AddPattern(p) ==
    /\ patterns' = patterns \cup {p}
    /\ UNCHANGED <<trie, run>>

\* sanitize_script(): all matches of the text as it came, one after the other.
Sanitize(t) ==
    /\ matches = <<>> /\ text' = t /\ matches' \in FindMatches(t)
    /\ known' = inserted /\ came' = t /\ replaced' = <<>>
    /\ UNCHANGED <<trie, patterns>>

FirstAt(t, p) == CHOOSE i \in 1 .. Len(t) :
                    /\ IsPrefix(p, SubSeq(t, i, Len(t)))
                    /\ \A k \in 1 .. i - 1 : ~ IsPrefix(p, SubSeq(t, k, Len(t)))

\* Slices of the text, as it is, by a place in the lowered one.
Spliced(t, p, i) ==
    SubSeq(t, 1, IF i - 1 <= Len(t) THEN i - 1 ELSE Len(t))
       \o Replacement \o SubSeq(t, i + Len(p), Len(t))

\* One turn of the inner loop, or on to the next match.
Replace ==
    /\ matches # <<>> /\ Len(replaced) < MaxTurns
    /\ LET p   == Head(matches)
           low == Lowered(text)
       IN  IF Has(low, p)
           THEN /\ text' = Spliced(text, p, FirstAt(low, p))
                /\ replaced' = Append(replaced, p) /\ UNCHANGED matches
           ELSE matches' = Tail(matches) /\ UNCHANGED <<text, replaced>>
    /\ UNCHANGED <<trie, patterns, known, came>>

SanitizerNext ==
    \/ Replace
    \/ \E t \in Texts : Sanitize(t)
    \/ \E p \in Phrases : matches = <<>> /\ Insert(p)

BlacklistNext == \E p \in Phrases : AddPattern(p)
------------------------------------------------------------------------------
\* TopicBlacklist.get_violations() and ComplianceChecker.check(); whether a
\* description discloses and disclaims is part of the input.
Topics(t) == {p \in patterns : Has(Lowered(t), p)}

Violations(description, script, duration, discloses, disclaims, pii) ==
    (IF discloses THEN {} ELSE {"disclosure"})
    \cup (IF pii THEN {"pii"} ELSE {})
    \cup (IF Topics(description \o <<Space>> \o script) = {} THEN {} ELSE {"topics"})
    \cup (IF duration # NoDuration /\ duration < MinDuration THEN {"duration"} ELSE {})
    \cup (IF disclaims THEN {} ELSE {"age"})

\* BayesQualityFilter.score(): what speaks for bad and what for good after every feature
\* (the code adds logarithms), and decide() at a threshold of one half.
Product(b, f) == FoldFunction(LAMBDA x, y : x * y, b, f)
Posterior(f) == [i \in 1 .. 2 |-> Product(Prior[i], [n \in DOMAIN f |-> Odds[f[n]][i]])]
Decide(f) == IF Posterior(f)[1] >= Posterior(f)[2] THEN "fail" ELSE "pass"

\* No phrase is part of "[removed]" or has a bracket: true of blocklist.txt.
Apart(S) ==
    LET low == Lowered(Replacement)
    IN  \A p \in S : ~ Has(low, p) /\ low[1] \notin ToSet(p) /\ low[Len(low)] \notin ToSet(p)

\* Whatever the order of insertion, and though a phrase may begin, end or lie inside
\* another, the trie finds just the phrases inserted; a text rewritten match by
\* match, where one replacement may break up the next match, or miss it by the
\* characters that are longer in lower case, comes out, if it does, with none of the
\* phrases known at the time (blocklist.py:70-224, sanitizer.py:70-99).
TextSafe ==
    /\ phraseCount = Cardinality(inserted)
    /\ \A t \in Texts \cup {text} : Found(Lowered(t)) = {p \in inserted : Has(Lowered(t), p)}
    /\ matches = <<>> /\ known = inserted /\ Apart(known) => ~ Search(text)

\* What sanitize_script() says of itself: overlapping phrases are each replaced
\* (sanitizer.py:64), what surrounds them is preserved (63), and the work is bounded by
\* the length of the text and of the longest phrase (sanitizer.py:76).
EachReplaced ==
    matches = <<>> => \A p \in known : Has(Lowered(came), p) => p \in ToSet(replaced)
SurroundingsKept ==
    matches = <<>> /\ Apart(known) =>
        \A c \in ToSet(came) \ UNION {ToSet(p) : p \in known} :
            c \notin DOMAIN Lower => Cardinality({i \in DOMAIN came : came[i] = c})
                                        <= Cardinality({i \in DOMAIN text : text[i] = c})
TurnsBounded ==
    Apart(known) => Len(replaced) <= Len(came) * Max({0} \cup {Len(p) : p \in known})

\* What the checker passes has no pattern in either part, though it looks at both put
\* together (compliance.py:138-200); no feature raised turns a fail of
\* the filter into a pass (bayes_filter.py:64-98).
PolicySafe ==
    /\ \A d, s \in Texts : Violations(d, s, NoDuration, TRUE, TRUE, FALSE) = {} =>
          Topics(d) = {} /\ Topics(s) = {}
    /\ \A f, g \in [Features -> DOMAIN Odds] :
          (\A n \in Features : f[n] <= g[n]) /\ Decide(f) = "fail" => Decide(g) = "fail"
==============================================================================
