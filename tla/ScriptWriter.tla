---------------------------- MODULE ScriptWriter ----------------------------
(***************************************************************************)
(* ScriptGenerator.generate() of ytaimbot_ml/content/script_generator.py:   *)
(* one LLM request per section through LLMFallbackChain, whose adapters     *)
(* retry on their own, with the token budget shared out among the sections. *)
(* A text is its number of words and the keywords that occur in it; weights *)
(* are in tenths and the shares exact.                                      *)
(***************************************************************************)
EXTENDS Integers, FiniteSets, Sequences, Functions

CONSTANTS
    Sections,       \* SECTION_ORDER
    SectionWeight,  \* [sections -> Nat]
    MinTokens,      \* floor of a section
    Totals,         \* token budgets
    Keywords,       \* plan.keywords, a sequence
    MaxPerSection,  \* keywords injected per section
    Lengths,        \* words of an answer
    MinWords,
    LlmRetries,     \* [{"groq", "gemini", "ollama"} -> Nat]
    MaxScripts      \* bound: calls of generate()

Names == {Sections[i] : i \in 1 .. Len(Sections)}
Words == {Keywords[i] : i \in 1 .. Len(Keywords)}

WriterAssumption ==
    /\ Sections \in Seq(Names) /\ IsInjective(Sections) /\ Len(Sections) > 0
    /\ SectionWeight \in [Names -> Nat \ {0}]
    /\ Totals \subseteq Nat /\ MinTokens \in Nat
    /\ Keywords \in Seq(Words) /\ MaxPerSection \in Nat
    /\ Lengths \subseteq Nat /\ MinWords \in Nat
    /\ LlmRetries \in [{"groq", "gemini", "ollama"} -> Nat]

VARIABLES
    chain,      \* the adapters build_llm_adapter() made
    total,      \* total_tokens
    allocations,
    status,     \* "idle", "asking", "done", "failed"
    written,    \* the sections so far: name, keywords, text
    place, try, \* adapter and attempt of the request under way
    \* history
    requests,   \* requests of this generate()
    scripts

wvars == <<chain, total, allocations, status, written, place, try, requests, scripts>>

\* Ollama alone, and only when neither of the others is configured.
Configured(a, keys) == IF a \in keys THEN <<a>> ELSE <<>>
ChainOf(keys) ==
    IF keys \cap {"groq", "gemini"} # {}
    THEN Configured("groq", keys) \o Configured("gemini", keys)
    ELSE Configured("ollama", keys)

WInit ==
    /\ \E keys \in SUBSET {"groq", "gemini", "ollama"} : chain = ChainOf(keys)
    /\ total \in Totals /\ allocations = [n \in Names |-> 0]
    /\ status = "idle" /\ written = <<>>
    /\ place = 1 /\ try = 0
    /\ requests = 0 /\ scripts = 0
------------------------------------------------------------------------------
Sum(f) == FoldFunction(+, 0, f)
TotalWeight == Sum(SectionWeight)
Larger(a, b) == IF a < b THEN b ELSE a

\* Mutant of Share: the floor is taken off the others.
ShareNoFloor(n, budget) == (SectionWeight[n] * budget) \div TotalWeight

Share(n, budget) == Larger(MinTokens, (SectionWeight[n] * budget) \div TotalWeight)

\* max(): the first of the heaviest sections.
Heaviest == Sections[CHOOSE i \in 1 .. Len(Sections) :
                  /\ \A n \in Names : SectionWeight[n] <= SectionWeight[Sections[i]]
                  /\ \A j \in 1 .. i - 1 : SectionWeight[Sections[j]] < SectionWeight[Sections[i]]]

\* TokenBudget.allocate(): what rounding left over goes to the heaviest section.
Allocation(budget) ==
    LET shares == [n \in Names |-> Share(n, budget)]
        remainder == budget - Sum(shares)
    IN  IF remainder > 0 THEN [shares EXCEPT ![Heaviest] = @ + remainder] ELSE shares

\* _pick_keywords: the hook takes the first ones, every other section a sample.
Picks(n) ==
    LET size == IF Len(Keywords) < MaxPerSection THEN Len(Keywords) ELSE MaxPerSection
    IN  IF n = "hook" THEN {{Keywords[i] : i \in 1 .. size}}
        ELSE {K \in SUBSET Words : Cardinality(K) = size}

\* Without an adapter there is no generator to call.
Generate ==
    /\ status # "asking" /\ scripts < MaxScripts
    /\ chain # <<>>
    /\ status' = "asking" /\ scripts' = scripts + 1
    /\ written' = <<>> /\ requests' = 0
    /\ allocations' = Allocation(total)
    /\ place' = 1 /\ try' = 0
    /\ UNCHANGED <<chain, total>>

Here == Sections[Len(written) + 1]

\* Mutant of Inject: keywords already in the text are added as well as missing
\* ones are not.
InjectPresent(words, says, ks) == [words |-> words + Cardinality(ks \cap says), says |-> says]

\* _inject_keywords: those that do not occur are put behind the text.
Inject(words, says, ks) ==
    [words |-> words + Cardinality(ks \ says), says |-> says \cup ks]

WordsOf(script) == Sum([i \in 1 .. Len(script) |-> script[i].text.words])

\* An answer: the section is complete, and after the last one the script is
\* validated.
Answer ==
    /\ status = "asking"
    /\ requests' = requests + 1
    /\ \E words \in Lengths, says \in SUBSET Words, ks \in Picks(Here) :
          written' = Append(written,
              [name |-> Here, keywords |-> ks, text |-> Inject(words, IF words = 0 THEN {} ELSE says, ks)])
    /\ place' = 1 /\ try' = 0
    /\ status' = IF Len(written') < Len(Sections) THEN "asking"
                 ELSE IF WordsOf(written') < MinWords THEN "failed" ELSE "done"
    /\ UNCHANGED <<chain, total, allocations, scripts>>

\* Mutant of NextAdapter: the chain starts again.
NextAdapterWraps ==
    /\ place' = (place % Len(chain)) + 1 /\ try' = 0
    /\ UNCHANGED status

\* LLMFallbackChain: any error leads to the next adapter, the last one out.
NextAdapter ==
    IF place < Len(chain)
    THEN place' = place + 1 /\ try' = 0 /\ UNCHANGED status
    ELSE status' = "failed" /\ UNCHANGED <<place, try>>

\* An error: rate limits, server errors and timeouts are retried while attempts
\* are left, keys and models that are refused are not.
Error ==
    /\ status = "asking"
    /\ requests' = requests + 1
    /\ \/ /\ try < LlmRetries[chain[place]]
          /\ try' = try + 1 /\ UNCHANGED <<place, status>>
       \/ NextAdapter
    /\ UNCHANGED <<chain, total, allocations, written, scripts>>

WStep == Answer \/ Error
WNext == Generate \/ WStep
------------------------------------------------------------------------------
\* A script that is returned is whole (script_generator.py:88-155, 340-369):
\* the sections in order, each with all the keywords picked for it whatever the
\* LLM wrote, together long enough; and no script is refused for its length that
\* has enough words with the keywords added.
ScriptIsWhole ==
    LET words == WordsOf(written)
    IN  /\ \A i \in 1 .. Len(written) :
              /\ written[i].name = Sections[i]
              /\ written[i].keywords \subseteq written[i].text.says
        /\ status = "done" => Len(written) = Len(Sections) /\ words >= MinWords
        /\ status = "failed" /\ Len(written) = Len(Sections) => words < MinWords

\* One generate() costs at most one request per attempt, adapter and section,
\* the retries of the adapters and the fallbacks of the chain together.
RequestsBounded ==
    requests <= Len(Sections) * Sum([i \in 1 .. Len(chain) |-> 1 + LlmRetries[chain[i]]])

\* The whole budget is given out and no section gets less than the floor
\* (token_budget.py:56-117); the sum is above the total only where a floor forced
\* it, and by no more than the floors; a heavier section never gets less.
TokensShared ==
    LET forced == {n \in Names : SectionWeight[n] * total < MinTokens * TotalWeight}
    IN  scripts > 0 =>
        /\ Sum(allocations) >= total
        /\ Sum(allocations) <= total + MinTokens * Cardinality(forced)
        /\ \A n \in Names : allocations[n] >= MinTokens
        /\ \A n, k \in Names :
              SectionWeight[n] < SectionWeight[k] => allocations[n] <= allocations[k]

\* What token_budget.py:82 says of allocate().
TokensWithinTotal == scripts > 0 => Sum(allocations) <= total

\* generate() returns or raises.
GenerateEnds == status = "asking" ~> status # "asking"
==============================================================================
