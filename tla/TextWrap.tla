------------------------------ MODULE TextWrap ------------------------------
(***************************************************************************)
(* The three loops that cut text into pieces of bounded length: subtitle and*)
(* thumbnail lines (subtitle.py, thumbnail.py), the chunks of edge-tts and  *)
(* those of TTSMaker.  A word or a sentence is its length, a piece the      *)
(* sequence of what it joins with one space between.                        *)
(***************************************************************************)
EXTENDS Integers, Sequences, SequencesExt

CONSTANTS MaxChars, Texts   \* sequences of sentences, each a sequence of words

WrapAssumption == MaxChars \in Nat \ {0} /\ Texts \subseteq Seq(Seq(Nat))

VARIABLE text               \* what is to be cut

XInit == text \in Texts

Chars(piece) == FoldLeft(+, 0, piece) + (IF piece = <<>> THEN 0 ELSE Len(piece) - 1)
Words        == FlattenSeq(text)
------------------------------------------------------------------------------
Begun == [done |-> <<>>, current |-> <<>>]
Flush(acc) ==
    IF acc.current = <<>> THEN acc.done ELSE Append(acc.done, acc.current)

\* Mutant of Fits: the space between is forgotten.
FitsTight(current, n) == Chars(current) + n <= MaxChars

\* The test of _split_phrases, of the thumbnail's lines and of _split_text.
Fits(current, n) == Chars(current) + n + 1 <= MaxChars

\* _split_phrases, the word loop.
WrapWord(acc, word) ==
    IF Fits(acc.current, word)
    THEN [acc EXCEPT !.current = Append(@, word)]
    ELSE [done |-> Flush(acc), current |-> <<word>>]
Wrapped(sentence) ==
    IF Chars(sentence) <= MaxChars THEN <<sentence>>
    ELSE Flush(FoldLeft(WrapWord, Begun, sentence))

\* _split_text of edge-tts: what fits no chunk is cut hard.
HardSplit(n) ==
    [i \in 1 .. (n + MaxChars - 1) \div MaxChars |->
        IF i * MaxChars <= n THEN <<MaxChars>> ELSE <<n % MaxChars>>]
SplitSentence(acc, n) ==
    IF Fits(acc.current, n) THEN [acc EXCEPT !.current = Append(@, n)]
    ELSE IF n > MaxChars
    THEN [done |-> Flush(acc) \o HardSplit(n), current |-> <<>>]
    ELSE [done |-> Flush(acc), current |-> <<n>>]
SplitText(sentences) ==
    IF Chars(sentences) <= MaxChars THEN <<sentences>>
    ELSE Flush(FoldLeft(SplitSentence, Begun, sentences))

\* _chunk_text of TTSMaker: the first sentence gets a space in front, which is
\* counted and then stripped; after a flush there is none.
ChunkSentence(acc, n) ==
    IF Chars(acc.current) + acc.lead + n > MaxChars
    THEN [done |-> Flush(acc), current |-> <<n>>, lead |-> 0]
    ELSE [acc EXCEPT !.current = Append(@, n),
                     !.lead = IF acc.current = <<>> THEN 1 ELSE @]
ChunkText(sentences) ==
    IF Chars(sentences) <= MaxChars THEN <<sentences>>
    ELSE Flush(FoldLeft(ChunkSentence, [done |-> <<>>, current |-> <<>>, lead |-> 0], sentences))
------------------------------------------------------------------------------
\* No piece could have taken the first word of the next one.
Full(pieces) ==
    \A i \in 1 .. Len(pieces) - 1 : Chars(pieces[i]) + 1 + pieces[i + 1][1] > MaxChars

\* Subtitle phrases (subtitle.py:176-222) keep every word in its place, are filled,
\* and only a phrase of a single word may be longer than a line; the chunks of
\* edge-tts (edge_tts.py:191-237) have all the characters and are never longer than
\* MaxChars; those of TTSMaker (ttsmaker.py:165-184) have all the sentences, one of
\* several sentences has at most MaxChars + 1 characters, and one of a single
\* sentence has as many as the sentence.
PiecesFit ==
    /\ \A k \in 1 .. Len(text) :
        LET phrases == Wrapped(text[k])
        IN  /\ FlattenSeq(phrases) = text[k]
            /\ Full(phrases)
            /\ \A i \in 1 .. Len(phrases) :
                  Chars(phrases[i]) <= MaxChars \/ Len(phrases[i]) = 1
    /\ LET chunks == SplitText(Words)
       IN  /\ FoldLeft(+, 0, FlattenSeq(chunks)) = FoldLeft(+, 0, Words)
           /\ \A i \in 1 .. Len(chunks) : Chars(chunks[i]) <= MaxChars
    /\ LET chunks == ChunkText(Words)
       IN  /\ FlattenSeq(chunks) = Words
           /\ \A i \in 1 .. Len(chunks) :
                 Chars(chunks[i]) <= MaxChars + 1 \/ Len(chunks[i]) = 1

\* What subtitle.py:177 says of _split_phrases.
PhrasesFit ==
    \A k \in 1 .. Len(text) :
        \A i \in 1 .. Len(Wrapped(text[k])) : Chars(Wrapped(text[k])[i]) <= MaxChars

\* What ttsmaker.py:166 says of _chunk_text.
ChunksFit ==
    \A i \in 1 .. Len(ChunkText(Words)) : Chars(ChunkText(Words)[i]) <= MaxChars
==============================================================================
