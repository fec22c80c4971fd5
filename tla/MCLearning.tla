----------------------------- MODULE MCLearning -----------------------------
(* The instance of Learning that TLC checks. *)
EXTENDS Learning, TLC

MCNiches   == <<"finance", "tech">>
MCFallback == <<"tech", "finance">>
MCLearnRewards == {-6, 6, 18}
MCTableRewards == {-6, 18}
\* sqrt(2 ln N / n) in thousandths of a twelfth.
Bonuses == << <<0, 0, 0, 0, 0, 0, 0>>,
              <<14129, 9991, 8157, 7064, 6319, 5768, 5340>>,
              <<17788, 12578, 10270, 8894, 7955, 7262, 6723>>,
              <<19981, 14129, 11536, 9991, 8936, 8157, 7552>>,
              <<21529, 15224, 12430, 10765, 9628, 8789, 8137>>,
              <<22716, 16063, 13115, 11358, 10159, 9274, 8586>>,
              <<23673, 16740, 13668, 11837, 10587, 9665, 8948>> >>

\* Two readings of check_thresholds(), one of them at two levels.
AM == INSTANCE Alerts WITH Messages <- {}, Text <- <<>>, Bits <- <<>>, Configured <- TRUE
Breaches == AM!Breaches("ctr" :> 3 @@ "retention" :> 40 @@ "quota" :> 9,
                        "ctr" :> 4 @@ "retention" :> 50, "quota" :> 8)
MCAnnounced   == (Breaches \X {"warning"}) \cup ({<<"ctr", 3>>} \X {"critical"})
MCTexts    == [m \in MCAnnounced |-> m[1]]
MCFilter   == <<"ctr", 3>> :> {1, 2} @@ <<"retention", 40>> :> {2, 3} @@ <<"quota", 9>> :> {1, 3}

\* Phrases that are prefixes, suffixes and parts of each other, and of "[removed]" or not;
\* a capital, and a letter whose lower case is two.
MCLower   == 5 :> <<2>> @@ 6 :> <<1>> @@ 7 :> <<2, 3>>
MCPhrases == {<<1>>, <<1, 2>>, <<2, 2>>, <<2, 1, 2>>}
MCScripts == UNION {[1 .. k -> {1, 2, 5}] : k \in 1 .. 3}
             \cup {<<2, 1, 5, 2>>, <<7, 2, 2>>, <<1, 7, 2, 2>>, <<7, 1, 2, 4>>, <<7, 7, 1, 2>>}
MCReplacement == <<9, 6, 8>>
MCOdds  == 1 :> <<1, 9>> @@ 5 :> <<5, 5>> @@ 9 :> <<9, 1>>
MCPrior == <<1, 9>>
MCFields == {<< <<"v">>, <<"1", "a">> >>, << <<"v", "1">>, <<"a">> >>, << <<"w">>, <<"a">> >>}

Symmetry == Permutations(Videos)

MCHashes    == "a" :> <<0, 5>> @@ "b" :> <<0, 1>> @@ "c" :> <<2, 0>> @@ "d" :> <<3, 7>>
MCLogHashes == "a" :> <<1, 0>> @@ "b" :> <<2, 2>> @@ "c" :> <<2, 3>> @@ "d" :> <<2, 4>>
==============================================================================
