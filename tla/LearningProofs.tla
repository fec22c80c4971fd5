--------------------------- MODULE LearningProofs ---------------------------
(***************************************************************************)
(* What holds of the parts of Learning that alert, decide and sketch, for   *)
(* every value of the constants.                                            *)
(***************************************************************************)
EXTENDS Learning, FiniteSums, SequenceTheorems

(***************************************************************************)
(* Alerts                                                                  *)
(***************************************************************************)

LEMMA AlertFacts ==
    /\ Cooldown \in Nat \ {0} /\ MaxTime \in Nat /\ Idle \notin {"manager", "slack"}
BY LearningAssumption DEF A!AlertAssumption

LEMMA AlertsMove ==
    ASSUME [LNext]_lvars PROVE A!ManagerNext \/ A!SlackNext \/ UNCHANGED alerts
BY DEF LNext, lvars

Sendable == {Texts[m] : m \in Announced}

Copies == [at : Nat, heard : BOOLEAN]

\* The copies of a message that the webhook took, the next one after a copy whose answer
\* arrived a cooldown later.
SpacedCopies(copies) ==
    \A i \in 2 .. Len(copies) :
        copies[i - 1].heard => copies[i].at - copies[i - 1].at >= Cooldown

\* AlertManager: a message whose last copy was heard is marked with a time no earlier
\* than the copy, and a message under way is not a copy of a young one.
ManagerInv ==
    /\ now \in Nat /\ sentAt \in [DOMAIN sentAt -> Nat]
    /\ posting \in [by : {"manager", "slack", Idle}, message : Announced \cup {Idle}, taken : BOOLEAN]
    /\ posting.by = "manager" =>
          /\ posting.message \in Announced
          /\ posting.message \in DOMAIN sentAt => now - sentAt[posting.message] >= Cooldown
          /\ posting.taken => accepted[posting.message] # <<>>
    /\ accepted \in [Announced -> Seq(Copies)]
    /\ \A m \in Announced : \A i \in 1 .. Len(accepted[m]) : accepted[m][i].at <= now
    /\ \A m \in Announced : accepted[m] # <<>> /\ accepted[m][Len(accepted[m])].heard =>
          m \in DOMAIN sentAt /\ sentAt[m] >= accepted[m][Len(accepted[m])].at
    /\ \A m \in Announced : SpacedCopies(accepted[m])

\* SlackNotifier, for a window that starts at ws, the bits bs and the attempts at: a text was
\* attempted once in the window at most and less than a cooldown after its start; an
\* attempt before the last window is a cooldown older than the window; the bits are those
\* of the texts of the window.
InWindow(ws, at) == {t \in Sendable : \E i \in 1 .. Len(at[t]) : at[t][i] >= ws}

WindowInv(ws, bs, at) ==
    /\ ws \in Nat /\ at \in [Sendable -> Seq(Nat)]
    /\ \A t \in Sendable : \A i \in 1 .. Len(at[t]) :
          /\ at[t][i] < ws + Cooldown
          /\ i < Len(at[t]) => at[t][i] < ws
    /\ \A t \in Sendable : \A i \in 2 .. Len(at[t]) :
          at[t][i] < ws => at[t][i - 1] + Cooldown <= ws
    /\ \A t \in Sendable : \A i \in 3 .. Len(at[t]) : at[t][i] - at[t][i - 2] >= Cooldown
    /\ bs = UNION {Filter[t] : t \in InWindow(ws, at)}

SlackInv ==
    /\ now \in Nat /\ windowStart <= now
    /\ WindowInv(windowStart, bits, attempts)

LEMMA AlertsInit == LInit => ManagerInv /\ SlackInv
<1> SUFFICES ASSUME LInit PROVE ManagerInv /\ SlackInv
  OBVIOUS
<1>1. A!AInit
  BY DEF LInit
<1>2. /\ now = 0 /\ DOMAIN sentAt = {} /\ sentAt = <<>> /\ posting = A!Nobody /\ posting.by = Idle /\ windowStart = 0 /\ bits = {}
      /\ accepted = [m \in Announced |-> <<>>] /\ attempts = [t \in Sendable |-> <<>>]
  BY <1>1 DEF A!AInit, A!Nobody, Sendable
<1>3. \A m \in Announced : accepted[m] = <<>> /\ Len(accepted[m]) = 0
  BY <1>2
<1>4. \A t \in Sendable : attempts[t] = <<>> /\ Len(attempts[t]) = 0
  BY <1>2
<1>5. InWindow(windowStart, attempts) = {}
  BY <1>4 DEF InWindow
<1>6. bits = UNION {Filter[t] : t \in InWindow(windowStart, attempts)}
  BY <1>2, <1>5
<1>7. accepted \in [Announced -> Seq(Copies)] /\ attempts \in [Sendable -> Seq(Nat)]
  BY <1>2
<1>8. sentAt \in [DOMAIN sentAt -> Nat]
  BY <1>2
<1>9. ManagerInv
  BY <1>2, <1>3, <1>7, <1>8, AlertFacts DEF ManagerInv, SpacedCopies, A!Nobody
<1> QED
  BY <1>2, <1>4, <1>6, <1>7, <1>9, AlertFacts DEF SlackInv, WindowInv

LEMMA CopyIs ==
    ASSUME NEW copies \in Seq(Copies), NEW i \in 1 .. Len(copies)
    PROVE  copies[i] \in Copies /\ copies[i].at \in Nat /\ copies[i].heard \in BOOLEAN
<1>1. copies[i] \in Copies
  OBVIOUS
<1> QED
  BY <1>1 DEF Copies

LEMMA CopyAppended ==
    ASSUME NEW copies \in Seq(Copies), NEW c \in Copies
    PROVE  /\ Append(copies, c) \in Seq(Copies) /\ Append(copies, c) # <<>>
           /\ Len(copies) \in Nat /\ Len(Append(copies, c)) = Len(copies) + 1 /\ Append(copies, c)[Len(copies) + 1] = c
           /\ \A i \in 1 .. Len(copies) : Append(copies, c)[i] = copies[i]
OBVIOUS

LEMMA ManagerKept == ManagerInv /\ [LNext]_lvars => ManagerInv'
<1> SUFFICES ASSUME ManagerInv, [LNext]_lvars PROVE ManagerInv'
  OBVIOUS
<1> USE AlertFacts DEF ManagerInv
<1>1. ASSUME UNCHANGED <<sentAt, accepted>>, now' \in Nat, now' >= now,
             posting' \in [by : {"manager", "slack", Idle}, message : Announced \cup {Idle}, taken : BOOLEAN],
             posting'.by = "manager" => UNCHANGED posting
      PROVE  ManagerInv'
  <2>1. \A m \in Announced : accepted'[m] = accepted[m] /\ accepted[m] \in Seq(Copies)
    BY <1>1
  <2>2. \A m \in Announced : \A i \in 1 .. Len(accepted[m]) : accepted[m][i].at <= now'
    <3> TAKE m \in Announced
    <3> TAKE i \in 1 .. Len(accepted[m])
    <3>1. accepted[m][i] \in Copies
      BY <2>1
    <3>2. accepted[m][i].at \in Nat /\ accepted[m][i].at <= now
      BY <3>1 DEF Copies
    <3> QED
      BY <1>1, <3>2
  <2> QED
    BY <1>1, <2>1, <2>2 DEF SpacedCopies
<1>2. CASE UNCHANGED alerts
  BY <1>2, <1>1 DEF alerts
<1>3. CASE A!PassTime
  BY <1>3, <1>1 DEF A!PassTime
<1>4. CASE A!SlackAnswered \/ A!SendDailySummary \/ \E m \in Announced : A!SendAlert(m) \/ A!Suppress(m)
  <2>1. UNCHANGED <<now, sentAt, accepted>>
    BY <1>4 DEF A!SlackAnswered, A!SendDailySummary, A!SendAlert, A!Suppress
  <2>2. /\ posting' \in [by : {"manager", "slack", Idle}, message : Announced \cup {Idle}, taken : BOOLEAN]
        /\ posting'.by = "manager" => UNCHANGED posting
    <3>1. posting' = A!Nobody \/ UNCHANGED posting \/
          \E m \in Announced \cup {Idle} : posting' = [by |-> "slack", message |-> m, taken |-> FALSE]
      BY <1>4 DEF A!SlackAnswered, A!SendDailySummary, A!SendAlert, A!Suppress, A!Request
    <3>2. CASE posting' = A!Nobody
      BY <3>2 DEF A!Nobody
    <3>3. ASSUME NEW m \in Announced \cup {Idle},
                 posting' = [by |-> "slack", message |-> m, taken |-> FALSE]
          PROVE  /\ posting' \in [by : {"manager", "slack", Idle}, message : Announced \cup {Idle}, taken : BOOLEAN]
                 /\ posting'.by # "manager"
      BY <3>3
    <3> QED
      BY <3>1, <3>2, <3>3
  <2> QED
    BY <1>1, <2>1, <2>2
<1>5. ASSUME NEW m \in Announced, A!Send(m) PROVE ManagerInv'
  <2>1. /\ posting' = [by |-> "manager", message |-> m, taken |-> FALSE]
        /\ UNCHANGED <<now, sentAt, accepted>>
        /\ ~ (m \in DOMAIN sentAt /\ now - sentAt[m] < Cooldown)
    BY <1>5 DEF A!Send, A!Request, A!Duplicate
  <2>2. m \in DOMAIN sentAt => now - sentAt[m] >= Cooldown
    BY <2>1
  <2> QED
    BY <2>1, <2>2 DEF SpacedCopies
<1>6. CASE A!Taken
  <2> DEFINE m == posting.message
             copies == accepted[m]
             l == Len(copies)
             c == [at |-> now, heard |-> FALSE]
  <2>1. /\ m \in Announced /\ posting.by = "manager" /\ UNCHANGED <<now, sentAt>>
        /\ posting' = [posting EXCEPT !.taken = TRUE]
        /\ accepted' = [accepted EXCEPT ![m] = Append(copies, c)]
    BY <1>6 DEF A!Taken
  <2>2. c \in Copies /\ copies \in Seq(Copies) /\ l \in Nat /\ c.at = now /\ ~ c.heard
    BY <2>1 DEF Copies
  <2>3. /\ accepted' \in [Announced -> Seq(Copies)] /\ accepted'[m] = Append(copies, c)
        /\ \A k \in Announced \ {m} : accepted'[k] = accepted[k]
    BY <2>1, <2>2, CopyAppended
  <2>4. /\ \A i \in 1 .. l : copies[i].at <= now
        /\ copies # <<>> /\ copies[l].heard => m \in DOMAIN sentAt /\ sentAt[m] >= copies[l].at
        /\ m \in DOMAIN sentAt => now - sentAt[m] >= Cooldown /\ sentAt[m] \in Nat
        /\ SpacedCopies(copies)
    BY <2>1
  <2>5. \A i \in 1 .. l : copies[i] \in Copies
    BY <2>2, CopyIs
  <2>6. /\ posting' \in [by : {"manager", "slack", Idle}, message : Announced \cup {Idle}, taken : BOOLEAN]
        /\ posting'.by = "manager" /\ posting'.message = m
    BY <2>1
  <2> HIDE DEF m, copies, l, c
  <2>7. /\ Append(copies, c) # <<>> /\ Len(Append(copies, c)) = l + 1 /\ Append(copies, c)[l + 1] = c
        /\ \A i \in 1 .. l : Append(copies, c)[i] = copies[i]
    BY <2>2, CopyAppended DEF l
  <2>8. \A i \in 1 .. Len(Append(copies, c)) : Append(copies, c)[i].at <= now
    <3> TAKE i \in 1 .. Len(Append(copies, c))
    <3>1. i \in 1 .. l \/ i = l + 1
      BY <2>2, <2>7
    <3> QED
      BY <2>2, <2>4, <2>7, <3>1
  <2>9. SpacedCopies(Append(copies, c))
    <3> SUFFICES ASSUME NEW i \in 2 .. Len(Append(copies, c)), Append(copies, c)[i - 1].heard
                 PROVE  Append(copies, c)[i].at - Append(copies, c)[i - 1].at >= Cooldown
      BY DEF SpacedCopies
    <3>1. CASE i \in 2 .. l
      <4>1. i \in 1 .. l /\ i - 1 \in 1 .. l
        BY <2>2, <3>1
      <4>2. copies[i - 1].heard => copies[i].at - copies[i - 1].at >= Cooldown
        BY <2>4, <3>1 DEF SpacedCopies, l
      <4> QED
        BY <2>7, <4>1, <4>2
    <3>2. CASE i = l + 1
      <4>1. l \in 1 .. l /\ i - 1 = l /\ copies # <<>>
        BY <2>2, <2>7, <3>2 DEF l
      <4>2. copies[l].heard /\ copies[l].at \in Nat
        BY <2>5, <2>7, <4>1 DEF Copies
      <4>3. sentAt[m] >= copies[l].at /\ now - sentAt[m] >= Cooldown /\ sentAt[m] \in Nat
        BY <2>4, <4>1, <4>2
      <4>4. now - copies[l].at >= Cooldown
        BY <4>2, <4>3
      <4> QED
        BY <2>2, <2>7, <3>2, <4>1, <4>4
    <3> QED
      BY <2>2, <2>7, <3>1, <3>2
  <2>10. \A k \in Announced : /\ \A i \in 1 .. Len(accepted'[k]) : accepted'[k][i].at <= now
                              /\ SpacedCopies(accepted'[k])
                              /\ accepted'[k] # <<>> /\ accepted'[k][Len(accepted'[k])].heard =>
                                   k \in DOMAIN sentAt /\ sentAt[k] >= accepted'[k][Len(accepted'[k])].at
    <3> TAKE k \in Announced
    <3>1. CASE k = m
      <4>1. accepted'[k] = Append(copies, c)
        BY <2>3, <3>1
      <4>2. Append(copies, c)[Len(Append(copies, c))] = c /\ ~ c.heard
        BY <2>2, <2>7
      <4> QED
        BY <2>8, <2>9, <4>1, <4>2
    <3>2. CASE k # m
      <4>1. accepted'[k] = accepted[k]
        BY <2>3, <3>2
      <4> QED
        BY <4>1
    <3> QED
      BY <3>1, <3>2
  <2> QED
    BY <2>1, <2>3, <2>6, <2>7, <2>10 DEF m
<1>7. CASE A!Answered
  <2> DEFINE m == posting.message
  <2>1. m \in Announced /\ posting' = A!Nobody /\ posting.by = "manager" /\ UNCHANGED now
    BY <1>7 DEF A!Answered
  <2>2. /\ posting' \in [by : {"manager", "slack", Idle}, message : Announced \cup {Idle}, taken : BOOLEAN]
        /\ posting'.by # "manager"
    BY <2>1 DEF A!Nobody
  <2>3. CASE UNCHANGED <<sentAt, accepted>>
    BY <2>1, <2>2, <2>3, <1>1
  <2>4. CASE /\ posting.taken
             /\ sentAt' = [k \in DOMAIN sentAt \cup {m} |-> IF k = m THEN now ELSE sentAt[k]]
             /\ accepted' = [accepted EXCEPT ![m] = A!Heard(accepted[m])]
    <3> DEFINE copies == accepted[m]
               l == Len(copies)
               h == A!Heard(copies)
    <3>1. copies \in Seq(Copies) /\ copies # <<>> /\ l \in Nat \ {0} /\ l \in 1 .. l
      BY <2>1, <2>4
    <3>2. \A i \in 1 .. l : copies[i] \in Copies /\ copies[i].at <= now /\ copies[i].at \in Nat
      BY <2>1, <3>1, CopyIs
    <3>3. SpacedCopies(copies)
      BY <2>1
    <3>4. /\ DOMAIN sentAt' = DOMAIN sentAt \cup {m} /\ sentAt'[m] = now
          /\ \A k \in DOMAIN sentAt \ {m} : sentAt'[k] = sentAt[k]
          /\ sentAt' \in [DOMAIN sentAt' -> Nat]
      BY <2>4
    <3> HIDE DEF m
    <3>5. /\ h \in Seq(Copies) /\ Len(h) = l
          /\ \A i \in 1 .. l : h[i].at = copies[i].at /\ (i # l => h[i] = copies[i])
      <4>1. h = [copies EXCEPT ![l] = [copies[l] EXCEPT !.heard = TRUE]]
        BY DEF A!Heard
      <4> HIDE DEF h, copies, l
      <4>2. [copies[l] EXCEPT !.heard = TRUE] \in Copies /\ [copies[l] EXCEPT !.heard = TRUE].at = copies[l].at
        BY <3>1, <3>2 DEF Copies
      <4> QED
        BY <3>1, <4>1, <4>2 DEF l
    <3>6. accepted' \in [Announced -> Seq(Copies)] /\ accepted'[m] = h
          /\ \A k \in Announced \ {m} : accepted'[k] = accepted[k]
      BY <2>1, <2>4, <3>5
    <3> HIDE DEF h, copies, l
    <3>7. SpacedCopies(h)
      <4> SUFFICES ASSUME NEW i \in 2 .. l, h[i - 1].heard
                   PROVE  h[i].at - h[i - 1].at >= Cooldown
        BY <3>5 DEF SpacedCopies
      <4>1. i \in 1 .. l /\ i - 1 \in 1 .. l /\ i - 1 # l
        BY <3>1
      <4>2. copies[i - 1].heard => copies[i].at - copies[i - 1].at >= Cooldown
        BY <3>3 DEF SpacedCopies, l
      <4> QED
        BY <3>5, <4>1, <4>2
    <3>8. \A k \in Announced : /\ \A i \in 1 .. Len(accepted'[k]) : accepted'[k][i].at <= now
                               /\ SpacedCopies(accepted'[k])
                               /\ accepted'[k] # <<>> /\ accepted'[k][Len(accepted'[k])].heard =>
                                    k \in DOMAIN sentAt' /\ sentAt'[k] >= accepted'[k][Len(accepted'[k])].at
      <4> TAKE k \in Announced
      <4>1. CASE k = m
        BY <3>1, <3>2, <3>4, <3>5, <3>6, <3>7, <4>1
      <4>2. CASE k # m
        <5>1. accepted'[k] = accepted[k]
          BY <3>6, <4>2
        <5> QED
          BY <3>4, <4>2, <5>1
      <4> QED
        BY <4>1, <4>2
    <3> QED
      BY <2>1, <2>2, <3>4, <3>6, <3>8
  <2> QED
    BY <1>7, <2>3, <2>4 DEF A!Answered
<1> QED
  BY <1>2, <1>3, <1>4, <1>5, <1>6, <1>7, AlertsMove DEF A!ManagerNext, A!SlackNext

\* A new window starts once the old one is a cooldown old.
LEMMA WindowResets ==
    ASSUME SlackInv
    PROVE  /\ WindowInv(A!MaybeReset.start, A!MaybeReset.bits, attempts)
           /\ A!MaybeReset.start <= now /\ now < A!MaybeReset.start + Cooldown
<1>1. /\ now \in Nat /\ windowStart \in Nat /\ windowStart <= now /\ Cooldown \in Nat \ {0}
      /\ attempts \in [Sendable -> Seq(Nat)]
      /\ \A t \in Sendable : Len(attempts[t]) \in Nat
      /\ \A t \in Sendable : \A i \in 1 .. Len(attempts[t]) : attempts[t][i] \in Nat
  BY AlertFacts DEF SlackInv, WindowInv
<1>2. CASE now - windowStart < Cooldown
  <2>1. A!MaybeReset.start = windowStart /\ A!MaybeReset.bits = bits
    BY <1>1, <1>2 DEF A!MaybeReset
  <2> QED
    BY <1>1, <1>2, <2>1 DEF SlackInv
<1>3. CASE now - windowStart >= Cooldown
  <2>1. A!MaybeReset.start = now /\ A!MaybeReset.bits = {}
    BY <1>3 DEF A!MaybeReset
  <2>2. \A t \in Sendable : \A i \in 1 .. Len(attempts[t]) : attempts[t][i] < now
    <3> TAKE t \in Sendable
    <3> TAKE i \in 1 .. Len(attempts[t])
    <3>1. attempts[t][i] < windowStart + Cooldown
      BY DEF SlackInv, WindowInv
    <3> QED
      BY <1>1, <1>3, <3>1
  <2>3. InWindow(now, attempts) = {}
    BY <1>1, <2>2 DEF InWindow
  <2>4. \A t \in Sendable : \A i \in 2 .. Len(attempts[t]) : attempts[t][i - 1] + Cooldown <= now
    <3> TAKE t \in Sendable
    <3> TAKE i \in 2 .. Len(attempts[t])
    <3>1. i \in 1 .. Len(attempts[t]) /\ i - 1 \in 1 .. Len(attempts[t]) /\ i - 1 < Len(attempts[t])
      BY <1>1
    <3>2. attempts[t][i - 1] < windowStart
      BY <3>1 DEF SlackInv, WindowInv
    <3> QED
      BY <1>1, <1>3, <3>1, <3>2
  <2>5. \A t \in Sendable : \A i \in 1 .. Len(attempts[t]) : attempts[t][i] < now + Cooldown
    BY <1>1, <2>2
  <2>6. \A t \in Sendable : \A i \in 3 .. Len(attempts[t]) : attempts[t][i] - attempts[t][i - 2] >= Cooldown
    BY DEF SlackInv, WindowInv
  <2> HIDE DEF A!MaybeReset
  <2>7. WindowInv(now, {}, attempts)
    BY <1>1, <2>2, <2>3, <2>4, <2>5, <2>6 DEF WindowInv
  <2> QED
    BY <1>1, <2>1, <2>7
<1> QED
  BY <1>1, <1>2, <1>3

\* A text whose bits are not all set is attempted in this window for the first time.
LEMMA TextGoesOut ==
    ASSUME NEW ws, NEW bs, NEW at, WindowInv(ws, bs, at), now \in Nat, ws <= now,
           now < ws + Cooldown, NEW t \in Sendable, ~ (Filter[t] \subseteq bs)
    PROVE  WindowInv(ws, bs \cup Filter[t], [at EXCEPT ![t] = Append(@, now)])
<1> DEFINE len == Len(at[t])
           after == [at EXCEPT ![t] = Append(@, now)]
<1>1. /\ ws \in Nat /\ Cooldown \in Nat \ {0} /\ at \in [Sendable -> Seq(Nat)] /\ len \in Nat
      /\ \A i \in 1 .. len : at[t][i] \in Nat
  BY AlertFacts DEF WindowInv
<1>2. t \notin InWindow(ws, at)
  BY DEF WindowInv
<1>3. \A i \in 1 .. len : at[t][i] < ws
  BY <1>1, <1>2 DEF InWindow
<1>4. /\ after \in [Sendable -> Seq(Nat)] /\ after[t] = Append(at[t], now)
      /\ \A u \in Sendable \ {t} : after[u] = at[u]
  BY <1>1
<1>5. Len(after[t]) = len + 1 /\ after[t][len + 1] = now /\ \A i \in 1 .. len : after[t][i] = at[t][i]
  BY <1>1, <1>4
<1> HIDE DEF after, len
<1>6. ASSUME NEW u \in Sendable, NEW i \in 1 .. Len(after[u])
      PROVE  after[u][i] < ws + Cooldown /\ (i < Len(after[u]) => after[u][i] < ws)
  <2>1. CASE u = t
    <3>1. i \in 1 .. len \/ i = len + 1
      BY <1>1, <1>5, <1>6, <2>1
    <3> QED
      BY <1>1, <1>3, <1>5, <2>1, <3>1
  <2>2. CASE u # t
    BY <1>4, <2>2 DEF WindowInv
  <2> QED
    BY <2>1, <2>2
<1>7. ASSUME len >= 2 PROVE at[t][len - 1] + Cooldown <= ws
  <2>1. len \in 2 .. len /\ len \in 1 .. len
    BY <1>1, <1>7
  <2>2. at[t][len] < ws
    BY <1>3, <2>1
  <2> QED
    BY <2>1, <2>2 DEF WindowInv, len
<1>8. ASSUME NEW u \in Sendable, NEW i \in 2 .. Len(after[u]), after[u][i] < ws
      PROVE  after[u][i - 1] + Cooldown <= ws
  <2>1. CASE u = t
    <3>1. i # len + 1
      BY <1>1, <1>5, <1>8, <2>1
    <3>2. i \in 2 .. len /\ i \in 1 .. len /\ i - 1 \in 1 .. len
      BY <1>1, <1>5, <2>1, <3>1
    <3>3. at[t][i] < ws
      BY <1>3, <3>2
    <3>4. at[t][i - 1] + Cooldown <= ws
      BY <3>2, <3>3 DEF WindowInv, len
    <3> QED
      BY <1>5, <2>1, <3>2, <3>4
  <2>2. CASE u # t
    BY <1>4, <1>8, <2>2 DEF WindowInv
  <2> QED
    BY <2>1, <2>2
<1>9. ASSUME NEW u \in Sendable, NEW i \in 3 .. Len(after[u])
      PROVE  after[u][i] - after[u][i - 2] >= Cooldown
  <2>1. CASE u = t /\ i = len + 1
    <3>1. len >= 2 /\ len - 1 \in 1 .. len /\ i - 2 = len - 1
      BY <1>1, <1>5, <2>1
    <3>2. at[t][len - 1] + Cooldown <= ws /\ at[t][len - 1] \in Nat
      BY <1>1, <1>7, <3>1
    <3>3. after[t][len + 1] = now /\ after[t][i - 2] = at[t][len - 1]
      BY <1>5, <3>1
    <3> QED
      BY <1>1, <2>1, <3>2, <3>3
  <2>2. CASE u = t /\ i # len + 1
    <3>1. i \in 3 .. len /\ i \in 1 .. len /\ i - 2 \in 1 .. len
      BY <1>1, <1>5, <2>2
    <3>2. at[t][i] - at[t][i - 2] >= Cooldown
      BY <3>1 DEF WindowInv, len
    <3> QED
      BY <1>5, <2>2, <3>1, <3>2
  <2>3. CASE u # t
    BY <1>4, <2>3 DEF WindowInv
  <2> QED
    BY <2>1, <2>2, <2>3
<1>10. InWindow(ws, after) = InWindow(ws, at) \cup {t}
  <2>1. t \in InWindow(ws, after)
    <3>1. len + 1 \in 1 .. Len(after[t]) /\ after[t][len + 1] >= ws
      BY <1>1, <1>5
    <3> QED
      BY <3>1 DEF InWindow
  <2>2. \A u \in Sendable \ {t} : u \in InWindow(ws, after) <=> u \in InWindow(ws, at)
    BY <1>4 DEF InWindow
  <2>3. InWindow(ws, after) \subseteq Sendable /\ InWindow(ws, at) \subseteq Sendable
    BY DEF InWindow
  <2> QED
    BY <2>1, <2>2, <2>3
<1>11. bs \cup Filter[t] = UNION {Filter[u] : u \in InWindow(ws, after)}
  <2>1. bs = UNION {Filter[u] : u \in InWindow(ws, at)}
    BY DEF WindowInv
  <2> HIDE DEF InWindow
  <2> QED
    BY <1>10, <2>1
<1> QED
  BY <1>1, <1>4, <1>6, <1>8, <1>9, <1>11 DEF WindowInv, after

LEMMA SlackKept == SlackInv /\ [LNext]_lvars => SlackInv'
<1> SUFFICES ASSUME SlackInv, [LNext]_lvars PROVE SlackInv'
  OBVIOUS
<1> DEFINE start == A!MaybeReset.start
           clean == A!MaybeReset.bits
<1>1. now \in Nat
  BY DEF SlackInv
<1>2. ASSUME UNCHANGED <<bits, windowStart, attempts>>, now' \in Nat, now' >= now PROVE SlackInv'
  <2>1. windowStart \in Nat
    BY DEF SlackInv, WindowInv
  <2>2. WindowInv(windowStart', bits', attempts')
    BY <1>2 DEF SlackInv
  <2> QED
    BY <1>1, <1>2, <2>1, <2>2 DEF SlackInv
<1>3. CASE UNCHANGED alerts
  BY <1>1, <1>2, <1>3 DEF alerts
<1>4. CASE A!PassTime
  BY <1>1, <1>2, <1>4 DEF A!PassTime
<1>5. CASE A!Taken \/ A!Answered \/ A!SlackAnswered \/ A!SendDailySummary \/ \E m \in Announced : A!Send(m)
  BY <1>1, <1>2, <1>5 DEF A!Taken, A!Answered, A!SlackAnswered, A!SendDailySummary, A!Send
<1>6. WindowInv(start, clean, attempts) /\ start <= now /\ now < start + Cooldown
  BY WindowResets
<1> HIDE DEF start, clean
<1>7. ASSUME NEW m \in Announced, A!Suppress(m) PROVE SlackInv'
  <2>1. bits' = clean /\ windowStart' = start /\ UNCHANGED <<now, attempts>>
    BY <1>7 DEF A!Suppress, start, clean
  <2> QED
    BY <1>1, <1>6, <2>1 DEF SlackInv
<1>8. ASSUME NEW m \in Announced, A!SendAlert(m) PROVE SlackInv'
  <2> DEFINE t == Texts[m]
  <2>1. /\ t \in Sendable /\ ~ (Filter[t] \subseteq clean) /\ bits' = clean \cup Filter[t]
        /\ windowStart' = start /\ attempts' = [attempts EXCEPT ![t] = Append(@, now)]
        /\ UNCHANGED now
    BY <1>8 DEF A!SendAlert, start, clean, Sendable
  <2> HIDE DEF t
  <2>2. WindowInv(start, clean \cup Filter[t], [attempts EXCEPT ![t] = Append(@, now)])
    BY <1>1, <1>6, <2>1, TextGoesOut
  <2> QED
    BY <1>1, <1>6, <2>1, <2>2 DEF SlackInv
<1> QED
  BY <1>3, <1>4, <1>5, <1>7, <1>8, AlertsMove DEF A!ManagerNext, A!SlackNext

\* Alerts do not flood a channel (alerts.py:118-176, slack.py:113-180): for any messages, cooldown and
\* clock, with POSTs that take time and fail, before or after the webhook took the message, the
\* webhook takes the next copy after one whose answer arrived no sooner than a
\* cooldown later, and a text is attempted twice in a cooldown at most.
THEOREM AlertsSpacedHolds == LSpec => []AlertsSpaced
<1>1. ManagerInv /\ SlackInv => AlertsSpaced
  <2> SUFFICES ASSUME ManagerInv, SlackInv PROVE A!AlertsSpaced
    BY DEF AlertsSpaced
  <2>1. attempts \in [Sendable -> Seq(Nat)] /\ DOMAIN attempts = Sendable
        /\ \A t \in Sendable : DOMAIN attempts[t] = 1 .. Len(attempts[t])
    BY DEF SlackInv, WindowInv
  <2>2. {u \in DOMAIN attempts : \E i \in DOMAIN attempts[u] : attempts[u][i] >= windowStart}
           = InWindow(windowStart, attempts)
    BY <2>1 DEF InWindow
  <2> QED
    BY <2>1, <2>2 DEF ManagerInv, SpacedCopies, SlackInv, WindowInv, A!AlertsSpaced
<1> QED
  BY <1>1, AlertsInit, ManagerKept, SlackKept, PTL DEF LSpec

(***************************************************************************)
(* Evidence                                                                *)
(***************************************************************************)

LEMMA ChainMoves == ASSUME [LNext]_lvars PROVE E!ENext \/ UNCHANGED chain
BY DEF LNext, lvars

HashBefore(c, i) == IF i = 1 THEN E!Genesis ELSE c[i - 1].hash

\* What create() returns, up to a time.
Made(a, t) ==
    /\ a = [fields |-> a.fields, prev |-> a.prev, time |-> a.time, hash |-> a.hash]
    /\ a.hash = E!Hash(a.fields, a.prev, a.time)
    /\ a.time \in 1 .. t

\* The list as append() alone leaves it, and what is about to be appended.
Genuine(c, waiting, t) ==
    /\ \A i \in 1 .. Len(c) : Made(c[i], t) /\ c[i].prev = HashBefore(c, i)
    /\ \A i, j \in 1 .. Len(c) : c[i].time = c[j].time => i = j
    /\ \A a \in waiting : Made(a, t) /\ \A i \in 1 .. Len(c) : a.time # c[i].time
    /\ \A a, b \in waiting : a.time = b.time => a = b

\* The two sides of verify_chain().
Valid(c) == \A i \in 1 .. Len(c) : E!Verify(c[i], HashBefore(c, i))

Blank(a) == [a EXCEPT !.fields = <<>>]
Alike(a, b) == Blank(a) = Blank(b) /\ E!FlattenSeq(a.fields) = E!FlattenSeq(b.fields)
Tells(c, h) == Len(c) = Len(h) /\ \A i \in 1 .. Len(c) : Alike(h[i], c[i])

ChainInv ==
    /\ clock \in Nat /\ edited \in BOOLEAN
    /\ \E U : artifacts \in Seq(U) /\ history \in Seq(U)
    /\ ~ edited => artifacts = history /\ Genuine(artifacts, pending, clock)
    /\ Valid(artifacts) => Tells(artifacts, history)

LEMMA GenuineValid ==
    ASSUME NEW c, NEW waiting, NEW t, Genuine(c, waiting, t) PROVE Valid(c)
BY DEF Genuine, Valid, Made, E!Verify

LEMMA SameTells == \A c : Tells(c, c)
BY DEF Tells, Alike

LEMMA ChainInit == LInit => ChainInv
<1> SUFFICES ASSUME LInit PROVE ChainInv
  OBVIOUS
<1>1. E!EInit
  BY DEF LInit
<1>2. artifacts \in Seq({}) /\ history \in Seq({}) /\ Len(artifacts) = 0
  BY <1>1 DEF E!EInit
<1>3. Genuine(artifacts, pending, clock)
  BY <1>1, <1>2 DEF E!EInit, Genuine
<1> QED
  BY <1>1, <1>2, <1>3, SameTells DEF E!EInit, ChainInv

LEMMA CreateKept == ASSUME ChainInv, NEW f, E!Create(f) PROVE ChainInv'
<1> DEFINE a == [fields |-> f, prev |-> E!LastHash, time |-> clock + 1,
                 hash |-> E!Hash(f, E!LastHash, clock + 1)]
<1>1. /\ clock' = clock + 1 /\ pending' = pending \cup {a}
      /\ artifacts' = artifacts /\ history' = history /\ edited' = edited
  BY DEF E!Create
<1>2. clock \in Nat /\ clock' \in Nat
  BY <1>1 DEF ChainInv
<1>3. Made(a, clock') /\ a.time = clock + 1
  BY <1>1, <1>2 DEF Made
<1>4. \A b : Made(b, clock) => Made(b, clock') /\ b.time # clock + 1
  BY <1>1, <1>2 DEF Made
<1> HIDE DEF a
<1>5. Genuine(artifacts, pending, clock) => Genuine(artifacts, pending', clock')
  BY <1>1, <1>3, <1>4 DEF Genuine
<1> QED
  BY <1>1, <1>2, <1>5 DEF ChainInv

\* Of a list with one more at the end.
LEMMA LongerTells ==
    ASSUME NEW U, NEW c \in Seq(U), NEW h \in Seq(U), NEW a,
           Valid(c) => Tells(c, h), Valid(Append(c, a))
    PROVE  Tells(Append(c, a), Append(h, a))
<1>1. c \in Seq(U \cup {a}) /\ h \in Seq(U \cup {a}) /\ a \in U \cup {a}
  BY SeqMonotonic
<1>2. /\ Len(c) \in Nat /\ Len(h) \in Nat
      /\ Len(Append(c, a)) = Len(c) + 1 /\ Len(Append(h, a)) = Len(h) + 1
      /\ Append(c, a)[Len(c) + 1] = a /\ Append(h, a)[Len(h) + 1] = a
      /\ \A i \in 1 .. Len(c) : Append(c, a)[i] = c[i]
      /\ \A i \in 1 .. Len(h) : Append(h, a)[i] = h[i]
  BY <1>1
<1>3. Valid(c)
  <2> SUFFICES ASSUME NEW i \in 1 .. Len(c) PROVE E!Verify(c[i], HashBefore(c, i))
    BY DEF Valid
  <2>1. i \in 1 .. Len(Append(c, a)) /\ (i # 1 => i - 1 \in 1 .. Len(c))
    BY <1>2
  <2>2. HashBefore(Append(c, a), i) = HashBefore(c, i)
    BY <1>2, <2>1 DEF HashBefore
  <2> QED
    BY <1>2, <2>1, <2>2 DEF Valid
<1>4. Tells(c, h)
  BY <1>3
<1>5. ASSUME NEW i \in 1 .. Len(c) + 1 PROVE Alike(Append(h, a)[i], Append(c, a)[i])
  <2>1. CASE i \in 1 .. Len(c)
    BY <1>2, <1>4, <2>1 DEF Tells
  <2>2. CASE i = Len(c) + 1
    BY <1>2, <1>4, <2>2 DEF Tells, Alike
  <2>3. i \in 1 .. Len(c) \/ i = Len(c) + 1
    <3>1. Len(c) \in Nat
      BY <1>2
    <3> QED
      BY <3>1
  <2> QED
    BY <2>1, <2>2, <2>3
<1> QED
  BY <1>2, <1>4, <1>5 DEF Tells

LEMMA AppendKept == ASSUME ChainInv, NEW a \in pending, E!AppendArtifact(a) PROVE ChainInv'
<1>1. pending' = pending \ {a} /\ clock' = clock /\ edited' = edited
  BY DEF E!AppendArtifact
<1>2. PICK U : artifacts \in Seq(U) /\ history \in Seq(U)
  BY DEF ChainInv
<1>3. CASE a.prev # E!LastHash
  <2>1. artifacts' = artifacts /\ history' = history
    BY <1>3 DEF E!AppendArtifact
  <2>2. Genuine(artifacts, pending, clock) => Genuine(artifacts, pending', clock)
    BY <1>1 DEF Genuine
  <2> QED
    BY <1>1, <2>1, <2>2 DEF ChainInv
<1>4. CASE a.prev = E!LastHash
  <2>1. artifacts' = Append(artifacts, a) /\ history' = Append(history, a)
    BY <1>4 DEF E!AppendArtifact
  <2>2. artifacts \in Seq(U \cup {a}) /\ history \in Seq(U \cup {a})
    BY <1>2, SeqMonotonic
  <2>3. artifacts' \in Seq(U \cup {a}) /\ history' \in Seq(U \cup {a})
    BY <2>1, <2>2
  <2>4. Valid(artifacts') => Tells(artifacts', history')
    BY <1>2, <2>1, LongerTells DEF ChainInv
  <2>5. ASSUME ~ edited PROVE artifacts' = history' /\ Genuine(artifacts', pending', clock)
    <3>1. artifacts = history /\ Genuine(artifacts, pending, clock)
      BY <2>5 DEF ChainInv
    <3>2. /\ Len(artifacts) \in Nat /\ Len(artifacts') = Len(artifacts) + 1
          /\ artifacts'[Len(artifacts) + 1] = a
          /\ \A i \in 1 .. Len(artifacts) : artifacts'[i] = artifacts[i]
      BY <2>1, <2>2
    <3>3. \A i \in 1 .. Len(artifacts') : i \in 1 .. Len(artifacts) \/ i = Len(artifacts) + 1
      BY <3>2
    <3>4. ASSUME NEW i \in 1 .. Len(artifacts')
          PROVE  Made(artifacts'[i], clock) /\ artifacts'[i].prev = HashBefore(artifacts', i)
      <4>1. CASE i \in 1 .. Len(artifacts)
        <5>1. HashBefore(artifacts', i) = HashBefore(artifacts, i)
          <6>1. i # 1 => i - 1 \in 1 .. Len(artifacts)
            BY <3>2, <4>1
          <6> QED
            BY <3>2, <6>1 DEF HashBefore
        <5> QED
          BY <3>1, <3>2, <4>1, <5>1 DEF Genuine
      <4>2. CASE i = Len(artifacts) + 1
        <5>1. HashBefore(artifacts', i) = E!LastHash
          <6>1. CASE artifacts = <<>>
            BY <3>2, <4>2, <6>1 DEF HashBefore, E!LastHash
          <6>2. CASE artifacts # <<>>
            <7>1. Len(artifacts) # 0
              BY <2>2, <6>2
            <7>2. i # 1 /\ i - 1 = Len(artifacts) /\ i - 1 \in 1 .. Len(artifacts)
              BY <3>2, <4>2, <7>1
            <7> QED
              BY <3>2, <6>2, <7>2 DEF HashBefore, E!LastHash, E!Last
          <6> QED
            BY <6>1, <6>2
        <5> QED
          BY <1>4, <3>1, <3>2, <4>2, <5>1 DEF Genuine
      <4> QED
        BY <3>3, <4>1, <4>2
    <3>5. \A i, j \in 1 .. Len(artifacts') : artifacts'[i].time = artifacts'[j].time => i = j
      BY <3>1, <3>2, <3>3 DEF Genuine
    <3>6. \A b \in pending' : Made(b, clock) /\ \A i \in 1 .. Len(artifacts') : b.time # artifacts'[i].time
      BY <1>1, <3>1, <3>2, <3>3 DEF Genuine
    <3>7. \A b, d \in pending' : b.time = d.time => b = d
      BY <1>1, <3>1 DEF Genuine
    <3> QED
      BY <2>1, <3>1, <3>4, <3>5, <3>6, <3>7 DEF Genuine
  <2> QED
    BY <1>1, <2>3, <2>4, <2>5 DEF ChainInv
<1> QED
  BY <1>3, <1>4

\* An artifact that is missing before the last one shows in the link of the next.
LEMMA LossShows ==
    ASSUME NEW U, NEW c \in Seq(U), NEW waiting, NEW t \in Nat, Genuine(c, waiting, t),
           NEW i \in 1 .. Len(c), i # Len(c)
    PROVE  ~ Valid(E!RemoveAt(c, i))
<1> DEFINE d == E!RemoveAt(c, i)
<1>1. /\ Len(c) \in Nat /\ i + 1 \in 1 .. Len(c)
      /\ Len(d) = Len(c) - 1 /\ i \in 1 .. Len(d) /\ d[i] = c[i + 1]
      /\ \A k \in 1 .. i - 1 : d[k] = c[k]
  <2>1. Len(c) \in Nat /\ i + 1 \in 1 .. Len(c)
    OBVIOUS
  <2> DEFINE l == SubSeq(c, 1, i - 1)
             r == SubSeq(c, i + 1, Len(c))
  <2>2. /\ l \in Seq(U) /\ Len(l) = i - 1 /\ \A k \in 1 .. i - 1 : l[k] = c[k]
        /\ r \in Seq(U) /\ Len(r) = Len(c) - i /\ r[1] = c[i + 1]
    BY <2>1
  <2> HIDE DEF l, r
  <2>3. d = l \o r
    BY DEF E!RemoveAt, l, r
  <2> HIDE DEF d
  <2>4. /\ Len(d) = Len(l) + Len(r) /\ \A k \in 1 .. Len(l) : d[k] = l[k]
        /\ \A k \in Len(l) + 1 .. Len(l) + Len(r) : d[k] = r[k - Len(l)]
    <3>1. l \in Seq(U) /\ r \in Seq(U)
      BY <2>2
    <3>2. Len(l) \in Nat /\ Len(r) \in Nat
      BY <3>1
    <3>3. \A k \in 1 .. Len(l) + Len(r) : d[k] = IF k <= Len(l) THEN l[k] ELSE r[k - Len(l)]
      BY <2>3, <3>1, ConcatProperties
    <3>4. Len(d) = Len(l) + Len(r)
      BY <2>3, <3>1, ConcatProperties
    <3> QED
      BY <3>2, <3>3, <3>4
  <2>5. i \in Len(l) + 1 .. Len(l) + Len(r) /\ i - Len(l) = 1
    BY <2>1, <2>2
  <2>6. d[i] = c[i + 1]
    BY <2>2, <2>4, <2>5
  <2>7. Len(d) = Len(c) - 1 /\ i \in 1 .. Len(d)
    BY <2>1, <2>2, <2>4
  <2> QED
    BY <2>1, <2>2, <2>4, <2>6, <2>7
<1> HIDE DEF d
<1>2. d[i].prev = c[i].hash
  BY <1>1 DEF Genuine, HashBefore
<1>3. c[i].hash = E!Hash(c[i].fields, c[i].prev, c[i].time) /\ c[i].time \in 1 .. t
  BY DEF Genuine, Made
<1>4. HashBefore(d, i) # c[i].hash
  <2>1. CASE i = 1
    BY <1>3, <2>1 DEF HashBefore, E!Genesis, E!Hash
  <2>2. CASE i # 1
    <3>1. i - 1 \in 1 .. Len(c) /\ i - 1 # i /\ d[i - 1] = c[i - 1]
      BY <1>1, <2>2
    <3>2. /\ c[i - 1].hash = E!Hash(c[i - 1].fields, c[i - 1].prev, c[i - 1].time)
          /\ c[i - 1].time # c[i].time
      BY <3>1 DEF Genuine, Made
    <3> QED
      BY <1>3, <2>2, <3>1, <3>2 DEF HashBefore, E!Hash
  <2> QED
    BY <2>1, <2>2
<1>5. ~ E!Verify(d[i], HashBefore(d, i))
  BY <1>2, <1>4 DEF E!Verify
<1> QED
  BY <1>1, <1>5 DEF Valid, d

\* So does the first of two that changed places.
LEMMA SwapShows ==
    ASSUME NEW U, NEW c \in Seq(U), NEW waiting, NEW t \in Nat, Genuine(c, waiting, t),
           NEW d \in Seq(U), Len(d) = Len(c), NEW i \in 1 .. Len(c), NEW j \in 1 .. Len(c), i < j,
           d[i] = c[j], \A k \in 1 .. i - 1 : d[k] = c[k]
    PROVE  ~ Valid(d)
<1>1. /\ Len(c) \in Nat /\ j # 1 /\ j - 1 \in 1 .. Len(c) /\ i \in 1 .. Len(d)
      /\ (i # 1 => i - 1 \in 1 .. i - 1 /\ i - 1 \in 1 .. Len(c) /\ i - 1 # j - 1)
  OBVIOUS
<1>2. d[i].prev = c[j - 1].hash
  BY <1>1 DEF Genuine, HashBefore
<1>3. /\ c[j - 1].hash = E!Hash(c[j - 1].fields, c[j - 1].prev, c[j - 1].time)
      /\ c[j - 1].time \in 1 .. t
  BY <1>1 DEF Genuine, Made
<1>4. HashBefore(d, i) # c[j - 1].hash
  <2>1. CASE i = 1
    BY <1>3, <2>1 DEF HashBefore, E!Genesis, E!Hash
  <2>2. CASE i # 1
    <3>1. d[i - 1] = c[i - 1]
      BY <1>1, <2>2
    <3>2. /\ c[i - 1].hash = E!Hash(c[i - 1].fields, c[i - 1].prev, c[i - 1].time)
          /\ c[i - 1].time # c[j - 1].time
      BY <1>1, <2>2 DEF Genuine, Made
    <3> QED
      BY <1>3, <2>2, <3>1, <3>2 DEF HashBefore, E!Hash
  <2> QED
    BY <2>1, <2>2
<1>5. ~ E!Verify(d[i], HashBefore(d, i))
  BY <1>2, <1>4 DEF E!Verify
<1> QED
  BY <1>1, <1>5 DEF Valid

LEMMA EditKept == ASSUME ChainInv, ~ edited, E!Edit PROVE ChainInv'
<1> DEFINE c == artifacts
<1>1. /\ edited' = TRUE /\ pending' = pending /\ clock' = clock
      /\ history = c /\ Genuine(c, pending, clock) /\ clock \in Nat
  BY DEF E!Edit, ChainInv
<1>2. PICK U : c \in Seq(U)
  BY DEF ChainInv
<1>3. PICK i \in 1 .. Len(c) :
          \/ /\ artifacts' = E!RemoveAt(c, i)
             /\ history' = IF i = Len(c) THEN E!Front(c) ELSE c
          \/ /\ \/ \E f \in Fields : artifacts' = [c EXCEPT ![i].fields = f]
                \/ \E j \in 1 .. Len(c) : artifacts' = [c EXCEPT ![i] = c[j], ![j] = c[i]]
             /\ history' = c
  <2>1. DOMAIN c = 1 .. Len(c)
    BY <1>2
  <2> QED
    BY <1>1, <2>1 DEF E!Edit
<1>4. \A k \in 1 .. Len(c) : c[k] \in U
  BY <1>2
<1>5. /\ \E S : artifacts' \in Seq(S) /\ history' \in Seq(S)
      /\ Valid(artifacts') => Tells(artifacts', history')
  <2>1. CASE artifacts' = E!RemoveAt(c, i) /\ i = Len(c) /\ history' = E!Front(c)
    <3>1. artifacts' = SubSeq(c, 1, Len(c) - 1) \o <<>>
      BY <1>2, <2>1 DEF E!RemoveAt
    <3>2. artifacts' = history' /\ artifacts' \in Seq(U)
      BY <1>2, <2>1, <3>1 DEF E!Front
    <3> QED
      BY <3>2, SameTells
  <2>2. CASE artifacts' = E!RemoveAt(c, i) /\ i # Len(c) /\ history' = c
    <3>1. artifacts' \in Seq(U)
      BY <1>2, <2>2 DEF E!RemoveAt
    <3>2. ~ Valid(artifacts')
      BY <1>1, <1>2, <2>2, LossShows
    <3> QED
      BY <1>2, <2>2, <3>1, <3>2
  <2>3. ASSUME NEW f \in Fields, artifacts' = [c EXCEPT ![i].fields = f], history' = c
        PROVE  /\ \E S : artifacts' \in Seq(S) /\ history' \in Seq(S)
               /\ Valid(artifacts') => Tells(artifacts', history')
    <3> DEFINE a == [c[i] EXCEPT !.fields = f]
    <3>1. c \in Seq(U \cup {a}) /\ artifacts' \in Seq(U \cup {a})
      BY <1>2, <2>3, SeqMonotonic, ExceptSeq
    <3>2. /\ Len(artifacts') = Len(c) /\ artifacts'[i] = a
          /\ \A k \in 1 .. Len(c) \ {i} : artifacts'[k] = c[k]
      BY <1>2, <2>3
    <3>3. /\ c[i] = [fields |-> c[i].fields, prev |-> c[i].prev, time |-> c[i].time, hash |-> c[i].hash]
          /\ c[i].hash = E!Hash(c[i].fields, c[i].prev, c[i].time)
      BY <1>1 DEF Genuine, Made
    <3>4. a = [fields |-> f, prev |-> c[i].prev, time |-> c[i].time, hash |-> c[i].hash]
      BY <3>3
    <3>5. Blank(a) = Blank(c[i])
      BY <3>3, <3>4 DEF Blank
    <3> HIDE DEF a
    <3>6. ASSUME Valid(artifacts') PROVE Tells(artifacts', c)
      <4>1. a.hash = E!Hash(a.fields, a.prev, a.time)
        BY <3>2, <3>6 DEF Valid, E!Verify
      <4>2. E!FlattenSeq(a.fields) = E!FlattenSeq(c[i].fields)
        BY <3>3, <3>4, <4>1 DEF E!Hash
      <4>3. Alike(c[i], a)
        BY <3>5, <4>2 DEF Alike
      <4>4. \A k \in 1 .. Len(c) : Alike(c[k], artifacts'[k])
        BY <3>2, <4>3 DEF Alike
      <4> QED
        BY <3>2, <4>4 DEF Tells
    <3> QED
      BY <2>3, <3>1, <3>6
  <2>4. ASSUME NEW j \in 1 .. Len(c), artifacts' = [c EXCEPT ![i] = c[j], ![j] = c[i]], history' = c
        PROVE  /\ \E S : artifacts' \in Seq(S) /\ history' \in Seq(S)
               /\ Valid(artifacts') => Tells(artifacts', history')
    <3>1. /\ artifacts' \in Seq(U) /\ Len(artifacts') = Len(c)
          /\ artifacts'[j] = c[i] /\ artifacts'[i] = c[j]
          /\ \A k \in 1 .. Len(c) : k # i /\ k # j => artifacts'[k] = c[k]
      BY <1>2, <1>4, <2>4, ExceptSeq
    <3>2. CASE i = j
      <4>1. artifacts' = c
        BY <1>2, <2>4, <3>2
      <4> QED
        BY <1>2, <2>4, <4>1, SameTells
    <3>3. CASE i < j
      <4>1. \A k \in 1 .. i - 1 : artifacts'[k] = c[k]
        BY <1>2, <3>1, <3>3
      <4>2. ~ Valid(artifacts')
        BY <1>1, <1>2, <3>1, <3>3, <4>1, SwapShows
      <4> QED
        BY <1>2, <2>4, <3>1, <4>2
    <3>4. CASE j < i
      <4>1. \A k \in 1 .. j - 1 : artifacts'[k] = c[k]
        BY <1>2, <3>1, <3>4
      <4>2. ~ Valid(artifacts')
        BY <1>1, <1>2, <3>1, <3>4, <4>1, SwapShows
      <4> QED
        BY <1>2, <2>4, <3>1, <4>2
    <3> QED
      BY <1>2, <3>2, <3>3, <3>4
  <2> QED
    BY <1>3, <2>1, <2>2, <2>3, <2>4
<1> QED
  BY <1>1, <1>5 DEF ChainInv

LEMMA ChainKept == ChainInv /\ [LNext]_lvars => ChainInv'
<1> SUFFICES ASSUME ChainInv, [LNext]_lvars PROVE ChainInv'
  OBVIOUS
<1>1. CASE UNCHANGED chain
  BY <1>1 DEF chain, ChainInv
<1> QED
  BY <1>1, ChainMoves, CreateKept, AppendKept, EditKept DEF E!ENext

LEMMA ChainIsTold == ChainInv => E!ChainTells
<1> SUFFICES ASSUME ChainInv PROVE E!ChainTells
  OBVIOUS
<1>1. PICK U : artifacts \in Seq(U) /\ history \in Seq(U)
  BY DEF ChainInv
<1>2. DOMAIN artifacts = 1 .. Len(artifacts)
  BY <1>1
<1>3. E!VerifyChain <=> Valid(artifacts)
  BY <1>2 DEF E!VerifyChain, Valid, HashBefore
<1>4. ~ edited => Valid(artifacts) /\ artifacts = history
  BY GenuineValid DEF ChainInv
<1>5. Valid(artifacts) => Tells(artifacts, history)
  BY DEF ChainInv
<1> QED
  BY <1>2, <1>3, <1>4, <1>5 DEF E!ChainTells, Tells, Alike, Blank

(***************************************************************************)
(* Texts                                                                   *)
(***************************************************************************)

LEMMA GateFacts ==
    /\ Phrases \subseteq Seq(Int) /\ Scripts \subseteq Seq(Int) /\ Replacement \in Seq(Int)
    /\ \A p \in Phrases : p # <<>>
    /\ Q!Lowered(Replacement) # <<>> /\ Space \in Int /\ Scripts # {}
    /\ Lower \in [DOMAIN Lower -> Seq(Int)]
BY LearningAssumption DEF Q!GateAssumption

LEMMA GateMoves == ASSUME [LNext]_lvars PROVE Q!SanitizerNext \/ Q!BlacklistNext \/ UNCHANGED gate
BY DEF LNext, lvars

\* p stands in t from place i on.
Stands(p, t, i) ==
    /\ i \in 1 .. Len(t) /\ i + Len(p) - 1 <= Len(t)
    /\ \A k \in 1 .. Len(p) : t[i + k - 1] = p[k]

LEMMA StandsThere ==
    ASSUME NEW p \in Seq(Int), NEW t \in Seq(Int), NEW i \in 1 .. Len(t)
    PROVE  Q!IsPrefix(p, SubSeq(t, i, Len(t))) <=> Stands(p, t, i)
<1> DEFINE r == SubSeq(t, i, Len(t))
<1>1. /\ r \in Seq(Int) /\ Len(r) = Len(t) - i + 1 /\ Len(p) \in Nat /\ Len(t) \in Nat
      /\ \A k \in 1 .. Len(r) : r[k] = t[i + k - 1]
  OBVIOUS
<1> HIDE DEF r
<1>2. SubSeq(p, 1, Len(p)) = p
  BY <1>1
<1>3. ASSUME Len(p) <= Len(r)
      PROVE  SubSeq(p, 1, Len(p)) = SubSeq(r, 1, Len(p)) <=> \A k \in 1 .. Len(p) : r[k] = p[k]
  <2> DEFINE h == SubSeq(r, 1, Len(p))
  <2>1. h \in Seq(Int) /\ Len(h) = Len(p) /\ \A k \in 1 .. Len(p) : h[k] = r[k]
    <3>1. r \in Seq(Int) /\ Len(p) \in Nat /\ Len(r) \in Nat /\ Len(p) <= Len(r)
      BY <1>1, <1>3
    <3> HIDE DEF r
    <3>2. h \in Seq(Int) /\ Len(h) = Len(p)
      BY <3>1, SMTT(30)
    <3>3. \A k \in 1 .. Len(p) : h[k] = r[k]
      BY <3>1, SMTT(30)
    <3> QED
      BY <3>2, <3>3
  <2> HIDE DEF h
  <2>2. h = p <=> \A k \in 1 .. Len(p) : h[k] = p[k]
    BY <2>1, SeqEqual
  <2> QED
    BY <1>2, <2>1, <2>2 DEF h
<1>4. \A k \in 1 .. Len(p) : Len(p) <= Len(r) => k \in 1 .. Len(r)
  BY <1>1
<1>5. Q!IsPrefix(p, r) <=> Len(p) <= Len(r) /\ \A k \in 1 .. Len(p) : r[k] = p[k]
  BY <1>3 DEF Q!IsPrefix
<1>6. Len(p) <= Len(r) <=> i + Len(p) - 1 <= Len(t)
  BY <1>1
<1> QED
  BY <1>1, <1>4, <1>5, <1>6 DEF Stands, r

LEMMA HasIs ==
    ASSUME NEW p \in Seq(Int), NEW t \in Seq(Int)
    PROVE  Q!Has(t, p) <=> \E i \in 1 .. Len(t) : Stands(p, t, i)
BY StandsThere DEF Q!Has

LEMMA JoinIs ==
    ASSUME NEW l \in Seq(Int), NEW r \in Seq(Int)
    PROVE  /\ l \o r \in Seq(Int) /\ Len(l \o r) = Len(l) + Len(r)
           /\ \A k \in 1 .. Len(l) : (l \o r)[k] = l[k]
           /\ \A k \in Len(l) + 1 .. Len(l) + Len(r) : (l \o r)[k] = r[k - Len(l)]
<1>1. Len(l) \in Nat /\ Len(r) \in Nat
  OBVIOUS
<1>2. \A k \in 1 .. Len(l) + Len(r) : (l \o r)[k] = IF k <= Len(l) THEN l[k] ELSE r[k - Len(l)]
  BY ConcatProperties
<1>3. l \o r \in Seq(Int) /\ Len(l \o r) = Len(l) + Len(r)
  BY ConcatProperties
<1> QED
  BY <1>1, <1>2, <1>3

\* What stands in one of two texts stands in both put together.
LEMMA StandsInBoth ==
    ASSUME NEW p \in Seq(Int), NEW l \in Seq(Int), NEW r \in Seq(Int)
    PROVE  /\ Q!Has(l, p) => Q!Has(l \o r, p)
           /\ Q!Has(r, p) => Q!Has(l \o r, p)
<1> DEFINE all == l \o r
<1>1. /\ all \in Seq(Int) /\ Len(all) = Len(l) + Len(r) /\ Len(l) \in Nat /\ Len(r) \in Nat /\ Len(p) \in Nat
      /\ \A k \in 1 .. Len(l) : all[k] = l[k]
      /\ \A k \in Len(l) + 1 .. Len(l) + Len(r) : all[k] = r[k - Len(l)]
  BY JoinIs
<1> HIDE DEF all
<1>2. ASSUME NEW i \in 1 .. Len(l), Stands(p, l, i) PROVE Stands(p, all, i)
  <2>1. i + Len(p) - 1 <= Len(l) /\ \A k \in 1 .. Len(p) : l[i + k - 1] = p[k]
    BY <1>2 DEF Stands
  <2>2. \A k \in 1 .. Len(p) : i + k - 1 \in 1 .. Len(l)
    BY <1>1, <2>1
  <2>3. i \in 1 .. Len(all) /\ i + Len(p) - 1 <= Len(all)
    BY <1>1, <2>1
  <2> QED
    BY <1>1, <2>1, <2>2, <2>3 DEF Stands
<1>3. ASSUME NEW i \in 1 .. Len(r), Stands(p, r, i) PROVE Stands(p, all, Len(l) + i)
  <2>1. i + Len(p) - 1 <= Len(r) /\ \A k \in 1 .. Len(p) : r[i + k - 1] = p[k]
    BY <1>3 DEF Stands
  <2> DEFINE j == Len(l) + i
  <2>2. \A k \in 1 .. Len(p) : all[j + k - 1] = r[i + k - 1]
    <3> TAKE k \in 1 .. Len(p)
    <3>1. Len(l) \in Nat /\ Len(r) \in Nat /\ Len(p) \in Nat /\ i + Len(p) - 1 <= Len(r)
      BY <1>1, <2>1
    <3>2. j + k - 1 \in Len(l) + 1 .. Len(l) + Len(r) /\ (j + k - 1) - Len(l) = i + k - 1
      BY <3>1
    <3> HIDE DEF j
    <3> QED
      BY <1>1, <3>2
  <2>3. j \in 1 .. Len(all) /\ j + Len(p) - 1 <= Len(all)
    BY <1>1, <2>1
  <2> HIDE DEF j
  <2>4. Stands(p, all, j)
    BY <2>1, <2>2, <2>3 DEF Stands
  <2> QED
    BY <2>4 DEF j
<1>4. \A i \in 1 .. Len(l) : i \in 1 .. Len(all)
  BY <1>1
<1>5. \A i \in 1 .. Len(r) : Len(l) + i \in 1 .. Len(all)
  BY <1>1
<1>6. Q!Has(l, p) => Q!Has(all, p)
  BY <1>1, <1>2, <1>4, HasIs
<1>7. Q!Has(r, p) => Q!Has(all, p)
  BY <1>1, <1>3, <1>5, HasIs
<1> QED
  BY <1>6, <1>7 DEF all

\* What str.lower() makes of one character, and of the first characters of a text.
Small(c) == IF c \in DOMAIN Lower THEN Lower[c] ELSE <<c>>
LowsUpTo(t, z, g) == g = [k \in 0 .. z |-> IF k = 0 THEN <<>> ELSE g[k - 1] \o Small(t[k])]
Lows(t) == CHOOSE low : low = [k \in Nat |-> IF k = 0 THEN <<>> ELSE low[k - 1] \o Small(t[k])]

LEMMA SmallIs == ASSUME NEW c \in Int PROVE Small(c) \in Seq(Int)
BY GateFacts DEF Small

LEMMA LowsAt ==
    ASSUME NEW t, NEW z \in Nat, NEW g, LowsUpTo(t, z, g)
    PROVE  \A k \in 0 .. z : g[k] = IF k = 0 THEN <<>> ELSE g[k - 1] \o Small(t[k])
BY DEF LowsUpTo

LEMMA LowsExist == ASSUME NEW t, NEW z \in Nat PROVE \E g : LowsUpTo(t, z, g)
<1> DEFINE bad == {m \in Nat : ~ \E g : LowsUpTo(t, m, g)}
<1>1. SUFFICES ASSUME bad # {} PROVE FALSE
  OBVIOUS
<1>2. PICK m \in bad : \A l \in bad : m <= l
  <2>1. bad \in SUBSET Nat
    OBVIOUS
  <2> HIDE DEF bad
  <2> QED
    BY <1>1, <2>1, Least
<1>3. CASE m = 0
  <2>1. LowsUpTo(t, 0, [k \in 0 .. 0 |-> <<>>])
    BY DEF LowsUpTo
  <2> QED
    BY <1>2, <1>3, <2>1
<1>4. CASE m # 0
  <2>1. m \in Nat /\ m - 1 \in Nat /\ ~ m <= m - 1
    BY <1>4
  <2>2. PICK g : LowsUpTo(t, m - 1, g)
    BY <1>2, <2>1
  <2> DEFINE h == [k \in 0 .. m |-> IF k = 0 THEN <<>> ELSE g[k - 1] \o Small(t[k])]
  <2>3. \A k \in 0 .. m - 1 : h[k] = g[k]
    <3>1. \A k \in 0 .. m - 1 : g[k] = IF k = 0 THEN <<>> ELSE g[k - 1] \o Small(t[k])
      BY <2>1, <2>2, LowsAt
    <3>2. 0 .. m - 1 \subseteq 0 .. m
      BY <2>1
    <3> QED
      BY <3>1, <3>2
  <2>4. h = [k \in 0 .. m |-> IF k = 0 THEN <<>> ELSE h[k - 1] \o Small(t[k])]
    <3>1. \A k \in 0 .. m : k # 0 => k - 1 \in 0 .. m - 1
      BY <2>1
    <3> QED
      BY <2>3, <3>1
  <2>5. LowsUpTo(t, m, h)
    BY <2>4 DEF LowsUpTo
  <2> QED
    BY <1>2, <2>5
<1> QED
  BY <1>3, <1>4

LEMMA LowsAgree ==
    ASSUME NEW t, NEW z \in Nat, NEW g, LowsUpTo(t, z, g), NEW m \in Nat, NEW h, LowsUpTo(t, m, h),
           NEW k \in Nat, k <= z, k <= m
    PROVE  g[k] = h[k]
<1> DEFINE bad == {j \in 0 .. k : g[j] # h[j]}
<1>1. SUFFICES ASSUME bad # {} PROVE FALSE
  OBVIOUS
<1>2. PICK j \in bad : \A i \in bad : j <= i
  <2>1. bad \in SUBSET Nat
    OBVIOUS
  <2> HIDE DEF bad
  <2> QED
    BY <1>1, <2>1, Least
<1>3. j \in 0 .. z /\ j \in 0 .. m /\ j \in 0 .. k /\ g[j] # h[j]
  OBVIOUS
<1> HIDE DEF bad
<1>4. g[j] = IF j = 0 THEN <<>> ELSE g[j - 1] \o Small(t[j])
  BY <1>3, LowsAt
<1>5. h[j] = IF j = 0 THEN <<>> ELSE h[j - 1] \o Small(t[j])
  BY <1>3, LowsAt
<1>6. j # 0
  BY <1>3, <1>4, <1>5
<1>7. g[j - 1] = h[j - 1]
  <2>1. j - 1 \in 0 .. k /\ ~ j <= j - 1
    BY <1>3, <1>6
  <2> QED
    BY <1>2, <2>1 DEF bad
<1> QED
  BY <1>3, <1>6, <1>7, <1>4, <1>5

LEMMA LowsIs ==
    ASSUME NEW t
    PROVE  Lows(t)[0] = <<>> /\ \A k \in Nat : Lows(t)[k + 1] = Lows(t)[k] \o Small(t[k + 1])
<1> DEFINE upTo(k) == CHOOSE g : LowsUpTo(t, k, g)
           all == [k \in Nat |-> upTo(k)[k]]
           Is(g) == g = [k \in Nat |-> IF k = 0 THEN <<>> ELSE g[k - 1] \o Small(t[k])]
<1>1. \A k \in Nat : LowsUpTo(t, k, upTo(k))
  BY LowsExist
<1> HIDE DEF upTo
<1>2. all[0] = <<>>
  <2>1. LowsUpTo(t, 0, upTo(0)) /\ 0 \in 0 .. 0
    BY <1>1
  <2>2. upTo(0)[0] = <<>>
    BY <2>1, LowsAt
  <2> QED
    BY <2>2
<1>3. \A k \in Nat : k # 0 => all[k] = all[k - 1] \o Small(t[k])
  <2> SUFFICES ASSUME NEW k \in Nat, k # 0 PROVE all[k] = all[k - 1] \o Small(t[k])
    OBVIOUS
  <2>1. k - 1 \in Nat /\ k - 1 <= k /\ k - 1 <= k - 1 /\ k \in 0 .. k
    OBVIOUS
  <2>2. upTo(k)[k] = upTo(k)[k - 1] \o Small(t[k])
    BY <1>1, <2>1, LowsAt
  <2>3. upTo(k)[k - 1] = upTo(k - 1)[k - 1]
    BY <1>1, <2>1, LowsAgree
  <2> QED
    BY <2>1, <2>2, <2>3
<1>4. Is(all)
  BY <1>2, <1>3
<1> HIDE DEF all
<1>5. Is(CHOOSE g : Is(g))
  BY <1>4
<1>6. Lows(t) = CHOOSE g : Is(g)
  BY DEF Lows
<1>7. Lows(t) = [k \in Nat |-> IF k = 0 THEN <<>> ELSE Lows(t)[k - 1] \o Small(t[k])]
  BY <1>5, <1>6
<1> HIDE DEF Is
<1>8. \A k \in Nat : Lows(t)[k] = IF k = 0 THEN <<>> ELSE Lows(t)[k - 1] \o Small(t[k])
  BY <1>7
<1>9. \A k \in Nat : k + 1 \in Nat /\ k + 1 # 0 /\ (k + 1) - 1 = k
  OBVIOUS
<1> QED
  BY <1>8, <1>9

LEMMA LoweredIs == ASSUME NEW t \in Seq(Int) PROVE Q!Lowered(t) = Lows(t)[Len(t)]
BY DEF Q!Lowered, Lows, Small

LEMMA LowsTyped ==
    ASSUME NEW t \in Seq(Int), NEW k \in 0 .. Len(t) PROVE Lows(t)[k] \in Seq(Int)
<1> DEFINE bad == {j \in 0 .. Len(t) : Lows(t)[j] \notin Seq(Int)}
<1>1. SUFFICES ASSUME bad # {} PROVE FALSE
  OBVIOUS
<1>2. PICK j \in bad : \A i \in bad : j <= i
  <2>1. bad \in SUBSET Nat
    OBVIOUS
  <2> HIDE DEF bad
  <2> QED
    BY <1>1, <2>1, Least
<1>3. j \in 0 .. Len(t) /\ Lows(t)[j] \notin Seq(Int) /\ Len(t) \in Nat
  OBVIOUS
<1> HIDE DEF bad
<1>4. j # 0
  <2>1. Lows(t)[0] = <<>>
    BY LowsIs
  <2>2. <<>> \in Seq(Int)
    OBVIOUS
  <2> QED
    BY <1>3, <2>1, <2>2
<1>5. j - 1 \in 0 .. Len(t) /\ j - 1 \in Nat /\ (j - 1) + 1 = j /\ ~ j <= j - 1 /\ j \in 1 .. Len(t)
  BY <1>3, <1>4
<1>6. Lows(t)[j - 1] \in Seq(Int)
  BY <1>2, <1>5 DEF bad
<1>7. Lows(t)[j] = Lows(t)[j - 1] \o Small(t[j])
  BY <1>5, LowsIs
<1>8. Small(t[j]) \in Seq(Int)
  <2>1. t[j] \in Int
    BY <1>5
  <2> QED
    BY <2>1, SmallIs
<1> QED
  BY <1>3, <1>6, <1>7, <1>8, ConcatProperties

LEMMA LoweredTyped == ASSUME NEW t \in Seq(Int) PROVE Q!Lowered(t) \in Seq(Int)
<1>1. Len(t) \in 0 .. Len(t)
  OBVIOUS
<1> QED
  BY <1>1, LowsTyped, LoweredIs

\* Lower case character by character: of two texts put together it is theirs put together.
LEMMA LoweredJoin ==
    ASSUME NEW l \in Seq(Int), NEW r \in Seq(Int)
    PROVE  Q!Lowered(l \o r) = Q!Lowered(l) \o Q!Lowered(r)
<1> DEFINE all == l \o r
           size == Len(l)
<1>1. /\ all \in Seq(Int) /\ Len(all) = size + Len(r) /\ size \in Nat /\ Len(r) \in Nat
      /\ \A k \in 1 .. size : all[k] = l[k]
      /\ \A k \in size + 1 .. size + Len(r) : all[k] = r[k - size]
  BY JoinIs
<1> HIDE DEF all, size
<1>2. \A k \in 0 .. size : Lows(all)[k] = Lows(l)[k]
  <2> DEFINE bad == {k \in 0 .. size : Lows(all)[k] # Lows(l)[k]}
  <2>1. SUFFICES ASSUME bad # {} PROVE FALSE
    OBVIOUS
  <2>2. PICK k \in bad : \A i \in bad : k <= i
    <3>1. bad \in SUBSET Nat
      BY <1>1
    <3> HIDE DEF bad
    <3> QED
      BY <2>1, <3>1, Least
  <2>3. k \in 0 .. size /\ Lows(all)[k] # Lows(l)[k]
    OBVIOUS
  <2> HIDE DEF bad
  <2>4. k # 0
    BY <2>3, LowsIs
  <2>5. k - 1 \in 0 .. size /\ k - 1 \in Nat /\ (k - 1) + 1 = k /\ ~ k <= k - 1 /\ k \in 1 .. size
    BY <1>1, <2>3, <2>4
  <2>6. Lows(all)[k - 1] = Lows(l)[k - 1]
    BY <2>2, <2>5 DEF bad
  <2>7. Lows(all)[k] = Lows(all)[k - 1] \o Small(all[k]) /\ Lows(l)[k] = Lows(l)[k - 1] \o Small(l[k])
    BY <2>5, LowsIs
  <2> QED
    BY <1>1, <2>3, <2>5, <2>6, <2>7
<1>3. \A k \in 0 .. Len(r) : Lows(all)[size + k] = Lows(l)[size] \o Lows(r)[k]
  <2>0. 0 .. Len(r) \subseteq Nat
    BY <1>1
  <2> DEFINE bad == {k \in 0 .. Len(r) : Lows(all)[size + k] # Lows(l)[size] \o Lows(r)[k]}
  <2>1. SUFFICES ASSUME bad # {} PROVE FALSE
    OBVIOUS
  <2>2. PICK k \in bad : \A i \in bad : k <= i
    <3>1. bad \in SUBSET Nat
      BY <2>0
    <3> HIDE DEF bad
    <3> QED
      BY <2>1, <3>1, Least
  <2>3. k \in 0 .. Len(r) /\ Lows(all)[size + k] # Lows(l)[size] \o Lows(r)[k]
    OBVIOUS
  <2> HIDE DEF bad
  <2>4. Lows(l)[size] \in Seq(Int)
    <3>1. size \in 0 .. Len(l)
      BY <1>1 DEF size
    <3> QED
      BY <3>1, LowsTyped
  <2>5. k # 0
    <3>1. size + 0 = size /\ size \in 0 .. size
      BY <1>1
    <3>2. Lows(all)[size + 0] = Lows(l)[size] \o <<>>
      BY <1>2, <2>4, <3>1, ConcatEmptySeq
    <3> QED
      BY <2>3, <3>2, LowsIs
  <2>6. /\ k - 1 \in 0 .. Len(r) /\ k - 1 \in Nat /\ (k - 1) + 1 = k /\ ~ k <= k - 1 /\ k \in 1 .. Len(r)
        /\ size + (k - 1) \in Nat /\ (size + (k - 1)) + 1 = size + k
        /\ size + k \in size + 1 .. size + Len(r) /\ (size + k) - size = k
    BY <1>1, <2>3, <2>5
  <2>7. Lows(all)[size + (k - 1)] = Lows(l)[size] \o Lows(r)[k - 1]
    BY <2>2, <2>6 DEF bad
  <2>8. Lows(all)[size + k] = Lows(all)[size + (k - 1)] \o Small(all[size + k])
    BY <2>6, LowsIs
  <2>9. Lows(r)[k] = Lows(r)[k - 1] \o Small(r[k])
    BY <2>6, LowsIs
  <2>10. all[size + k] = r[k] /\ Lows(r)[k - 1] \in Seq(Int) /\ Small(r[k]) \in Seq(Int)
    <3>1. all[size + k] = r[k]
      BY <1>1, <2>6
    <3>2. r[k] \in Int
      BY <2>6
    <3> QED
      BY <2>6, <3>1, <3>2, LowsTyped, SmallIs
  <2>11. (Lows(l)[size] \o Lows(r)[k - 1]) \o Small(r[k]) = Lows(l)[size] \o (Lows(r)[k - 1] \o Small(r[k]))
    <3> DEFINE x == Lows(l)[size]
               y == Lows(r)[k - 1]
               z == Small(r[k])
    <3>1. x \in Seq(Int) /\ y \in Seq(Int) /\ z \in Seq(Int)
      BY <2>4, <2>10
    <3> HIDE DEF x, y, z
    <3>2. (x \o y) \o z = x \o (y \o z)
      BY <3>1, ConcatAssociative, SMTT(60)
    <3> QED
      BY <3>2 DEF x, y, z
  <2> QED
    BY <2>3, <2>7, <2>8, <2>9, <2>10, <2>11
<1>4. Len(r) \in 0 .. Len(r)
  BY <1>1
<1>5. Lows(all)[size + Len(r)] = Lows(l)[size] \o Lows(r)[Len(r)]
  BY <1>3, <1>4
<1>6. Q!Lowered(all) = Lows(all)[size + Len(r)]
  BY <1>1, LoweredIs
<1> QED
  BY <1>5, <1>6, LoweredIs DEF all, size

\* What stands in a text with m in its middle, where m is apart from it, stands left or
\* right of m.
LEMMA ApartSplit ==
    ASSUME NEW a \in Seq(Int), NEW m \in Seq(Int), NEW b \in Seq(Int), NEW q \in Seq(Int),
           q # <<>>, m # <<>>, ~ Q!Has(m, q), m[1] \notin Q!ToSet(q), m[Len(m)] \notin Q!ToSet(q),
           Q!Has((a \o m) \o b, q)
    PROVE  Q!Has(a, q) \/ Q!Has(b, q)
<1> DEFINE am  == a \o m
           all == am \o b
           lenA == Len(a)
           lenM == Len(m)
           lenB == Len(b)
           lenQ == Len(q)
<1>1. lenA \in Nat /\ lenM \in Nat \ {0} /\ lenB \in Nat /\ lenQ \in Nat \ {0}
  OBVIOUS
<1>2. /\ am \in Seq(Int) /\ Len(am) = lenA + lenM
      /\ \A k \in 1 .. lenA : am[k] = a[k]
      /\ \A k \in lenA + 1 .. lenA + lenM : am[k] = m[k - lenA]
  BY JoinIs
<1> HIDE DEF am, lenA, lenM, lenB, lenQ
<1>3. /\ all \in Seq(Int) /\ Len(all) = (lenA + lenM) + lenB
      /\ \A k \in 1 .. lenA + lenM : all[k] = am[k]
      /\ \A k \in (lenA + lenM) + 1 .. (lenA + lenM) + lenB : all[k] = b[k - (lenA + lenM)]
  <2>1. /\ all \in Seq(Int) /\ Len(all) = Len(am) + Len(b)
        /\ \A k \in 1 .. Len(am) : all[k] = am[k]
        /\ \A k \in Len(am) + 1 .. Len(am) + Len(b) : all[k] = b[k - Len(am)]
    BY <1>2, JoinIs
  <2>2. Len(am) = lenA + lenM /\ Len(b) = lenB
    BY <1>2 DEF lenB
  <2> HIDE DEF all
  <2> QED
    BY <2>1, <2>2
<1> HIDE DEF all
<1>4. PICK i \in 1 .. Len(all) : Stands(q, all, i)
  BY <1>3, HasIs DEF all, am
<1>5. i \in Nat /\ i >= 1 /\ i + lenQ - 1 <= (lenA + lenM) + lenB /\ \A k \in 1 .. lenQ : all[i + k - 1] = q[k]
  BY <1>3, <1>4 DEF Stands, lenQ
<1>6. \A x : (\E k \in 1 .. lenQ : q[k] = x) => x \in Q!ToSet(q)
  BY DEF Q!ToSet, lenQ
<1>7. ~ (i <= lenA + 1 /\ i + lenQ - 1 >= lenA + 1)
  <2>1. SUFFICES ASSUME i <= lenA + 1, i + lenQ - 1 >= lenA + 1 PROVE FALSE
    OBVIOUS
  <2> DEFINE k == lenA + 2 - i
             next == lenA + 1
  <2>2. /\ k \in 1 .. lenQ /\ i + k - 1 = next /\ next \in 1 .. lenA + lenM /\ next \in lenA + 1 .. lenA + lenM
        /\ next - lenA = 1
    BY <1>1, <1>5, <2>1
  <2> HIDE DEF k, next
  <2>3. q[k] = m[1]
    <3>1. all[next] = q[k]
      BY <1>5, <2>2
    <3>2. all[next] = am[next]
      BY <1>3, <2>2
    <3>3. am[next] = m[next - lenA]
      BY <1>2, <2>2
    <3> QED
      BY <2>2, <3>1, <3>2, <3>3
  <2> QED
    BY <1>6, <2>2, <2>3
<1>8. ~ (i <= lenA + lenM /\ i + lenQ - 1 >= lenA + lenM)
  <2>1. SUFFICES ASSUME i <= lenA + lenM, i + lenQ - 1 >= lenA + lenM PROVE FALSE
    OBVIOUS
  <2> DEFINE k == lenA + lenM + 1 - i
  <2>2. k \in 1 .. lenQ /\ i + k - 1 = lenA + lenM /\ lenA + lenM \in 1 .. lenA + lenM /\ lenA + lenM \in lenA + 1 .. lenA + lenM
        /\ (lenA + lenM) - lenA = lenM
    BY <1>1, <1>5, <2>1
  <2> HIDE DEF k
  <2>3. q[k] = m[lenM]
    BY <1>2, <1>3, <1>5, <2>2
  <2> QED
    BY <1>6, <2>2, <2>3 DEF lenM
<1>9. CASE i + lenQ - 1 <= lenA
  <2>1. i \in 1 .. lenA
    BY <1>1, <1>5, <1>9
  <2>2. \A k \in 1 .. lenQ : i + k - 1 \in 1 .. lenA /\ i + k - 1 \in 1 .. lenA + lenM
    BY <1>1, <1>5, <1>9
  <2>3. \A k \in 1 .. lenQ : a[i + k - 1] = q[k]
    BY <1>2, <1>3, <1>5, <2>2
  <2>4. Stands(q, a, i)
    BY <1>9, <2>1, <2>3 DEF Stands, lenA, lenQ
  <2> QED
    BY <2>1, <2>4, HasIs DEF lenA
<1>10. CASE i > lenA + lenM
  <2> DEFINE j == i - (lenA + lenM)
  <2>1. j \in 1 .. lenB /\ j + lenQ - 1 <= lenB
    BY <1>1, <1>5, <1>10
  <2>2. \A k \in 1 .. lenQ : b[j + k - 1] = q[k]
    <3> TAKE k \in 1 .. lenQ
    <3>1. i + k - 1 \in (lenA + lenM) + 1 .. (lenA + lenM) + lenB /\ (i + k - 1) - (lenA + lenM) = j + k - 1
      BY <1>1, <1>5, <1>10
    <3> HIDE DEF j
    <3> QED
      BY <1>3, <1>5, <3>1
  <2> HIDE DEF j
  <2>3. Stands(q, b, j)
    BY <2>1, <2>2 DEF Stands, lenB, lenQ
  <2> QED
    BY <2>1, <2>3, HasIs DEF lenB
<1>11. CASE i > lenA /\ i + lenQ - 1 <= lenA + lenM
  <2> DEFINE j == i - lenA
  <2>1. j \in 1 .. lenM /\ j + lenQ - 1 <= lenM
    BY <1>1, <1>5, <1>11
  <2>2. \A k \in 1 .. lenQ : m[j + k - 1] = q[k]
    <3> TAKE k \in 1 .. lenQ
    <3>1. i + k - 1 \in lenA + 1 .. lenA + lenM /\ i + k - 1 \in 1 .. lenA + lenM /\ (i + k - 1) - lenA = j + k - 1
      BY <1>1, <1>5, <1>11
    <3> HIDE DEF j
    <3>2. all[i + k - 1] = am[i + k - 1] /\ am[i + k - 1] = m[j + k - 1]
      BY <1>2, <1>3, <3>1
    <3> QED
      BY <1>5, <3>2
  <2> HIDE DEF j
  <2>3. Stands(q, m, j)
    BY <2>1, <2>2 DEF Stands, lenM, lenQ
  <2> QED
    BY <2>1, <2>3, HasIs DEF lenM
<1>12. i + lenQ - 1 <= lenA \/ i > lenA + lenM \/ (i > lenA /\ i + lenQ - 1 <= lenA + lenM)
  BY <1>1, <1>5, <1>7, <1>8
<1> QED
  BY <1>9, <1>10, <1>11, <1>12

LEMMA SplicedTyped ==
    ASSUME NEW t \in Seq(Int), NEW p \in Seq(Int), NEW i \in Nat \ {0}
    PROVE  Q!Spliced(t, p, i) \in Seq(Int)
<1> DEFINE cut == IF i - 1 <= Len(t) THEN i - 1 ELSE Len(t)
           l == SubSeq(t, 1, cut)
           r == SubSeq(t, i + Len(p), Len(t))
<1>1. Len(t) \in Nat /\ cut \in 0 .. Len(t) /\ i + Len(p) \in Nat \ {0}
  OBVIOUS
<1>2. l \in Seq(Int) /\ r \in Seq(Int)
  <2> HIDE DEF cut
  <2> QED
    BY <1>1, SubSeqProperties
<1>3. Q!Spliced(t, p, i) = (l \o Replacement) \o r
  BY DEF Q!Spliced
<1> HIDE DEF l, r
<1> QED
  BY <1>2, <1>3, GateFacts, ConcatProperties

\* A phrase of a spliced text that is apart from the replacement was in the text.
LEMMA NothingNew ==
    ASSUME NEW t \in Seq(Int), NEW p \in Seq(Int), NEW i \in Nat \ {0}, NEW q \in Phrases,
           Q!Apart({q}), Q!Has(Q!Lowered(Q!Spliced(t, p, i)), q)
    PROVE  Q!Has(Q!Lowered(t), q)
<1> DEFINE cut == IF i - 1 <= Len(t) THEN i - 1 ELSE Len(t)
           from == i + Len(p)
           l == SubSeq(t, 1, cut)
           r == SubSeq(t, from, Len(t))
           m == Q!Lowered(Replacement)
<1>1. Len(t) \in Nat /\ Len(p) \in Nat /\ cut \in 0 .. Len(t) /\ from \in Nat /\ from > cut
  OBVIOUS
<1>2. l \in Seq(Int) /\ r \in Seq(Int) /\ Replacement \in Seq(Int) /\ q \in Seq(Int) /\ q # <<>>
  <2> HIDE DEF cut, from
  <2> QED
    BY <1>1, GateFacts, SubSeqProperties
<1>3. m \in Seq(Int) /\ m # <<>>
  BY <1>2, GateFacts, LoweredTyped
<1>4. /\ Q!Lowered(l) \in Seq(Int) /\ Q!Lowered(r) \in Seq(Int)
      /\ Q!Lowered((l \o Replacement) \o r) = (Q!Lowered(l) \o m) \o Q!Lowered(r)
  <2> HIDE DEF l, r
  <2>1. l \o Replacement \in Seq(Int)
    BY <1>2, ConcatProperties
  <2>2. Q!Lowered((l \o Replacement) \o r) = Q!Lowered(l \o Replacement) \o Q!Lowered(r)
    BY <1>2, <2>1, LoweredJoin
  <2>3. Q!Lowered(l \o Replacement) = Q!Lowered(l) \o m
    BY <1>2, LoweredJoin
  <2>4. Q!Lowered(l) \in Seq(Int) /\ Q!Lowered(r) \in Seq(Int)
    BY <1>2, LoweredTyped
  <2> QED
    BY <2>2, <2>3, <2>4
<1>5. ~ Q!Has(m, q) /\ m[1] \notin Q!ToSet(q) /\ m[Len(m)] \notin Q!ToSet(q)
  BY DEF Q!Apart
<1>6. Q!Spliced(t, p, i) = (l \o Replacement) \o r
  BY DEF Q!Spliced
<1> HIDE DEF m, l, r
<1>7. Q!Has(Q!Lowered(l), q) \/ Q!Has(Q!Lowered(r), q)
  <2> DEFINE a == Q!Lowered(l)
             b == Q!Lowered(r)
  <2>1. Q!Has((a \o m) \o b, q) /\ a \in Seq(Int) /\ b \in Seq(Int)
    BY <1>4, <1>6
  <2> HIDE DEF a, b
  <2>2. Q!Has(a, q) \/ Q!Has(b, q)
    BY <1>2, <1>3, <1>5, <2>1, ApartSplit
  <2> QED
    BY <2>2 DEF a, b
<1>8. CASE Q!Has(Q!Lowered(l), q)
  <2> DEFINE rest == SubSeq(t, cut + 1, Len(t))
  <2>1. t = l \o rest /\ rest \in Seq(Int)
    <3> HIDE DEF cut
    <3>1. SubSeq(t, 1, cut) \o SubSeq(t, cut + 1, Len(t)) = SubSeq(t, 1, Len(t))
      <4>1. 1 \in 1 .. Len(t) + 1 /\ cut \in 1 - 1 .. Len(t) /\ Len(t) \in cut .. Len(t)
        BY <1>1
      <4> QED
        BY <4>1, ConcatAdjacentSubSeq
    <3>2. SubSeq(t, 1, Len(t)) = t
      BY <1>1
    <3>3. rest \in Seq(Int)
      BY <1>1, SubSeqProperties
    <3> QED
      BY <3>1, <3>2, <3>3 DEF l
  <2> HIDE DEF rest
  <2>2. Q!Lowered(t) = Q!Lowered(l) \o Q!Lowered(rest) /\ Q!Lowered(rest) \in Seq(Int)
    <3>1. Q!Lowered(l \o rest) = Q!Lowered(l) \o Q!Lowered(rest)
      BY <1>2, <2>1, LoweredJoin
    <3> QED
      BY <2>1, <3>1, LoweredTyped
  <2> QED
    BY <1>2, <1>4, <1>8, <2>2, StandsInBoth
<1>9. CASE Q!Has(Q!Lowered(r), q)
  <2>1. from <= Len(t)
    <3>1. SUFFICES ASSUME from > Len(t) PROVE FALSE
      BY <1>1
    <3> HIDE DEF from
    <3>2. r = <<>>
      BY <1>1, <3>1, SubSeqProperties DEF r
    <3>3. Q!Lowered(r) = <<>>
      BY <1>2, <3>2, LoweredIs, LowsIs
    <3>4. Len(Q!Lowered(r)) = 0
      BY <3>3
    <3> QED
      BY <1>9, <3>4 DEF Q!Has
  <2> DEFINE head == SubSeq(t, 1, from - 1)
  <2>2. t = head \o r /\ head \in Seq(Int)
    <3> HIDE DEF from
    <3>0. from \in 1 .. Len(t)
      BY <1>1, <2>1
    <3>1. head \o SubSeq(t, (from - 1) + 1, Len(t)) = SubSeq(t, 1, Len(t))
      <4>1. 1 \in 1 .. Len(t) + 1 /\ from - 1 \in 1 - 1 .. Len(t) /\ Len(t) \in from - 1 .. Len(t)
        BY <1>1, <3>0
      <4> QED
        BY <4>1, ConcatAdjacentSubSeq
    <3>2. SubSeq(t, 1, Len(t)) = t
      BY <1>1
    <3>3. head \in Seq(Int) /\ (from - 1) + 1 = from
      BY <1>1, <3>0, SubSeqProperties
    <3> QED
      BY <3>1, <3>2, <3>3 DEF r
  <2> HIDE DEF head
  <2>3. Q!Lowered(t) = Q!Lowered(head) \o Q!Lowered(r) /\ Q!Lowered(head) \in Seq(Int)
    <3>1. Q!Lowered(head \o r) = Q!Lowered(head) \o Q!Lowered(r)
      BY <1>2, <2>2, LoweredJoin
    <3> QED
      BY <2>2, <3>1, LoweredTyped
  <2> QED
    BY <1>2, <1>4, <1>9, <2>3, StandsInBoth
<1> QED
  BY <1>7, <1>8, <1>9

\* What the trie knows: the phrases, their number, and a node for each of their prefixes.
TrieInv ==
    /\ inserted \subseteq Phrases /\ IsFiniteSet(inserted) /\ ends = inserted
    /\ phraseCount = Cardinality(inserted)
    /\ \A p \in inserted : Q!Prefixes(p) \subseteq nodes

\* What the sanitizer still has to do: every phrase it knew and the text has is to come,
\* if no phrase has a part in a replacement.
TextInv ==
    /\ known \subseteq Phrases /\ text \in Seq(Int) /\ matches \in Seq(Phrases)
    /\ Q!Apart(known) => \A p \in known :
          Q!Has(Q!Lowered(text), p) => \E i \in 1 .. Len(matches) : matches[i] = p

LEMMA GateCardinality == \A S : Q!Cardinality(S) = Cardinality(S)
BY DEF Q!Cardinality, Cardinality

LEMMA FoundSplit ==
    \A t, p : p \in Q!Found(t) <=>
        /\ p \in ends
        /\ \E i \in 1 .. Len(t) : p \in {SubSeq(t, i, k) : k \in Q!Walk(t, i)}
<1> TAKE t, p
<1> DEFINE Out(i) == {SubSeq(t, i, k) : k \in Q!Walk(t, i)}
           all == {Out(i) : i \in 1 .. Len(t)}
<1>1. Q!Found(t) = ends \cap UNION all
  BY DEF Q!Found
<1>2. \A S : S \in all <=> \E i \in 1 .. Len(t) : S = Out(i)
  OBVIOUS
<1> HIDE DEF all, Out
<1>3. p \in Q!Found(t) <=> p \in UNION all /\ p \in ends
  BY <1>1
<1>4. p \in Q!Found(t) <=> p \in ends /\ \E i \in 1 .. Len(t) : p \in Out(i)
  BY <1>2, <1>3
<1> QED
  BY <1>4 DEF Out

LEMMA FoundIs ==
    ASSUME TrieInv, NEW t \in Seq(Int) PROVE Q!Found(t) = {p \in inserted : Q!Has(t, p)}
<1>1. Len(t) \in Nat
  OBVIOUS
<1>2. ASSUME NEW p \in inserted, Q!Has(t, p) PROVE p \in Q!Found(t)
  <2>1. p \in Seq(Int) /\ p # <<>>
    BY GateFacts DEF TrieInv
  <2>2. PICK i \in 1 .. Len(t) : Stands(p, t, i)
    BY <1>2, <2>1, HasIs
  <2> DEFINE last == i + Len(p) - 1
  <2>3. Len(p) \in Nat \ {0}
    BY <2>1
  <2>4. last \in i .. Len(t) /\ last \in Nat
    BY <1>1, <2>2, <2>3 DEF Stands
  <2>5. \A k \in i .. last : SubSeq(t, i, k) = SubSeq(p, 1, k - i + 1)
    <3> TAKE k \in i .. last
    <3> DEFINE u == SubSeq(t, i, k)
               w == SubSeq(p, 1, k - i + 1)
    <3>1. k \in 1 .. Len(t) /\ k - i + 1 \in 1 .. Len(p)
      BY <1>1, <2>3, <2>4
    <3>2. u \in Seq(Int) /\ Len(u) = k - i + 1 /\ \A x \in 1 .. Len(u) : u[x] = t[i + x - 1]
      BY <1>1, <3>1
    <3>3. w \in Seq(Int) /\ Len(w) = k - i + 1 /\ \A x \in 1 .. Len(w) : w[x] = p[x]
      BY <2>1, <2>3, <3>1
    <3>4. \A x \in 1 .. k - i + 1 : x \in 1 .. Len(p)
      BY <2>3, <3>1
    <3> HIDE DEF u, w, last
    <3>5. \A x \in 1 .. Len(u) : u[x] = w[x]
      BY <2>2, <3>2, <3>3, <3>4 DEF Stands
    <3>6. u = w
      BY <3>2, <3>3, <3>5, SeqEqual
    <3> QED
      BY <3>6 DEF u, w
  <2>6. SubSeq(t, i, last) = p
    <3>1. last \in i .. last /\ last - i + 1 = Len(p)
      BY <2>3, <2>4
    <3>2. SubSeq(t, i, last) = SubSeq(p, 1, Len(p))
      BY <2>5, <3>1
    <3> QED
      BY <2>1, <3>2
  <2>7. \A k \in i .. last : SubSeq(t, i, k) \in nodes
    <3> TAKE k \in i .. last
    <3>1. k - i + 1 \in 0 .. Len(p)
      BY <2>3, <2>4
    <3>2. SubSeq(p, 1, k - i + 1) \in Q!Prefixes(p)
      BY <3>1 DEF Q!Prefixes
    <3> QED
      BY <2>5, <3>2 DEF TrieInv
  <2> HIDE DEF last
  <2>8. last \in Q!Walk(t, i)
    BY <2>4, <2>7 DEF Q!Walk
  <2>9. p \in {SubSeq(t, i, k) : k \in Q!Walk(t, i)}
    BY <2>6, <2>8
  <2> QED
    BY <2>2, <2>9, FoundSplit DEF TrieInv
<1>3. ASSUME NEW p \in Q!Found(t) PROVE p \in inserted /\ Q!Has(t, p)
  <2>1. p \in inserted
    BY FoundSplit DEF TrieInv
  <2>2. PICK i \in 1 .. Len(t) : p \in {SubSeq(t, i, k) : k \in Q!Walk(t, i)}
    BY FoundSplit
  <2>3. PICK last \in i .. Len(t) : p = SubSeq(t, i, last)
    BY <2>2 DEF Q!Walk
  <2>4. p \in Seq(Int)
    BY <2>1, GateFacts DEF TrieInv
  <2>5. last \in 1 .. Len(t) /\ Len(p) = last - i + 1 /\ \A k \in 1 .. Len(p) : p[k] = t[i + k - 1]
    BY <1>1, <2>3
  <2>6. Stands(p, t, i)
    BY <1>1, <2>5 DEF Stands
  <2> QED
    BY <2>1, <2>4, <2>6, HasIs
<1>4. Q!Found(t) \subseteq inserted
  BY <1>3
<1> QED
  BY <1>2, <1>3, <1>4

LEMMA InsertKept == ASSUME TrieInv, NEW p \in Phrases, Q!Insert(p) PROVE TrieInv'
<1>1. /\ nodes' = nodes \cup Q!Prefixes(p) /\ ends' = ends \cup {p} /\ inserted' = inserted \cup {p}
      /\ phraseCount' = IF p \in ends THEN phraseCount ELSE phraseCount + 1
  BY DEF Q!Insert
<1>2. IsFiniteSet(inserted') /\ Cardinality(inserted') = IF p \in inserted THEN Cardinality(inserted)
                                                        ELSE Cardinality(inserted) + 1
  BY <1>1, FS_AddElement DEF TrieInv
<1> QED
  BY <1>1, <1>2 DEF TrieInv

\* A sequence that lists a set in order has all of it.
LEMMA ListsAll ==
    ASSUME TrieInv, NEW t \in Seq(Int), NEW m \in Q!FindMatches(t)
    PROVE  m \in Seq(Phrases) /\ \A p \in Q!Found(Q!Lowered(t)) : \E i \in 1 .. Len(m) : m[i] = p
<1> DEFINE found == Q!Found(Q!Lowered(t))
           size == Cardinality(found)
<1>1. found \subseteq inserted /\ IsFiniteSet(found) /\ size \in Nat /\ found \subseteq Seq(Int) /\ found \subseteq Phrases
  <2>1. found \subseteq inserted
    BY FoundIs, LoweredTyped
  <2>2. IsFiniteSet(found)
    BY <2>1, FS_Subset DEF TrieInv
  <2> QED
    BY <2>1, <2>2, FS_CardinalityType, GateFacts DEF TrieInv
<1>2. m \in [1 .. size -> found] /\ \A i, j \in 1 .. size : i < j => Q!Before(m[i], m[j])
  BY GateCardinality DEF Q!FindMatches
<1> HIDE DEF found, size
<1>3. \A p \in Seq(Int) : ~ Q!Before(p, p)
  <2> TAKE p \in Seq(Int)
  <2>1. DOMAIN p = 1 .. Len(p) /\ \A i \in 1 .. Len(p) : p[i] \in Int
    OBVIOUS
  <2> QED
    BY <2>1 DEF Q!Before, Q!IsStrictPrefix
<1>4. \A i, j \in 1 .. size : i # j => m[i] # m[j]
  <2> SUFFICES ASSUME NEW i \in 1 .. size, NEW j \in 1 .. size, i # j PROVE m[i] # m[j]
    OBVIOUS
  <2>1. i < j \/ j < i
    OBVIOUS
  <2>2. m[i] \in Seq(Int) /\ m[j] \in Seq(Int)
    BY <1>1, <1>2
  <2> QED
    BY <1>2, <1>3, <2>1, <2>2
<1>5. m \in Injection(1 .. size, found)
  BY <1>2, <1>4 DEF Injection, IsInjective
<1>6. Cardinality(1 .. size) = Cardinality(found)
  <2>1. 1 <= size + 1 /\ size - 1 + 1 = size
    BY <1>1
  <2> QED
    BY <1>1, <2>1, FS_Interval DEF size
<1>7. m \in Surjection(1 .. size, found)
  BY <1>1, <1>5, <1>6, FS_Injection
<1>8. m \in Seq(Phrases) /\ Len(m) = size
  <2>1. m \in [1 .. size -> Phrases]
    BY <1>1, <1>2
  <2> QED
    BY <1>1, <2>1
<1> QED
  BY <1>7, <1>8 DEF Surjection, found

LEMMA SanitizeKept ==
    ASSUME TrieInv, NEW t \in Scripts, Q!Sanitize(t) PROVE TextInv'
<1> DEFINE low == Q!Lowered(t)
<1>1. /\ text' = t /\ matches' \in Q!FindMatches(t) /\ known' = inserted
      /\ t \in Seq(Int) /\ low \in Seq(Int)
  BY GateFacts, LoweredTyped DEF Q!Sanitize
<1>2. /\ matches' \in Seq(Phrases)
      /\ \A p \in Q!Found(low) : \E i \in 1 .. Len(matches') : matches'[i] = p
  BY <1>1, ListsAll
<1>3. Q!Found(low) = {p \in inserted : Q!Has(low, p)} /\ inserted \subseteq Phrases
  <2> HIDE DEF low
  <2> QED
    BY <1>1, FoundIs DEF TrieInv
<1>4. Q!Lowered(text)' = low
  BY <1>1 DEF Q!Lowered
<1> HIDE DEF low
<1>5. \A p \in known' : Q!Has(Q!Lowered(text), p)' => \E i \in 1 .. Len(matches') : matches'[i] = p
  BY <1>1, <1>2, <1>3, <1>4 DEF Q!Has
<1> QED
  BY <1>1, <1>2, <1>3, <1>5 DEF TextInv

LEMMA ReplaceKept == ASSUME TextInv, Q!Replace PROVE TextInv'
<1> DEFINE p   == Head(matches)
           low == Q!Lowered(text)
           new == Q!Lowered(text')
<1>1. /\ matches # <<>> /\ known' = known /\ p \in Phrases /\ p \in Seq(Int) /\ p = matches[1]
      /\ text \in Seq(Int) /\ low \in Seq(Int) /\ Len(matches) \in Nat \ {0}
  BY GateFacts, LoweredTyped DEF Q!Replace, TextInv
<1>2. Q!Lowered(text)' = new /\ Q!Apart(known)' = Q!Apart(known)
  BY <1>1 DEF Q!Lowered, Q!Apart, Q!Has
<1>3. CASE ~ Q!Has(low, p)
  <2>1. matches' = Tail(matches) /\ text' = text
    BY <1>3 DEF Q!Replace
  <2>2. /\ matches' \in Seq(Phrases) /\ Len(matches') = Len(matches) - 1
        /\ \A i \in 1 .. Len(matches') : matches'[i] = matches[i + 1]
    BY <1>1, <2>1 DEF TextInv
  <2>3. ASSUME Q!Apart(known), NEW q \in known, Q!Has(low, q)
        PROVE  \E i \in 1 .. Len(matches') : matches'[i] = q
    <3>1. PICK i \in 1 .. Len(matches) : matches[i] = q
      BY <2>3 DEF TextInv
    <3>2. i # 1
      BY <1>1, <1>3, <2>3, <3>1
    <3>3. i - 1 \in 1 .. Len(matches') /\ (i - 1) + 1 = i
      BY <1>1, <2>2, <3>2
    <3>4. matches'[i - 1] = q
      BY <2>2, <3>1, <3>3
    <3> QED
      BY <3>3, <3>4
  <2>4. new = low
    BY <2>1
  <2> HIDE DEF low, new
  <2>5. Q!Apart(known)' => \A q \in known' :
           Q!Has(Q!Lowered(text), q)' => \E i \in 1 .. Len(matches') : matches'[i] = q
    BY <1>1, <1>2, <2>3, <2>4 DEF Q!Has
  <2> QED
    BY <1>1, <2>1, <2>2, <2>5 DEF TextInv
<1>4. CASE Q!Has(low, p)
  <2> DEFINE f == Q!FirstAt(low, p)
             Here(i) == Q!IsPrefix(p, SubSeq(low, i, Len(low)))
  <2>1. f \in 1 .. Len(low)
    <3> HIDE DEF low
    <3> DEFINE places == {i \in 1 .. Len(low) : Here(i)}
    <3>1. places \in SUBSET Nat /\ places # {}
      <4>1. Len(low) \in Nat
        BY <1>1
      <4>2. \E i \in 1 .. Len(low) : Here(i)
        BY <1>4 DEF Q!Has
      <4> HIDE DEF Here
      <4> QED
        BY <4>1, <4>2
    <3>2. PICK i \in places : \A k \in places : i <= k
      <4> HIDE DEF places
      <4> QED
        BY <3>1, Least
    <3> HIDE DEF Here
    <3>3. i \in 1 .. Len(low) /\ Here(i) /\ \A k \in 1 .. i - 1 : ~ Here(k)
      <4>1. i \in 1 .. Len(low) /\ Len(low) \in Nat
        BY <1>1, <3>2
      <4>2. ASSUME NEW k \in 1 .. i - 1 PROVE ~ Here(k)
        <5>1. k \in 1 .. Len(low) /\ ~ i <= k
          BY <4>1, <4>2
        <5> QED
          BY <3>2, <5>1
      <4> QED
        BY <3>2, <4>1, <4>2
    <3>4. f = CHOOSE k \in 1 .. Len(low) : Here(k) /\ \A x \in 1 .. k - 1 : ~ Here(x)
      BY DEF Q!FirstAt, Here
    <3> HIDE DEF f
    <3> QED
      BY <3>3, <3>4
  <2>2. text' = Q!Spliced(text, p, f) /\ matches' = matches
    BY <1>4 DEF Q!Replace
  <2>3. f \in Nat \ {0}
    <3> HIDE DEF low, f
    <3> QED
      BY <1>1, <2>1
  <2> HIDE DEF f, p, Here
  <2>4. text' \in Seq(Int)
    BY <1>1, <2>2, <2>3, SplicedTyped
  <2>5. ASSUME Q!Apart(known), NEW q \in known, Q!Has(new, q)
        PROVE  \E i \in 1 .. Len(matches') : matches'[i] = q
    <3>1. q \in Phrases /\ Q!Apart({q})
      BY <2>5 DEF TextInv, Q!Apart
    <3>2. Q!Has(low, q)
      BY <1>1, <2>2, <2>3, <2>5, <3>1, NothingNew
    <3> QED
      BY <2>2, <2>5, <3>2 DEF TextInv
  <2> HIDE DEF low, new
  <2>6. Q!Apart(known)' => \A q \in known' :
           Q!Has(Q!Lowered(text), q)' => \E i \in 1 .. Len(matches') : matches'[i] = q
    BY <1>1, <1>2, <2>5 DEF Q!Has
  <2> QED
    BY <1>1, <2>2, <2>4, <2>6 DEF TextInv
<1> QED
  BY <1>3, <1>4

PatternInv == patterns \subseteq Phrases

LEMMA GateInit == LInit => TrieInv /\ TextInv /\ PatternInv
<1> SUFFICES ASSUME LInit PROVE TrieInv /\ TextInv /\ PatternInv
  OBVIOUS
<1>1. Q!GInit
  BY DEF LInit
<1>2. TrieInv
  BY <1>1, FS_EmptySet DEF Q!GInit, TrieInv
<1> QED
  BY <1>1, <1>2, GateFacts DEF Q!GInit, TextInv, PatternInv, Q!Apart

LEMMA GateKept ==
    TrieInv /\ TextInv /\ PatternInv /\ [LNext]_lvars => TrieInv' /\ TextInv' /\ PatternInv'
<1> SUFFICES ASSUME TrieInv, TextInv, PatternInv, [LNext]_lvars
             PROVE  TrieInv' /\ TextInv' /\ PatternInv'
  OBVIOUS
<1>1. UNCHANGED <<nodes, ends, phraseCount, inserted>> => TrieInv'
  BY DEF TrieInv
<1>2. UNCHANGED <<text, matches, known>> => TextInv'
  <2> SUFFICES ASSUME text' = text, matches' = matches, known' = known PROVE TextInv'
    OBVIOUS
  <2>1. Q!Lowered(text)' = Q!Lowered(text)
    BY DEF Q!Lowered
  <2>2. \A t, p : Q!Has(t, p)' <=> Q!Has(t, p)
    BY DEF Q!Has
  <2>3. Q!Apart(known)' <=> Q!Apart(known)
    BY DEF Q!Apart, Q!Has
  <2>4. \A p : Q!Has(Q!Lowered(text), p)' <=> Q!Has(Q!Lowered(text), p)
    BY <2>1 DEF Q!Has
  <2> QED
    BY <2>1, <2>3, <2>4 DEF TextInv
<1>3. UNCHANGED patterns => PatternInv'
  BY DEF PatternInv
<1>4. CASE UNCHANGED gate
  BY <1>1, <1>2, <1>3, <1>4 DEF gate
<1>5. CASE Q!Replace
  <2>1. UNCHANGED <<nodes, ends, phraseCount, inserted, patterns>>
    BY <1>5 DEF Q!Replace, Q!trie
  <2> QED
    BY <1>1, <1>3, <1>5, <2>1, ReplaceKept
<1>6. ASSUME NEW t \in Scripts, Q!Sanitize(t) PROVE TrieInv' /\ TextInv' /\ PatternInv'
  <2>1. UNCHANGED <<nodes, ends, phraseCount, inserted, patterns>>
    BY <1>6 DEF Q!Sanitize, Q!trie
  <2> QED
    BY <1>1, <1>3, <1>6, <2>1, SanitizeKept
<1>7. ASSUME NEW p \in Phrases, Q!Insert(p) PROVE TrieInv' /\ TextInv' /\ PatternInv'
  <2>1. UNCHANGED <<text, matches, known, patterns>>
    BY <1>7 DEF Q!Insert, Q!run
  <2> QED
    BY <1>2, <1>3, <1>7, <2>1, InsertKept
<1>8. ASSUME NEW p \in Phrases, Q!AddPattern(p) PROVE TrieInv' /\ TextInv' /\ PatternInv'
  <2>1. patterns' = patterns \cup {p} /\ UNCHANGED <<nodes, ends, phraseCount, inserted, text, matches, known>>
    BY <1>8 DEF Q!AddPattern, Q!trie, Q!run
  <2> QED
    BY <1>1, <1>2, <2>1 DEF PatternInv
<1> QED
  BY <1>4, <1>5, <1>6, <1>7, <1>8, GateMoves DEF Q!SanitizerNext, Q!BlacklistNext

LEMMA TextIsSafe == TrieInv /\ TextInv => Q!TextSafe
<1> SUFFICES ASSUME TrieInv, TextInv PROVE Q!TextSafe
  OBVIOUS
<1>1. phraseCount = Q!Cardinality(inserted)
  BY GateCardinality DEF TrieInv
<1>2. \A t \in Scripts \cup {text} :
         Q!Found(Q!Lowered(t)) = {p \in inserted : Q!Has(Q!Lowered(t), p)}
  BY FoundIs, LoweredTyped, GateFacts DEF TextInv
<1>3. ASSUME matches = <<>>, known = inserted, Q!Apart(known) PROVE ~ Q!Search(text)
  <2>1. Len(matches) = 0
    BY <1>3
  <2>2. \A p \in inserted : ~ Q!Has(Q!Lowered(text), p)
    BY <1>3, <2>1 DEF TextInv
  <2> QED
    BY <1>2, <2>2 DEF Q!Search
<1> QED
  BY <1>1, <1>2, <1>3 DEF Q!TextSafe

(***************************************************************************)
(* Policies                                                                *)
(***************************************************************************)

LEMMA TopicsIn ==
    ASSUME PatternInv, NEW d \in Scripts, NEW t \in Scripts,
           Q!Violations(d, t, -1, TRUE, TRUE, FALSE) = {}
    PROVE  Q!Topics(d) = {} /\ Q!Topics(t) = {}
<1> DEFINE all == d \o <<Space>> \o t
<1>1. Q!Topics(all) = {}
  <2>1. Q!Topics(all) # {} => "topics" \in Q!Violations(d, t, -1, TRUE, TRUE, FALSE)
    BY DEF Q!Violations
  <2> QED
    BY <2>1
<1>2. d \in Seq(Int) /\ t \in Seq(Int) /\ <<Space>> \in Seq(Int) /\ d \o <<Space>> \in Seq(Int)
  BY GateFacts
<1>3. ASSUME NEW p \in patterns PROVE ~ Q!Has(Q!Lowered(d), p) /\ ~ Q!Has(Q!Lowered(t), p)
  <2>1. p \in Seq(Int)
    BY GateFacts DEF PatternInv
  <2>2. ~ Q!Has(Q!Lowered(all), p)
    BY <1>1 DEF Q!Topics
  <2>3. Q!Lowered(all) = (Q!Lowered(d) \o Q!Lowered(<<Space>>)) \o Q!Lowered(t)
    BY <1>2, LoweredJoin
  <2>4. /\ Q!Lowered(d) \in Seq(Int) /\ Q!Lowered(<<Space>>) \in Seq(Int) /\ Q!Lowered(t) \in Seq(Int)
        /\ Q!Lowered(d) \o Q!Lowered(<<Space>>) \in Seq(Int)
    BY <1>2, LoweredTyped, ConcatProperties
  <2> QED
    BY <2>1, <2>2, <2>3, <2>4, StandsInBoth
<1> QED
  BY <1>3 DEF Q!Topics

\* Odds that are higher feature by feature are higher in all.
LEMMA Crosswise ==
    ASSUME NEW a \in Nat, NEW b \in Nat, NEW c \in Nat, NEW d \in Nat,
           NEW p \in Nat, NEW q \in Nat, NEW r \in Nat, NEW u \in Nat,
           a * d <= c * b, p * u <= r * q
    PROVE  (a * p) * (d * u) <= (c * r) * (b * q)
<1>1. /\ (a * p) * (d * u) = (a * d) * (p * u)
      /\ (c * r) * (b * q) = (c * b) * (r * q)
  OBVIOUS
<1>2. \A w, x, y, z \in Nat : w <= x /\ y <= z => w * y <= x * z
  OBVIOUS
<1>3. a * d \in Nat /\ c * b \in Nat /\ p * u \in Nat /\ r * q \in Nat
  OBVIOUS
<1> QED
  BY <1>1, <1>2, <1>3

LEMMA ProductsPositive ==
    ASSUME NEW S, IsFiniteSet(S), NEW b \in Nat \ {0}, NEW f, \A x \in S : f[x] \in Nat \ {0}
    PROVE  ProductOn(b, f, S) \in Nat \ {0}
<1> DEFINE bad == {K \in SUBSET S : ProductOn(b, f, K) \notin Nat \ {0}}
<1>1. SUFFICES ASSUME bad # {} PROVE FALSE
  OBVIOUS
<1>2. PICK K \in bad : \A U \in SUBSET K : U # K => U \notin bad
  <2>1. bad \in SUBSET SUBSET S
    OBVIOUS
  <2> HIDE DEF bad
  <2> QED
    BY <1>1, <2>1, LeastSet
<1>3. IsFiniteSet(K) /\ K \in SUBSET S
  BY FS_Subset
<1>4. ProductOn(b, f, K) \notin Nat \ {0}
  OBVIOUS
<1>5. K # {}
  BY <1>3, <1>4, ProductOnFirst
<1> DEFINE x == First(K)
<1>6. x \in K /\ K \ {x} \in SUBSET K /\ K \ {x} # K /\ K \ {x} \in SUBSET S
  BY <1>3, <1>5, FirstIs
<1>7. ProductOn(b, f, K \ {x}) \in Nat \ {0} /\ f[x] \in Nat \ {0}
  BY <1>2, <1>3, <1>6
<1>8. ProductOn(b, f, K) = f[x] * ProductOn(b, f, K \ {x})
  BY <1>3, <1>5, ProductOnFirst
<1>9. \A y, z \in Nat \ {0} : y * z \in Nat \ {0}
  OBVIOUS
<1> QED
  BY <1>4, <1>7, <1>8, <1>9

LEMMA ProductsGrow ==
    ASSUME NEW S, IsFiniteSet(S), NEW b \in Nat \ {0}, NEW g \in Nat \ {0}, NEW fb, NEW fg, NEW hb, NEW hg,
           \A x \in S : /\ {fb[x], fg[x], hb[x], hg[x]} \subseteq Nat \ {0}
                        /\ fb[x] * hg[x] <= hb[x] * fg[x]
    PROVE  ProductOn(b, fb, S) * ProductOn(g, hg, S) <= ProductOn(b, hb, S) * ProductOn(g, fg, S)
<1> DEFINE Fine(K) == ProductOn(b, fb, K) * ProductOn(g, hg, K) <= ProductOn(b, hb, K) * ProductOn(g, fg, K)
           bad == {K \in SUBSET S : ~ Fine(K)}
<1>1. SUFFICES ASSUME bad # {} PROVE FALSE
  OBVIOUS
<1>2. PICK K \in bad : \A U \in SUBSET K : U # K => U \notin bad
  <2>1. bad \in SUBSET SUBSET S
    OBVIOUS
  <2> HIDE DEF bad
  <2> QED
    BY <1>1, <2>1, LeastSet
<1>3. IsFiniteSet(K) /\ K \in SUBSET S /\ ~ Fine(K)
  BY FS_Subset
<1>4. K # {}
  <2>1. K = {} => /\ ProductOn(b, fb, K) = b /\ ProductOn(b, hb, K) = b
                  /\ ProductOn(g, fg, K) = g /\ ProductOn(g, hg, K) = g
    BY <1>3, ProductOnFirst
  <2>2. b * g <= b * g
    OBVIOUS
  <2> QED
    BY <1>3, <2>1, <2>2
<1> DEFINE x == First(K)
           U == K \ {x}
<1>5. x \in K /\ x \in S /\ U \in SUBSET K /\ U # K /\ U \in SUBSET S /\ IsFiniteSet(U)
  BY <1>3, <1>4, FirstIs, FS_Subset
<1>6. Fine(U)
  BY <1>2, <1>5
<1>7. /\ ProductOn(b, fb, K) = fb[x] * ProductOn(b, fb, U) /\ ProductOn(b, hb, K) = hb[x] * ProductOn(b, hb, U)
      /\ ProductOn(g, fg, K) = fg[x] * ProductOn(g, fg, U) /\ ProductOn(g, hg, K) = hg[x] * ProductOn(g, hg, U)
  BY <1>3, <1>4, ProductOnFirst
<1> HIDE DEF x, U
<1>8. /\ fb[x] \in Nat /\ fg[x] \in Nat /\ hb[x] \in Nat /\ hg[x] \in Nat
      /\ fb[x] * hg[x] <= hb[x] * fg[x]
  BY <1>5
<1>9. /\ ProductOn(b, fb, U) \in Nat /\ ProductOn(b, hb, U) \in Nat
      /\ ProductOn(g, fg, U) \in Nat /\ ProductOn(g, hg, U) \in Nat
  BY <1>5, ProductsPositive
<1>10. (fb[x] * ProductOn(b, fb, U)) * (hg[x] * ProductOn(g, hg, U))
          <= (hb[x] * ProductOn(b, hb, U)) * (fg[x] * ProductOn(g, fg, U))
  BY <1>6, <1>8, <1>9, Crosswise
<1> QED
  BY <1>3, <1>7, <1>10

LEMMA PosteriorIs ==
    \A f : /\ Q!Posterior(f)[1] = ProductOn(Prior[1], [k \in DOMAIN f |-> Odds[f[k]][1]], DOMAIN f)
           /\ Q!Posterior(f)[2] = ProductOn(Prior[2], [k \in DOMAIN f |-> Odds[f[k]][2]], DOMAIN f)
<1>1. \A b, f : Q!Product(b, f) = ProductOn(b, f, DOMAIN f)
  BY DEF Q!Product, Q!FoldFunction, Q!FoldFunctionOnSet, Q!MapThenFoldSet,
         ProductOn, FoldOn, Folds, Join, First, Parts
<1> QED
  BY <1>1 DEF Q!Posterior

LEMMA MoreIsWorse ==
    ASSUME NEW f \in [Features -> DOMAIN Odds], NEW h \in [Features -> DOMAIN Odds],
           \A x \in Features : f[x] <= h[x], Q!Decide(f) = "fail"
    PROVE  Q!Decide(h) = "fail"
<1>1. /\ IsFiniteSet(Features) /\ DOMAIN Odds \subseteq Int
      /\ \A o \in Q!Range(Odds) \cup {Prior} : o \in (Nat \ {0}) \X (Nat \ {0})
      /\ \A v, w \in DOMAIN Odds : v <= w => Odds[v][1] * Odds[w][2] <= Odds[w][1] * Odds[v][2]
  BY LearningAssumption DEF Q!GateAssumption, Q!IsFiniteSet, IsFiniteSet
<1>2. Prior[1] \in Nat \ {0} /\ Prior[2] \in Nat \ {0}
  BY <1>1
<1>3. \A v \in DOMAIN Odds : Odds[v][1] \in Nat \ {0} /\ Odds[v][2] \in Nat \ {0}
  BY <1>1 DEF Q!Range
<1> DEFINE fb == [x \in DOMAIN f |-> Odds[f[x]][1]]
           fg == [x \in DOMAIN f |-> Odds[f[x]][2]]
           hb == [x \in DOMAIN h |-> Odds[h[x]][1]]
           hg == [x \in DOMAIN h |-> Odds[h[x]][2]]
<1>4. DOMAIN f = Features /\ DOMAIN h = Features
  OBVIOUS
<1>5. \A x \in Features : /\ {fb[x], fg[x], hb[x], hg[x]} \subseteq Nat \ {0}
                          /\ fb[x] * hg[x] <= hb[x] * fg[x]
  <2> TAKE x \in Features
  <2>1. f[x] \in DOMAIN Odds /\ h[x] \in DOMAIN Odds /\ f[x] <= h[x]
    OBVIOUS
  <2>2. fb[x] = Odds[f[x]][1] /\ fg[x] = Odds[f[x]][2] /\ hb[x] = Odds[h[x]][1] /\ hg[x] = Odds[h[x]][2]
    BY <1>4
  <2> HIDE DEF fb, fg, hb, hg
  <2> QED
    BY <1>1, <1>3, <2>1, <2>2
<1>6. /\ Q!Posterior(f)[1] = ProductOn(Prior[1], fb, Features) /\ Q!Posterior(f)[2] = ProductOn(Prior[2], fg, Features)
      /\ Q!Posterior(h)[1] = ProductOn(Prior[1], hb, Features) /\ Q!Posterior(h)[2] = ProductOn(Prior[2], hg, Features)
  BY <1>4, PosteriorIs
<1> DEFINE a == Q!Posterior(f)[1]
           b == Q!Posterior(f)[2]
           c == Q!Posterior(h)[1]
           d == Q!Posterior(h)[2]
<1> HIDE DEF fb, fg, hb, hg
<1>7. a \in Nat \ {0} /\ b \in Nat \ {0} /\ c \in Nat \ {0} /\ d \in Nat \ {0}
  BY <1>1, <1>2, <1>5, <1>6, ProductsPositive
<1>8. a * d <= c * b
  BY <1>1, <1>2, <1>5, <1>6, ProductsGrow
<1>9. a >= b
  BY DEF Q!Decide
<1> HIDE DEF a, b, c, d
<1>10. c >= d
  <2>1. \A w, x, y \in Nat : w <= x => w * y <= x * y
    OBVIOUS
  <2>2. \A w, x \in Nat : \A y \in Nat \ {0} : w * y <= x * y => w <= x
    OBVIOUS
  <2>3. b * d <= a * d /\ a * d \in Nat /\ b * d \in Nat /\ c * b \in Nat
    BY <1>7, <1>9, <2>1
  <2>4. d * b <= c * b
    BY <1>7, <1>8, <2>3
  <2> QED
    BY <1>7, <2>2, <2>4
<1> QED
  BY <1>10 DEF Q!Decide, c, d

LEMMA PolicyIsSafe == PatternInv => Q!PolicySafe
BY TopicsIn, MoreIsWorse DEF Q!PolicySafe

\* What the quality filters decide (blocklist.py:70-224, sanitizer.py:70-99, compliance.py:138-200,
\* bayes_filter.py:64-98, evidence.py:193-262): for any lower case of the characters, phrases,
\* scripts, patterns, odds and fields, the trie finds the phrases inserted; a text that
\* comes out of the sanitizer has none of those known, if none of them has a part of the
\* replacement; what the checker passes has no pattern; a higher feature never turns
\* a fail into a pass; a chain verifies as long as nobody edits it, and an edited one only
\* if it lost its end or cuts the same strings into other fields.
THEOREM GateHoldsAlways == LSpec => []GateHolds
<1>1. TrieInv /\ TextInv /\ PatternInv /\ ChainInv => GateHolds
  BY TextIsSafe, PolicyIsSafe, ChainIsTold DEF GateHolds
<1>2. LInit => TrieInv /\ TextInv /\ PatternInv /\ ChainInv
  BY GateInit, ChainInit
<1>3. TrieInv /\ TextInv /\ PatternInv /\ ChainInv /\ [LNext]_lvars
         => TrieInv' /\ TextInv' /\ PatternInv' /\ ChainInv'
  BY GateKept, ChainKept
<1> QED
  BY <1>1, <1>2, <1>3, PTL DEF LSpec

(***************************************************************************)
(* Sketches                                                                *)
(***************************************************************************)

HashedTo == 0 .. Power(2)[HashBits] - 1

\* f holds for each register the largest rank of an item of S that falls into it.
Sketched(f, hash, S) ==
    /\ f = [r \in Registers |-> f[r]]
    /\ \A r \in Registers :
          /\ f[r] \in 0 .. HashBits + 1
          /\ f[r] = 0 \/ \E x \in S : hash[x][1] = r /\ f[r] = H!Rank(hash[x][2])
          /\ \A x \in S : hash[x][1] = r => H!Rank(hash[x][2]) <= f[r]

HashOf(sk) == IF sk \in H!Counters THEN Hashes ELSE LogHashes

SketchInv ==
    /\ registers = [sk \in H!Sketches |-> registers[sk]] /\ added = [sk \in H!Sketches |-> added[sk]]
    /\ count = [sk \in H!Logs |-> count[sk]]
    /\ \A sk \in H!Sketches :
          /\ IsFiniteSet(added[sk]) /\ added[sk] \subseteq Items
          /\ Sketched(registers[sk], HashOf(sk), added[sk])
    /\ \A sk \in H!Logs : count[sk] \in Nat /\ Cardinality(added[sk]) <= count[sk]

LEMMA HashesAre ==
    /\ IsFiniteSet(Registers) /\ Registers # {} /\ HashBits \in Nat /\ HashAlpha \in 0 .. 1000
    /\ \A sk : HashOf(sk) \in [Items -> Registers \X HashedTo]
<1>1. H!Power(2) = Power(2)
  BY DEF H!Power, Power
<1>2. \A S : H!IsFiniteSet(S) <=> IsFiniteSet(S)
  BY DEF H!IsFiniteSet, IsFiniteSet
<1>3. /\ H!IsFiniteSet(Registers) /\ Registers # {} /\ HashBits \in Nat /\ HashAlpha \in 0 .. 1000
      /\ \A h \in {Hashes, LogHashes} : h \in [Items -> Registers \X (0 .. H!Power(2)[HashBits] - 1)]
  BY LearningAssumption DEF H!SketchAssumption
<1>4. \A sk : HashOf(sk) \in {Hashes, LogHashes}
  BY DEF HashOf
<1>5. \A h \in {Hashes, LogHashes} : h \in [Items -> Registers \X HashedTo]
  BY <1>1, <1>3 DEF HashedTo
<1> QED
  BY <1>2, <1>3, <1>4, <1>5

\* The powers of two around a number.
LEMMA HalfOf ==
    ASSUME NEW w \in HashedTo \ {0}
    PROVE  \E b \in 1 .. HashBits :
              /\ Power(2)[b - 1] <= w
              /\ \A c \in 0 .. HashBits : w < Power(2)[c] <=> b <= c
<1>1. HashBits \in Nat /\ \A c \in Nat : Power(2)[c] \in Nat \ {0}
  BY HashesAre, PowerPositive
<1> DEFINE over == {c \in Nat : w < Power(2)[c]}
<1>2. HashBits \in over /\ w \in Nat \ {0}
  BY <1>1 DEF HashedTo
<1>3. PICK b \in over : \A c \in over : b <= c
  <2>1. over \in SUBSET Nat /\ over # {}
    BY <1>2
  <2> HIDE DEF over
  <2> QED
    BY <2>1, Least
<1>4. b # 0
  BY <1>2, PowerIs
<1>5. b \in 1 .. HashBits /\ b - 1 \in Nat /\ b - 1 \notin over
  BY <1>1, <1>2, <1>3, <1>4
<1>6. Power(2)[b - 1] <= w
  BY <1>1, <1>2, <1>5
<1>7. ASSUME NEW c \in 0 .. HashBits PROVE w < Power(2)[c] <=> b <= c
  <2>1. CASE b < c
    <3>1. 2 * Power(2)[b] <= Power(2)[c]
      BY <2>1, PowerGrows
    <3> QED
      BY <1>1, <1>2, <2>1, <3>1
  <2>2. CASE b = c
    BY <2>2
  <2>3. CASE c < b
    BY <1>3, <2>3
  <2> QED
    BY <2>1, <2>2, <2>3
<1> QED
  BY <1>5, <1>6, <1>7

\* Both ways to find the first 1-bit find the half the hash lies in.
LEMMA RhoIsRank ==
    ASSUME NEW w \in HashedTo
    PROVE  /\ H!Rank(w) \in 1 .. HashBits + 1
           /\ H!CounterRho(w) = H!Rank(w) /\ H!LogRho(w) = H!Rank(w)
<1>1. HashBits \in Nat /\ \A c \in Nat : Power(2)[c] \in Nat \ {0}
  BY HashesAre, PowerPositive
<1>2. H!Power(2) = Power(2) /\ \A S : H!Cardinality(S) = Cardinality(S)
  BY DEF H!Power, Power, H!Cardinality, Cardinality
<1> DEFINE In(k) == IF w = 0 \/ k = HashBits + 1 THEN w = 0 /\ k = HashBits + 1
                    ELSE w \in Power(2)[HashBits - k] .. Power(2)[HashBits - k + 1] - 1
<1>3. H!Rank(w) = CHOOSE k \in 1 .. HashBits + 1 : In(k)
  BY <1>2 DEF H!Rank
<1>4. CASE w = 0
  <2>1. \A k \in 1 .. HashBits + 1 : In(k) <=> k = HashBits + 1
    BY <1>4
  <2> HIDE DEF In
  <2>2. H!Rank(w) = HashBits + 1
    BY <1>1, <1>3, <2>1
  <2>3. {c \in 0 .. HashBits - 1 : w < Power(2)[c]} = 0 .. HashBits - 1
    BY <1>1, <1>4
  <2>4. H!LeadingZeros(w) = HashBits
    <3>1. H!LeadingZeros(w) = Cardinality({c \in 0 .. HashBits - 1 : w < Power(2)[c]})
      BY <1>2 DEF H!LeadingZeros
    <3>2. Cardinality(0 .. HashBits - 1) = HashBits
      BY <1>1, FS_Interval
    <3> QED
      BY <2>3, <3>1, <3>2
  <2> QED
    BY <1>1, <1>4, <2>2, <2>4 DEF H!CounterRho, H!LogRho
<1>5. CASE w # 0
  <2>1. PICK b \in 1 .. HashBits :
              /\ Power(2)[b - 1] <= w
              /\ \A c \in 0 .. HashBits : w < Power(2)[c] <=> b <= c
    BY <1>5, HalfOf
  <2>2. ASSUME NEW k \in 1 .. HashBits + 1 PROVE In(k) <=> k = HashBits - b + 1
    <3>1. CASE k = HashBits + 1
      BY <1>1, <1>5, <3>1
    <3>2. CASE k # HashBits + 1
      <4> DEFINE c == HashBits - k
      <4>1. c \in 0 .. HashBits - 1 /\ c + 1 \in 0 .. HashBits /\ c \in 0 .. HashBits
        BY <1>1, <3>2
      <4>2. Power(2)[c] \in Nat /\ Power(2)[c + 1] \in Nat /\ w \in Nat
        BY <1>1, <4>1 DEF HashedTo
      <4>3. In(k) <=> w \in Power(2)[c] .. Power(2)[c + 1] - 1
        BY <1>5, <3>2
      <4>4. (w < Power(2)[c] <=> b <= c) /\ (w < Power(2)[c + 1] <=> b <= c + 1)
        BY <2>1, <4>1
      <4>5. In(k) <=> ~ b <= c /\ b <= c + 1
        <5> HIDE DEF In, c
        <5> QED
          BY <4>2, <4>3, <4>4
      <4> HIDE DEF In
      <4> QED
        BY <1>1, <4>1, <4>5
    <3> QED
      BY <3>1, <3>2
  <2> HIDE DEF In
  <2>3. H!Rank(w) = HashBits - b + 1 /\ HashBits - b + 1 \in 1 .. HashBits + 1
    BY <1>1, <1>3, <2>2
  <2>4. H!BitLength(w) = b
    <3>1. H!BitLength(w) = CHOOSE x \in {c \in 0 .. HashBits : w < Power(2)[c]} :
                              \A y \in {c \in 0 .. HashBits : w < Power(2)[c]} : x <= y
      BY <1>2 DEF H!BitLength, H!Min
    <3>2. {c \in 0 .. HashBits : w < Power(2)[c]} = b .. HashBits
      BY <1>1, <2>1
    <3>3. H!BitLength(w) = CHOOSE x \in b .. HashBits : \A y \in b .. HashBits : x <= y
      BY <3>1, <3>2
    <3> QED
      BY <1>1, <3>3
  <2>5. H!LeadingZeros(w) = HashBits - b
    <3>1. {c \in 0 .. HashBits - 1 : w < Power(2)[c]} = b .. HashBits - 1
      BY <1>1, <2>1
    <3>2. H!LeadingZeros(w) = Cardinality({c \in 0 .. HashBits - 1 : w < Power(2)[c]})
      BY <1>2 DEF H!LeadingZeros
    <3>3. Cardinality(b .. HashBits - 1) = HashBits - b
      BY <1>1, FS_Interval
    <3> QED
      BY <3>1, <3>2, <3>3
  <2> QED
    BY <1>1, <1>5, <2>3, <2>4, <2>5 DEF H!CounterRho, H!LogRho
<1> QED
  BY <1>4, <1>5

\* What is kept of a set is what the definition says.
LEMMA SketchedIs ==
    ASSUME NEW f, NEW sk, NEW S \in SUBSET Items, Sketched(f, HashOf(sk), S)
    PROVE  f = H!SketchOf(HashOf(sk), S)
<1> DEFINE hash == HashOf(sk)
           In(r) == {0} \cup {H!Rank(hash[x][2]) : x \in {y \in S : hash[y][1] = r}}
<1>1. H!SketchOf(hash, S) = [r \in Registers |-> CHOOSE m \in In(r) : \A y \in In(r) : m >= y]
  BY DEF H!SketchOf, H!Max
<1>2. hash \in [Items -> Registers \X HashedTo]
  BY HashesAre
<1> HIDE DEF hash
<1>3. ASSUME NEW r \in Registers PROVE f[r] = CHOOSE m \in In(r) : \A y \in In(r) : m >= y
  <2>1. f[r] \in Nat /\ f[r] \in In(r)
    BY HashesAre DEF Sketched, hash
  <2>2. \A y \in In(r) : y \in Nat /\ y <= f[r]
    <3>1. \A x \in S : hash[x][1] = r => H!Rank(hash[x][2]) \in Nat /\ H!Rank(hash[x][2]) <= f[r]
      <4>1. \A x \in S : H!Rank(hash[x][2]) \in Nat
        BY <1>2, RhoIsRank, HashesAre
      <4> QED
        BY <4>1 DEF Sketched, hash
    <3> QED
      BY <2>1, <3>1
  <2> HIDE DEF In
  <2> QED
    BY <2>1, <2>2
<1>4. f = [r \in Registers |-> f[r]]
  BY DEF Sketched
<1> HIDE DEF In
<1>5. H!SketchOf(hash, S) = [r \in Registers |-> f[r]]
  BY <1>1, <1>3
<1> QED
  BY <1>4, <1>5 DEF hash

LEMMA RaisedSketched ==
    ASSUME NEW f, NEW sk, NEW S \in SUBSET Items, Sketched(f, HashOf(sk), S), NEW y \in Items,
           NEW rho, rho = H!Rank(HashOf(sk)[y][2])
    PROVE  Sketched(H!Raised(f, HashOf(sk)[y][1], rho), HashOf(sk), S \cup {y})
<1> DEFINE hash == HashOf(sk)
           q == hash[y][1]
           g == H!Raised(f, q, rho)
<1>1. hash \in [Items -> Registers \X HashedTo] /\ HashBits \in Nat
  BY HashesAre
<1> HIDE DEF hash
<1>2. q \in Registers /\ rho \in 1 .. HashBits + 1 /\ rho = H!Rank(hash[y][2])
  BY <1>1, RhoIsRank DEF hash
<1>3. /\ f = [r \in Registers |-> f[r]]
      /\ \A r \in Registers :
          /\ f[r] \in 0 .. HashBits + 1
          /\ f[r] = 0 \/ \E x \in S : hash[x][1] = r /\ f[r] = H!Rank(hash[x][2])
          /\ \A x \in S : hash[x][1] = r => H!Rank(hash[x][2]) <= f[r]
  BY DEF Sketched, hash
<1>4. g = [f EXCEPT ![q] = IF rho > f[q] THEN rho ELSE f[q]]
  BY DEF H!Raised
<1>5. /\ g = [r \in Registers |-> g[r]]
      /\ g[q] = (IF rho > f[q] THEN rho ELSE f[q])
      /\ \A r \in Registers : r # q => g[r] = f[r]
  BY <1>2, <1>3, <1>4
<1> HIDE DEF g
<1>6. ASSUME NEW r \in Registers
      PROVE  /\ g[r] \in 0 .. HashBits + 1
             /\ g[r] = 0 \/ \E x \in S \cup {y} : hash[x][1] = r /\ g[r] = H!Rank(hash[x][2])
             /\ \A x \in S \cup {y} : hash[x][1] = r => H!Rank(hash[x][2]) <= g[r]
  <2>1. CASE r # q
    BY <1>3, <1>5, <2>1
  <2>2. CASE r = q /\ rho > f[q]
    <3>1. g[r] = rho
      BY <1>5, <2>2
    <3>2. \A x \in S : hash[x][1] = r => H!Rank(hash[x][2]) <= rho
      <4>1. \A x \in S : H!Rank(hash[x][2]) \in Int
        BY <1>1, RhoIsRank
      <4> QED
        BY <1>1, <1>2, <1>3, <2>2, <4>1
    <3> QED
      BY <1>1, <1>2, <2>2, <3>1, <3>2
  <2>3. CASE r = q /\ ~ rho > f[q]
    <3>1. g[r] = f[r] /\ rho <= f[r]
      BY <1>1, <1>2, <1>3, <1>5, <2>3
    <3> QED
      BY <1>2, <1>3, <2>3, <3>1
  <2> QED
    BY <2>1, <2>2, <2>3
<1>7. Sketched(g, hash, S \cup {y})
  BY <1>5, <1>6 DEF Sketched
<1> QED
  BY <1>7 DEF g, hash

LEMMA UnionSketched ==
    ASSUME NEW f, NEW g, NEW sk, NEW S \in SUBSET Items, NEW U \in SUBSET Items,
           Sketched(f, HashOf(sk), S), Sketched(g, HashOf(sk), U)
    PROVE  Sketched(H!Union(f, g), HashOf(sk), S \cup U)
<1> DEFINE hash == HashOf(sk)
           h == H!Union(f, g)
<1>1. hash \in [Items -> Registers \X HashedTo] /\ HashBits \in Nat
  BY HashesAre
<1> HIDE DEF hash
<1>2. h = [r \in Registers |-> IF f[r] > g[r] THEN f[r] ELSE g[r]]
  BY DEF H!Union
<1> HIDE DEF h
<1>3. \A x \in S \cup U : H!Rank(hash[x][2]) \in Int
  BY <1>1, RhoIsRank
<1>4. ASSUME NEW r \in Registers
      PROVE  /\ h[r] \in 0 .. HashBits + 1
             /\ h[r] = 0 \/ \E x \in S \cup U : hash[x][1] = r /\ h[r] = H!Rank(hash[x][2])
             /\ \A x \in S \cup U : hash[x][1] = r => H!Rank(hash[x][2]) <= h[r]
  <2>1. /\ f[r] \in 0 .. HashBits + 1
        /\ f[r] = 0 \/ \E x \in S : hash[x][1] = r /\ f[r] = H!Rank(hash[x][2])
        /\ \A x \in S : hash[x][1] = r => H!Rank(hash[x][2]) <= f[r]
    BY DEF Sketched, hash
  <2>2. /\ g[r] \in 0 .. HashBits + 1
        /\ g[r] = 0 \/ \E x \in U : hash[x][1] = r /\ g[r] = H!Rank(hash[x][2])
        /\ \A x \in U : hash[x][1] = r => H!Rank(hash[x][2]) <= g[r]
    BY DEF Sketched, hash
  <2>3. h[r] = IF f[r] > g[r] THEN f[r] ELSE g[r]
    BY <1>2
  <2>4. h[r] \in 0 .. HashBits + 1 /\ f[r] <= h[r] /\ g[r] <= h[r] /\ (h[r] = f[r] \/ h[r] = g[r])
    BY <1>1, <2>1, <2>2, <2>3
  <2>5. \A x \in S \cup U : hash[x][1] = r => H!Rank(hash[x][2]) <= h[r]
    <3> SUFFICES ASSUME NEW x \in S \cup U, hash[x][1] = r PROVE H!Rank(hash[x][2]) <= h[r]
      OBVIOUS
    <3>1. H!Rank(hash[x][2]) <= f[r] \/ H!Rank(hash[x][2]) <= g[r]
      BY <2>1, <2>2
    <3> DEFINE k == H!Rank(hash[x][2])
    <3>2. k \in Int /\ (k <= f[r] \/ k <= g[r])
      BY <1>3, <3>1
    <3> HIDE DEF k
    <3>3. k <= h[r]
      BY <1>1, <2>1, <2>2, <2>4, <3>2
    <3> QED
      BY <3>3 DEF k
  <2> QED
    BY <2>1, <2>2, <2>4, <2>5
<1>5. h = [r \in Registers |-> h[r]]
  BY <1>2
<1>6. Sketched(h, hash, S \cup U)
  BY <1>4, <1>5 DEF Sketched
<1> QED
  BY <1>6 DEF h, hash

\* Few items leave registers empty, enough for linear counting.
LEMMA SketchedSparse ==
    ASSUME NEW f, NEW sk, NEW S \in SUBSET Items, IsFiniteSet(S), Sketched(f, HashOf(sk), S),
           2 * Cardinality(S) <= Cardinality(Registers)
    PROVE  H!Linear(f) /\ H!M - H!Zeros(f) <= Cardinality(S)
<1> DEFINE hash == HashOf(sk)
           Z == {r \in Registers : f[r] = 0}
           P == {r \in Registers : f[r] # 0}
           m == Cardinality(Registers)
           z == Cardinality(Z)
           full == Power(2)[HashBits + 1]
           halves == [r \in Registers |-> Power(2)[HashBits + 1 - f[r]]]
           h == SumOn(halves, Registers)
<1>1. IsFiniteSet(Registers) /\ Registers # {} /\ HashBits \in Nat /\ HashAlpha \in 0 .. 1000
  BY HashesAre
<1>2. \A X : H!Cardinality(X) = Cardinality(X)
  BY DEF H!Cardinality, Cardinality
<1>3. \A b : H!Power(b) = Power(b)
  BY DEF H!Power, Power
<1>4. H!M = m /\ H!Zeros(f) = z
  BY <1>2 DEF H!M, H!Zeros
<1>5. IsFiniteSet(Z) /\ IsFiniteSet(P) /\ z \in Nat /\ Cardinality(P) \in Nat /\ m = z + Cardinality(P)
  <2>1. P = Registers \ Z /\ Registers \cap Z = Z
    OBVIOUS
  <2>2. IsFiniteSet(P) /\ Cardinality(P) = m - z /\ IsFiniteSet(Z)
    <3>1. Z \in SUBSET Registers
      OBVIOUS
    <3> HIDE DEF Z, P
    <3>2. IsFiniteSet(Registers \ Z) /\ Cardinality(Registers \ Z) = Cardinality(Registers) - Cardinality(Registers \cap Z)
      BY <1>1, FS_Difference
    <3>3. IsFiniteSet(Z)
      BY <1>1, <3>1, FS_Subset
    <3> QED
      BY <2>1, <3>2, <3>3
  <2> HIDE DEF Z, P
  <2>3. m \in Nat /\ z \in Nat /\ Cardinality(P) \in Nat
    BY <1>1, <2>2, FS_CardinalityType
  <2> QED
    BY <2>2, <2>3
<1>6. Cardinality(P) <= Cardinality(S) /\ Cardinality(S) \in Nat
  <2> DEFINE g == [r \in P |-> CHOOSE x \in S : hash[x][1] = r]
  <2>1. \A r \in P : g[r] \in S /\ hash[g[r]][1] = r
    BY DEF Sketched
  <2>2. g \in [P -> S]
    BY <2>1
  <2> HIDE DEF g, P
  <2>3. Cardinality(S) \in Nat
    BY FS_CardinalityType
  <2>4. CASE Cardinality(S) < Cardinality(P)
    <3>1. \E x, y \in P : x # y /\ g[x] = g[y]
      BY <1>5, <2>2, <2>4, FS_PigeonHole
    <3> QED
      BY <2>1, <3>1
  <2> QED
    BY <1>5, <2>3, <2>4
<1>7. m \in Nat /\ m > 0 /\ m <= 2 * z
  <2>1. m # 0
    BY <1>1, FS_EmptySet
  <2> HIDE DEF m, z, Z, P
  <2>2. 2 * Cardinality(S) <= m
    BY DEF m
  <2> QED
    BY <1>5, <1>6, <2>1, <2>2
<1>8. H!Harmonic(f) = h
  <2>1. H!Harmonic(f) = H!FoldFunction(+, 0, halves)
    BY <1>3 DEF H!Harmonic
  <2>2. H!FoldFunction(+, 0, halves) = SumOn(halves, DOMAIN halves)
    BY DEF H!FoldFunction, H!FoldFunctionOnSet, H!MapThenFoldSet, SumOn, FoldOn, Folds, Join, First, Parts
  <2> QED
    BY <2>1, <2>2
<1>9. h \in Int /\ full \in Nat /\ z * full <= h
  <2> DEFINE empty == [r \in Registers |-> IF r \in Z THEN full ELSE 0]
  <2>1. full \in Nat
    BY <1>1, PowerPositive
  <2>2. ASSUME NEW r \in Registers
        PROVE  halves[r] \in Int /\ empty[r] \in Int /\ 1 * empty[r] <= 1 * halves[r]
    <3>1. f[r] \in 0 .. HashBits + 1
      BY DEF Sketched
    <3>2. halves[r] \in Nat /\ (f[r] = 0 => halves[r] = full)
      BY <1>1, <3>1, PowerPositive
    <3>3. empty[r] = IF f[r] = 0 THEN full ELSE 0
      OBVIOUS
    <3> HIDE DEF halves, empty, full
    <3> QED
      BY <2>1, <3>2, <3>3
  <2>3. Registers \cap Z = Z
    OBVIOUS
  <2> HIDE DEF halves, Z, full
  <2>4. SumOn(empty, Registers) = full * Cardinality(Z)
    <3>1. SumOn([r \in Registers |-> IF r \in Z THEN full ELSE 0], Registers) = full * Cardinality(Registers \cap Z)
      <4>1. full \in Int
        BY <2>1
      <4> QED
        BY <1>1, <4>1, SumOnCount
    <3> QED
      BY <2>3, <3>1
  <2> HIDE DEF empty
  <2>5. 1 * SumOn(empty, Registers) <= 1 * SumOn(halves, Registers)
    <3>1. 1 \in Int
      OBVIOUS
    <3> QED
      BY <1>1, <2>2, <3>1, SumOnCompare
  <2>6. SumOn(halves, Registers) \in Int
    BY <1>1, <2>2, SumOnInt
  <2>7. full * z = z * full /\ full * z \in Int
    BY <1>5, <2>1
  <2> QED
    BY <2>1, <2>4, <2>5, <2>6, <2>7
<1> HIDE DEF Z, P, m, z, full, halves, h
<1>10. 2 * HashAlpha * m * full <= 5 * 1000 * h
  <2>1. m * full <= 2 * (z * full) /\ m * full \in Nat /\ z * full \in Nat
    <3>1. full * m <= full * (2 * z)
      BY <1>5, <1>7, <1>9, ProductsOrdered
    <3>2. full * m = m * full /\ full * (2 * z) = 2 * (z * full) /\ m * full \in Nat /\ z * full \in Nat
      BY <1>5, <1>7, <1>9
    <3> QED
      BY <3>1, <3>2
  <2> DEFINE w == m * full
             v == z * full
  <2>2. 2 * HashAlpha * m * full = w * (2 * HashAlpha)
    BY <1>1, <1>7, <1>9
  <2>3. w \in Nat /\ v \in Nat /\ w <= 2 * v /\ v <= h
    BY <1>9, <2>1
  <2> HIDE DEF w, v
  <2>4. w * (2 * HashAlpha) <= w * 2000
    BY <1>1, <2>3, ProductsOrdered
  <2>5. w * (2 * HashAlpha) \in Int
    BY <1>1, <2>3
  <2> QED
    BY <1>9, <2>2, <2>3, <2>4, <2>5
<1>11. full = H!Power(2)[HashBits + 1]
  BY <1>3 DEF full
<1>12. H!SmallRange(f)
  BY <1>4, <1>8, <1>10, <1>11 DEF H!SmallRange
<1> QED
  BY <1>4, <1>5, <1>6, <1>7, <1>12 DEF H!Linear

SketchParts == {"counter", "log"}

LEMMA SketchInit == LInit => SketchInv
<1> SUFFICES ASSUME LInit PROVE SketchInv
  OBVIOUS
<1>1. /\ registers = [sk \in H!Sketches |-> H!Empty]
      /\ count = [sk \in H!Logs |-> 0]
      /\ added = [sk \in H!Sketches |-> {}]
  BY DEF LInit, H!HInit
<1>2. \A sk : Sketched(H!Empty, HashOf(sk), {})
  BY HashesAre DEF Sketched, H!Empty
<1>3. (\A sk \in H!Sketches : registers[sk] = H!Empty /\ added[sk] = {}) /\ \A sk \in H!Logs : count[sk] = 0
  BY <1>1
<1>4. \A sk \in H!Logs : sk \in H!Sketches
  BY DEF H!Sketches
<1>5. IsFiniteSet({}) /\ Cardinality({}) = 0
  BY FS_EmptySet
<1>6. ASSUME NEW sk \in H!Sketches
      PROVE  /\ IsFiniteSet(added[sk]) /\ added[sk] \subseteq Items
             /\ Sketched(registers[sk], HashOf(sk), added[sk])
  <2>1. registers[sk] = H!Empty /\ added[sk] = {}
    BY <1>3
  <2> QED
    BY <1>2, <1>5, <2>1
<1>7. ASSUME NEW sk \in H!Logs PROVE count[sk] \in Nat /\ Cardinality(added[sk]) <= count[sk]
  <2>1. count[sk] = 0 /\ added[sk] = {}
    BY <1>3, <1>4
  <2> QED
    BY <1>5, <2>1
<1> QED
  BY <1>1, <1>6, <1>7 DEF SketchInv

\* One sketch is replaced by a sketch of more.
LEMMA SketchReplaced ==
    ASSUME SketchInv, NEW sk \in H!Sketches, NEW f, NEW more \in SUBSET Items, IsFiniteSet(more), NEW c,
           Sketched(f, HashOf(sk), added[sk] \cup more),
           registers' = [registers EXCEPT ![sk] = f],
           added' = [added EXCEPT ![sk] = @ \cup more],
           sk \in H!Logs =>
              c \in Nat /\ Cardinality(more) <= c /\ count' = [count EXCEPT ![sk] = @ + c],
           sk \notin H!Logs => count' = count
    PROVE  SketchInv'
<1>1. /\ registers = [x \in H!Sketches |-> registers[x]] /\ added = [x \in H!Sketches |-> added[x]]
      /\ count = [x \in H!Logs |-> count[x]]
      /\ \A x \in H!Sketches :
            /\ IsFiniteSet(added[x]) /\ added[x] \subseteq Items
            /\ Sketched(registers[x], HashOf(x), added[x])
      /\ \A x \in H!Logs : count[x] \in Nat /\ Cardinality(added[x]) <= count[x] /\ x \in H!Sketches
  BY DEF SketchInv, H!Sketches
<1>2. /\ registers' = [x \in H!Sketches |-> registers'[x]] /\ added' = [x \in H!Sketches |-> added'[x]]
      /\ count' = [x \in H!Logs |-> count'[x]]
  BY <1>1
<1>3. /\ registers'[sk] = f /\ added'[sk] = added[sk] \cup more
      /\ \A x \in H!Sketches : x # sk => registers'[x] = registers[x] /\ added'[x] = added[x]
      /\ \A x \in H!Logs : x # sk => count'[x] = count[x]
      /\ sk \in H!Logs => count'[sk] = count[sk] + c
  BY <1>1
<1>4. IsFiniteSet(added[sk] \cup more) /\ added[sk] \cup more \subseteq Items
  BY <1>1, FS_Union
<1>5. ASSUME NEW x \in H!Sketches
      PROVE  /\ IsFiniteSet(added'[x]) /\ added'[x] \subseteq Items
             /\ Sketched(registers'[x], HashOf(x), added'[x])
  BY <1>1, <1>3, <1>4
<1>6. ASSUME NEW x \in H!Logs PROVE count'[x] \in Nat /\ Cardinality(added'[x]) <= count'[x]
  <2>1. CASE x # sk
    BY <1>1, <1>3, <2>1
  <2>2. CASE x = sk
    <3>1. /\ Cardinality(added[sk] \cup more)
                = Cardinality(added[sk]) + Cardinality(more) - Cardinality(added[sk] \cap more)
          /\ Cardinality(added[sk] \cap more) \in Nat
          /\ Cardinality(added[sk]) \in Nat /\ Cardinality(more) \in Nat
      <4>1. IsFiniteSet(added[sk]) /\ IsFiniteSet(added[sk] \cap more)
        BY <1>1, FS_Intersection
      <4> QED
        BY <4>1, FS_Union, FS_CardinalityType
    <3>2. count[sk] \in Nat /\ Cardinality(added[sk]) <= count[sk] /\ c \in Nat /\ Cardinality(more) <= c
      BY <1>1, <2>2
    <3>3. count'[x] = count[sk] + c /\ added'[x] = added[sk] \cup more
      BY <1>3, <2>2
    <3>4. \A i, j, k, l \in Nat : i <= k /\ j <= c => i + j - l <= k + c
      BY <3>2
    <3>5. Cardinality(added[sk] \cup more) <= count[sk] + c
      BY <3>1, <3>2, <3>4
    <3>6. Cardinality(added'[x]) = Cardinality(added[sk] \cup more)
      BY <3>3
    <3>7. count[sk] + c \in Nat
      BY <3>2
    <3> QED
      BY <3>3, <3>5, <3>6, <3>7
  <2> QED
    BY <2>1, <2>2
<1>7. \A x : HashOf(x)' = HashOf(x)
  BY DEF HashOf, H!Counters
<1>8. \A x \in H!Sketches : Sketched(registers[x], HashOf(x), added[x])'
  BY <1>5, <1>7 DEF Sketched
<1> QED
  BY <1>2, <1>5, <1>6, <1>8 DEF SketchInv

LEMMA SketchKept == ASSUME part \in SketchParts, SketchInv, [LNext]_lvars PROVE SketchInv'
<1>1. H!CounterNext \/ H!LogNext \/ UNCHANGED sketches
  BY DEF LNext, lvars, SketchParts
<1>2. \A x \in H!Sketches :
         /\ IsFiniteSet(added[x]) /\ added[x] \in SUBSET Items
         /\ Sketched(registers[x], HashOf(x), added[x])
  BY DEF SketchInv
<1>3. H!Counters \subseteq H!Sketches /\ H!Logs \subseteq H!Sketches /\ H!Counters \cap H!Logs = {}
  BY DEF H!Sketches, H!Counters, H!Logs
<1>4. CASE UNCHANGED sketches
  <2>1. registers' = registers /\ added' = added /\ count' = count
    BY <1>4 DEF sketches
  <2>2. \A x : HashOf(x)' = HashOf(x)
    BY DEF HashOf, H!Counters
  <2>3. \A x \in H!Sketches : Sketched(registers[x], HashOf(x), added[x])'
    BY <1>2, <2>1, <2>2 DEF Sketched
  <2> QED
    BY <2>1, <2>3 DEF SketchInv
<1>5. ASSUME NEW sk \in H!Sketches, NEW x \in Items, NEW rho, rho = H!Rank(HashOf(sk)[x][2]),
             registers' = [registers EXCEPT ![sk] = H!Raised(@, HashOf(sk)[x][1], rho)],
             added' = [added EXCEPT ![sk] = @ \cup {x}],
             IF sk \in H!Logs THEN count' = [count EXCEPT ![sk] = @ + 1] ELSE count' = count
      PROVE  SketchInv'
  <2> DEFINE f == H!Raised(registers[sk], HashOf(sk)[x][1], rho)
  <2>1. Sketched(f, HashOf(sk), added[sk] \cup {x})
    BY <1>2, <1>5, RaisedSketched
  <2>2. registers' = [registers EXCEPT ![sk] = f]
    BY <1>5
  <2>3. {x} \in SUBSET Items /\ IsFiniteSet({x}) /\ Cardinality({x}) <= 1 /\ 1 \in Nat
    <3>1. IsFiniteSet({x}) /\ Cardinality({x}) = 1
      BY FS_Singleton
    <3> QED
      BY <3>1
  <2> HIDE DEF f
  <2> QED
    BY <1>5, <2>1, <2>2, <2>3, SketchReplaced
<1>6. ASSUME NEW sk \in H!Counters, NEW x \in Items, H!AddCounter(sk, x) PROVE SketchInv'
  <2>1. HashOf(sk) = Hashes /\ sk \notin H!Logs /\ sk \in H!Sketches
    BY <1>3 DEF HashOf
  <2>2. H!CounterRho(Hashes[x][2]) = H!Rank(Hashes[x][2])
    BY <2>1, HashesAre, RhoIsRank
  <2> QED
    BY <1>5, <1>6, <2>1, <2>2 DEF H!AddCounter
<1>7. ASSUME NEW sk \in H!Logs, NEW x \in Items, H!AddLog(sk, x) PROVE SketchInv'
  <2>1. HashOf(sk) = LogHashes /\ sk \in H!Sketches
    BY <1>3 DEF HashOf
  <2>2. H!LogRho(LogHashes[x][2]) = H!Rank(LogHashes[x][2])
    BY <2>1, HashesAre, RhoIsRank
  <2> QED
    BY <1>5, <1>7, <2>1, <2>2 DEF H!AddLog
<1>8. ASSUME NEW sk \in H!Sketches, NEW t \in H!Sketches, sk \in H!Logs <=> t \in H!Logs, H!Merge(sk, t)
      PROVE  SketchInv'
  <2> DEFINE f == H!Union(registers[sk], registers[t])
  <2>1. HashOf(t) = HashOf(sk)
    BY <1>3, <1>8 DEF HashOf, H!Sketches
  <2>2. Sketched(f, HashOf(sk), added[sk] \cup added[t])
    BY <1>2, <2>1, UnionSketched
  <2>3. /\ registers' = [registers EXCEPT ![sk] = f]
        /\ added' = [added EXCEPT ![sk] = @ \cup added[t]]
        /\ sk \in H!Logs => count' = [count EXCEPT ![sk] = @ + count[t]]
        /\ sk \notin H!Logs => count' = count
    BY <1>8 DEF H!Merge
  <2>4. sk \in H!Logs => count[t] \in Nat /\ Cardinality(added[t]) <= count[t]
    BY <1>8 DEF SketchInv
  <2> HIDE DEF f
  <2> QED
    BY <1>2, <2>2, <2>3, <2>4, SketchReplaced
<1>9. CASE H!CounterNext
  <2>1. \/ \E sk \in H!Counters, x \in Items : H!AddCounter(sk, x)
        \/ \E sk, t \in H!Counters : H!Merge(sk, t)
    BY <1>9 DEF H!CounterNext
  <2>2. ASSUME NEW sk \in H!Counters, NEW t \in H!Counters, H!Merge(sk, t) PROVE SketchInv'
    <3>1. sk \in H!Sketches /\ t \in H!Sketches /\ (sk \in H!Logs <=> t \in H!Logs)
      BY <1>3
    <3> QED
      BY <1>8, <2>2, <3>1
  <2> QED
    BY <1>6, <2>1, <2>2
<1>10. CASE H!LogNext
  <2>1. \/ \E sk \in H!Logs, x \in Items : H!AddLog(sk, x)
        \/ \E sk, t \in H!Logs : H!Merge(sk, t)
    BY <1>10 DEF H!LogNext
  <2>2. ASSUME NEW sk \in H!Logs, NEW t \in H!Logs, H!Merge(sk, t) PROVE SketchInv'
    <3>1. sk \in H!Sketches /\ t \in H!Sketches /\ (sk \in H!Logs <=> t \in H!Logs)
      BY <1>3
    <3> QED
      BY <1>8, <2>2, <3>1
  <2> QED
    BY <1>7, <2>1, <2>2
<1> QED
  BY <1>1, <1>4, <1>9, <1>10

LEMMA SketchTells == SketchInv => H!SketchOfSet
<1> SUFFICES ASSUME SketchInv PROVE H!SketchOfSet
  OBVIOUS
<1>1. H!Counters \subseteq H!Sketches /\ H!Logs \subseteq H!Sketches
      /\ (\A sk \in H!Counters : HashOf(sk) = Hashes) /\ \A sk \in H!Logs : HashOf(sk) = LogHashes
  BY DEF H!Sketches, H!Counters, H!Logs, HashOf
<1>2. \A sk \in H!Sketches :
         /\ IsFiniteSet(added[sk]) /\ added[sk] \in SUBSET Items
         /\ Sketched(registers[sk], HashOf(sk), added[sk])
  BY DEF SketchInv
<1>3. \A S : H!Cardinality(S) = Cardinality(S)
  BY DEF H!Cardinality, Cardinality
<1>4. \A sk \in H!Sketches : registers[sk] = H!SketchOf(HashOf(sk), added[sk])
  BY <1>2, SketchedIs
<1>5. ASSUME NEW sk \in H!Sketches, 2 * H!Cardinality(added[sk]) <= H!M
      PROVE  H!Linear(registers[sk]) /\ H!M - H!Zeros(registers[sk]) <= H!Cardinality(added[sk])
  <2>1. 2 * Cardinality(added[sk]) <= Cardinality(Registers)
    BY <1>3, <1>5 DEF H!M
  <2> QED
    BY <1>2, <1>3, <2>1, SketchedSparse
<1>6. ASSUME NEW sk \in H!Logs PROVE count[sk] >= H!Cardinality(added[sk])
  <2>1. count[sk] \in Nat /\ Cardinality(added[sk]) <= count[sk] /\ IsFiniteSet(added[sk])
    BY <1>1, <1>2 DEF SketchInv
  <2>2. Cardinality(added[sk]) \in Nat
    BY <2>1, FS_CardinalityType
  <2> QED
    BY <1>3, <2>1, <2>2
<1> QED
  BY <1>1, <1>4, <1>5, <1>6 DEF H!SketchOfSet

LEMMA PartStays == ASSUME [LNext]_lvars PROVE part' = part
BY DEF LNext, lvars

\* SketchOfSet in every reachable state.
THEOREM SketchOfSetHolds == LSpec => []SketchOfSet
<1> DEFINE Inv == part \in SketchParts => SketchInv
<1>1. LInit => Inv
  BY SketchInit
<1>2. Inv /\ [LNext]_lvars => Inv'
  BY SketchKept, PartStays
<1>3. Inv => SketchOfSet
  BY SketchTells DEF SketchOfSet, SketchParts
<1> HIDE DEF Inv
<1> QED
  BY <1>1, <1>2, <1>3, PTL DEF LSpec
=============================================================================
