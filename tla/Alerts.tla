------------------------------- MODULE Alerts -------------------------------
(***************************************************************************)
(* The two ways to alert: AlertManager (adapters/monitoring/alerts.py) marks*)
(* a message when the webhook's answer comes and forgets it after a cooldown*)
(* of its own; SlackNotifier (notifications/slack.py) marks two bits of a Bloom*)
(* filter before the POST and clears the filter once a window.  Of a message*)
(* its level and its bits matter, not its text.                             *)
(***************************************************************************)
EXTENDS Integers, Sequences, FiniteSets

CONSTANTS
    Messages,       \* (message, level) pairs
    Text,           \* their text, which is all that Slack's filter looks at
    Bits,           \* positions of a text in the filter
    Cooldown,       \* cooldown_hours, in ticks
    Configured,     \* is there a webhook
    MaxTime, MaxPosts,  \* bounds
    Idle

AlertAssumption ==
    /\ Cooldown \in Nat \ {0} /\ {MaxTime, MaxPosts} \subseteq Nat
    /\ Idle \notin {"manager", "slack"}

VARIABLES
    now,
    sentAt,         \* AlertManager._sent_at
    bits,           \* bit array of the AlertDeduplicator
    windowStart,
    posting,        \* the request under way: who sends what, and is it taken
    accepted,       \* history: when the webhook took a message of AlertManager, and did it hear
    attempts,       \* history: when Slack's filter let a text through
    posts

avars == <<now, sentAt, bits, windowStart, posting, accepted, attempts, posts>>

Nobody == [by |-> Idle, message |-> Idle, taken |-> FALSE]

AInit ==
    /\ now = 0 /\ sentAt = <<>>
    /\ bits = {} /\ windowStart = 0
    /\ posting = Nobody /\ posts = 0
    /\ accepted = [m \in Messages |-> <<>>]
    /\ attempts = [t \in {Text[m] : m \in Messages} |-> <<>>]

\* Time passes between calls and while a POST waits.
PassTime ==
    /\ now < MaxTime /\ now' = now + 1
    /\ UNCHANGED <<sentAt, bits, windowStart, posting, accepted, attempts, posts>>

Request(by, m) ==
    /\ Configured /\ posting = Nobody /\ posts < MaxPosts
    /\ posting' = [by |-> by, message |-> m, taken |-> FALSE] /\ posts' = posts + 1
------------------------------------------------------------------------------
\* _is_duplicate()
Duplicate(m) == m \in DOMAIN sentAt /\ now - sentAt[m] < Cooldown

Send(m) ==
    /\ ~ Duplicate(m) /\ Request("manager", m)
    /\ UNCHANGED <<now, sentAt, bits, windowStart, accepted, attempts>>

\* The webhook takes the message; nobody knows before the answer.
Taken ==
    /\ posting.by = "manager" /\ ~ posting.taken
    /\ posting' = [posting EXCEPT !.taken = TRUE]
    /\ accepted' = [accepted EXCEPT ![posting.message] = Append(@, [at |-> now, heard |-> FALSE])]
    /\ UNCHANGED <<now, sentAt, bits, windowStart, attempts, posts>>

Heard(copies) == [copies EXCEPT ![Len(copies)] = [@ EXCEPT !.heard = TRUE]]

\* The answer, which marks the message, or the exception: refused, no connection,
\* or a timeout after the webhook took the message.
Answered ==
    /\ posting.by = "manager" /\ posting' = Nobody
    /\ LET m == posting.message
       IN  \/ /\ posting.taken
              /\ sentAt' = [k \in DOMAIN sentAt \cup {m} |-> IF k = m THEN now ELSE sentAt[k]]
              /\ accepted' = [accepted EXCEPT ![m] = Heard(@)]
           \/ UNCHANGED <<sentAt, accepted>>
    /\ UNCHANGED <<now, bits, windowStart, attempts, posts>>

\* check_thresholds(): what is worth an alert; the value is part of the message.
Breaches(metrics, low, high) ==
    {<<k, metrics[k]>> : k \in {n \in DOMAIN metrics \cap DOMAIN low : metrics[n] < low[n]}}
    \cup {<<k, metrics[k]>> : k \in {n \in DOMAIN metrics \cap DOMAIN high : metrics[n] > high[n]}}
------------------------------------------------------------------------------
\* Mutant of MaybeReset: an old window stays old.
MaybeResetOnly ==
    IF now - windowStart >= Cooldown THEN [bits |-> {}, start |-> windowStart]
    ELSE [bits |-> bits, start |-> windowStart]

\* _maybe_reset(): the filter and the start of its window when should_send() looks.
MaybeReset ==
    IF now - windowStart >= Cooldown THEN [bits |-> {}, start |-> now]
    ELSE [bits |-> bits, start |-> windowStart]

\* send_alert(): the bits are set before the POST, which may fail.
SendAlert(m) ==
    /\ Request("slack", m)
    /\ LET t == Text[m]
       IN  /\ ~ (Bits[t] \subseteq MaybeReset.bits)
           /\ bits' = MaybeReset.bits \cup Bits[t] /\ windowStart' = MaybeReset.start
           /\ attempts' = [attempts EXCEPT ![t] = Append(@, now)]
    /\ UNCHANGED <<now, sentAt, accepted>>

\* Suppressed: seen, or its bits taken by others.
Suppress(m) ==
    /\ Configured /\ posting = Nobody /\ Bits[Text[m]] \subseteq MaybeReset.bits
    /\ bits' = MaybeReset.bits /\ windowStart' = MaybeReset.start
    /\ UNCHANGED <<now, sentAt, posting, accepted, attempts, posts>>

\* send_daily_summary(): no filter.
SendDailySummary ==
    /\ Request("slack", Idle)
    /\ UNCHANGED <<now, sentAt, bits, windowStart, accepted, attempts>>

\* _send(): the answer changes nothing that is kept.
SlackAnswered ==
    /\ posting.by = "slack" /\ posting' = Nobody
    /\ UNCHANGED <<now, sentAt, bits, windowStart, accepted, attempts, posts>>

ManagerNext == PassTime \/ Taken \/ Answered \/ \E m \in Messages : Send(m)

SlackNext ==
    \/ PassTime \/ SlackAnswered \/ SendDailySummary
    \/ \E m \in Messages : SendAlert(m) \/ Suppress(m)
------------------------------------------------------------------------------
\* Alerts do not flood a channel, with the POST taking time and failing
\* (alerts.py:118-176, slack.py:113-180): after a copy whose answer arrived the
\* webhook takes the next one no sooner than a cooldown later.  Slack's window does
\* not slide, so two attempts may fall close together around its end; but a third
\* one of the same text comes no sooner than a cooldown after the first, and the
\* filter holds just the bits of the texts of this window.
AlertsSpaced ==
    /\ \A m \in Messages : \A i \in 2 .. Len(accepted[m]) :
          accepted[m][i-1].heard => accepted[m][i].at - accepted[m][i-1].at >= Cooldown
    /\ \A t \in DOMAIN attempts : \A i \in 3 .. Len(attempts[t]) :
          attempts[t][i] - attempts[t][i-2] >= Cooldown
    /\ bits = UNION {Bits[t] : t \in {u \in DOMAIN attempts :
                        \E i \in DOMAIN attempts[u] : attempts[u][i] >= windowStart}}

\* What alerts.py:64-65 says: no second copy of a message within the cooldown.
CopiesSpaced ==
    \A m \in Messages : \A i \in 2 .. Len(accepted[m]) :
        accepted[m][i].at - accepted[m][i-1].at >= Cooldown
==============================================================================
