----------------------------- MODULE ChangeFeed -----------------------------
(***************************************************************************)
(* What the update publisher of Domoticz promises to those that subscribe  *)
(* to it, without saying how: changes form one log, and every subscriber   *)
(* follows the log with a cursor of its own.  From the place where it      *)
(* joined, a subscriber is handed the changes one by one, in the order of  *)
(* the log, none of them twice.  Only when some subscriber throws may it   *)
(* and others miss a change.                                               *)
(*                                                                         *)
(* UpdatePublisher is shown to implement this module.  LiveView, which     *)
(* looks at one subscriber, is built on it.                                *)
(***************************************************************************)
EXTENDS Integers, Sequences

CONSTANTS Subscriber,   \* those that may connect a slot to the signal
          Change,       \* what a log entry may be
          Faulty        \* the subscribers whose slot may throw

VARIABLES log,      \* every change there was, oldest first
          cursor,   \* cursor[s] : how many of them are behind s, or Off
          got,      \* got[s] : what s was handed since it joined
          missed    \* those that went without a change since they joined

feedVars == <<log, cursor, got, missed>>

\* The cursor of a subscriber that has not joined.
Off == -1

Joined == {s \in Subscriber : cursor[s] # Off}

FeedTypeOK ==
    /\ log \in Seq(Change)
    /\ cursor \in [Subscriber -> Nat \cup {Off}]
    /\ \A s \in Subscriber : cursor[s] <= Len(log)
    /\ got \in [Subscriber -> Seq(Change)]
    /\ missed \subseteq Subscriber

FeedInit ==
    /\ log = << >>
    /\ cursor = [s \in Subscriber |-> Off]
    /\ got = [s \in Subscriber |-> << >>]
    /\ missed = {}

-----------------------------------------------------------------------------
\* A statement changes rows: the log grows by one entry for each of them.
Grow ==
    /\ log' \in Seq(Change)
    /\ Len(log) <= Len(log')
    /\ \A i \in 1 .. Len(log) : log'[i] = log[i]
    /\ UNCHANGED <<cursor, got, missed>>

\* A subscriber joins somewhere in the log, with nothing received yet.
Join(s, at) ==
    /\ cursor[s] = Off
    /\ at \in 0 .. Len(log)
    /\ cursor' = [cursor EXCEPT ![s] = at]
    /\ got' = [got EXCEPT ![s] = << >>]
    /\ missed' = missed \ {s}
    /\ UNCHANGED log

\* The next change is handed to s.
Deliver(s) ==
    /\ s \in Joined
    /\ cursor[s] < Len(log)
    /\ cursor' = [cursor EXCEPT ![s] = @ + 1]
    /\ got' = [got EXCEPT ![s] = Append(@, log[cursor[s] + 1])]
    /\ UNCHANGED <<log, missed>>

\* A subscriber throws: it and others may go without the next change.
Miss(S) ==
    /\ S \subseteq Joined
    /\ S \cap Faulty # {}
    /\ \A s \in S : cursor[s] < Len(log)
    /\ cursor' = [s \in Subscriber |-> IF s \in S THEN cursor[s] + 1
                                                  ELSE cursor[s]]
    /\ missed' = missed \cup S
    /\ UNCHANGED <<log, got>>

\* A subscriber leaves.
Leave(s) ==
    /\ s \in Joined
    /\ cursor' = [cursor EXCEPT ![s] = Off]
    /\ got' = [got EXCEPT ![s] = << >>]
    /\ missed' = missed \ {s}
    /\ UNCHANGED log

FeedNext ==
    \/ Grow
    \/ \E s \in Subscriber :
          \/ \E at \in 0 .. Len(log) : Join(s, at)
          \/ Deliver(s)
          \/ Leave(s)
    \/ \E S \in SUBSET Subscriber : Miss(S)

FeedSpec == FeedInit /\ [][FeedNext]_feedVars

-----------------------------------------------------------------------------
(***************************************************************************)
(* The promise as a state predicate: unless it missed one, what a          *)
(* subscriber was handed is the stretch of the log that ends at its        *)
(* cursor.  (Do_Work hands over one entry after the other)                 *)
(***************************************************************************)
Contiguous ==
    \A s \in Joined \ missed :
        /\ Len(got[s]) <= cursor[s]
        /\ \A i \in 1 .. Len(got[s]) :
              got[s][i] = log[cursor[s] - Len(got[s]) + i]

\* Whatever it missed, what it was handed comes in the order of the log.
InLogOrder ==
    \A s \in Subscriber : \A i, j \in 1 .. Len(got[s]) :
        i < j => \E k, l \in 1 .. Len(log) :
                    k < l /\ log[k] = got[s][i] /\ log[l] = got[s][j]
=============================================================================
