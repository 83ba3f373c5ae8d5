----------------------------- MODULE RuleTable ------------------------------
(***************************************************************************)
(* What the rules of nfstat promise: a set of rules no two of which a      *)
(* packet can match, and three calls on it, each of which takes effect at  *)
(* one moment.  A rule says nothing about a field that is 0 in it.         *)
(***************************************************************************)
EXTENDS Integers

CONSTANTS Thread, Rules, Packets

FieldName == {"protocol", "dir", "lport", "rport", "lip", "rip"}

\* A call that is not answered yet; an answer that says no; one that says yes
\* (the answer to a hook is the typeidx of a rule instead).
None == -2
No   == -1
Yes  == 0

VARIABLES
  rules,
  op, arg,   \* what a thread has asked, "idle" if nothing
  answer

vars == <<rules, op, arg, answer>>

NoRule == [f \in FieldName \cup {"typeidx"} |-> 0]

\* nfs.h: 0 in a rule is "does not care".
Matches(p, r) == \A f \in FieldName : r[f] = 0 \/ r[f] = p[f]

\* Some packet could match both.
Overlap(r, s) == \A f \in FieldName : r[f] = 0 \/ s[f] = 0 \/ r[f] = s[f]

Init ==
  /\ rules = {}
  /\ op = [t \in Thread |-> "idle"]
  /\ arg = [t \in Thread |-> NoRule]
  /\ answer = [t \in Thread |-> None]

Call(t, call, r) ==
  /\ op[t] = "idle"
  /\ op' = [op EXCEPT ![t] = call]
  /\ arg' = [arg EXCEPT ![t] = r]
  /\ UNCHANGED <<rules, answer>>

Tell(t, a) ==
  /\ answer[t] = None
  /\ answer' = [answer EXCEPT ![t] = a]
  /\ UNCHANGED <<op, arg>>

Add(t) ==
  /\ op[t] = "add"
  /\ \/ /\ \A s \in rules : ~ Overlap(arg[t], s)
        /\ rules' = rules \cup {arg[t]}
        /\ Tell(t, Yes)
     \/ /\ \E s \in rules : Overlap(arg[t], s)
        /\ Tell(t, No)
        /\ UNCHANGED rules

Remove(t) ==
  /\ op[t] = "rmv"
  /\ \/ \E s \in rules :
          /\ Overlap(arg[t], s)
          /\ rules' = rules \ {s}
          /\ Tell(t, Yes)
     \/ /\ \A s \in rules : ~ Overlap(arg[t], s)
        /\ Tell(t, No)
        /\ UNCHANGED rules

Find(t) ==
  /\ op[t] = "find"
  /\ \/ \E s \in rules : Matches(arg[t], s) /\ Tell(t, s.typeidx)
     \/ (\A s \in rules : ~ Matches(arg[t], s)) /\ Tell(t, No)
  /\ UNCHANGED rules

Return(t) ==
  /\ answer[t] # None
  /\ op' = [op EXCEPT ![t] = "idle"]
  /\ arg' = [arg EXCEPT ![t] = NoRule]
  /\ answer' = [answer EXCEPT ![t] = None]
  /\ UNCHANGED rules

Clear ==
  /\ \A t \in Thread : op[t] = "idle"
  /\ rules' = {}
  /\ UNCHANGED <<op, arg, answer>>

Next ==
  \/ \E t \in Thread :
       \/ \E r \in Rules : Call(t, "add", r) \/ Call(t, "rmv", r)
       \/ \E p \in Packets : Call(t, "find", p)
       \/ Add(t) \/ Remove(t) \/ Find(t) \/ Return(t)
  \/ Clear

Spec == Init /\ [][Next]_vars
=============================================================================
