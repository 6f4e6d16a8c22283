--------------------------- MODULE AccountsProofs ---------------------------
(***************************************************************************)
(* What brain0 watches, tells and signs of the work of agents, but for the *)
(* risk.  For any files, commits, sessions, processes and crashes: a turn  *)
(* holds the secrets that its own calls brought; the audit trail of the    *)
(* watching guard is the list of the alerts it sent, but for one on its    *)
(* way; the gate before a commit holds; what was signed of a commit stands *)
(* and verifies with the store's key, unless two processes minted the      *)
(* first key at once; the verdict on a session is what its turns declare   *)
(* against what changed around it, and what changed is linked to it.       *)
(*                                                                         *)
(* The facts about numbers, sequences and iteration are in RiskProofs.     *)
(***************************************************************************)
EXTENDS Egress, Preflight, Provenance, Drift, RiskProofs

(***************************************************************************)
(* The audit trail of the guard.                                           *)
(***************************************************************************)
GuardFields == {"stage", "model", "todo", "seen", "alert", "sent", "audit"}

OneAlert == guard.alert = {} \/ \E key : guard.alert = {key}

AuditInv ==
  /\ DOMAIN guard = GuardFields
  /\ guard.sent = guard.audit \cup guard.alert
  /\ OneAlert
  /\ guard.stage \in {"tick", "versions", "loop"} => guard.alert = {}

-----------------------------------------------------------------------------
\* Nothing has been sent at the start.
LEMMA AuditInitially == EgressInit => AuditInv
BY DEF EgressInit, AuditInv, OneAlert, GuardFields

\* Every step keeps what was sent and what was written down together.
LEMMA AuditInductive == AuditInv /\ [EgressNext]_egressVars => AuditInv'
<1> SUFFICES ASSUME AuditInv, [EgressNext]_egressVars PROVE AuditInv'
  OBVIOUS
<1>1. CASE UNCHANGED guard
  BY <1>1 DEF AuditInv, OneAlert
<1>2. CASE StartGuard
  BY <1>2 DEF StartGuard, AuditInv, OneAlert, GuardFields
<1>3. CASE ReadNode \/ ReadVersions \/ EndTick \/ KillGuard
  <2>1. /\ DOMAIN guard' = GuardFields
        /\ UNCHANGED <<guard.alert, guard.sent, guard.audit>>
        /\ guard'.stage = "down" \/ guard.stage \in {"tick", "versions", "loop"}
    BY <1>3 DEF ReadNode, ReadVersions, EndTick, KillGuard, AuditInv, GuardFields
  <2>2. QED
    BY <2>1 DEF AuditInv, OneAlert
<1>4. CASE Alert
  <2>1. PICK v \in Fresh :
          guard' = [guard EXCEPT !.stage = "audit", !.seen = @ \cup {Key(v)},
                                 !.alert = {Key(v)}, !.sent = @ \cup {Key(v)}]
    BY <1>4 DEF Alert
  <2>2. guard.alert = {}
    BY <1>4 DEF Alert, AuditInv
  <2>3. /\ DOMAIN guard' = GuardFields /\ guard'.stage = "audit"
        /\ guard'.alert = {Key(v)} /\ guard'.sent = guard.sent \cup {Key(v)}
        /\ guard'.audit = guard.audit
    BY <2>1 DEF AuditInv, GuardFields
  <2>4. QED
    BY <2>2, <2>3 DEF AuditInv, OneAlert
<1>5. CASE AlertFails
  <2>1. /\ DOMAIN guard' = GuardFields /\ guard'.stage = "down"
        /\ UNCHANGED <<guard.alert, guard.sent, guard.audit>>
    BY <1>5 DEF AlertFails, AfterFailure, AuditInv, GuardFields
  <2>2. QED
    BY <2>1 DEF AuditInv, OneAlert
<1>6. CASE AuditAlert
  <2>1. /\ DOMAIN guard' = GuardFields
        /\ guard'.alert = {} /\ guard'.sent = guard.sent
        /\ guard'.audit = guard.audit \cup guard.alert
    BY <1>6 DEF AuditAlert, AuditInv, GuardFields
  <2>2. QED
    BY <2>1 DEF AuditInv, OneAlert
<1>7. QED
  <2>1. CASE UNCHANGED egressVars
    BY <1>1, <2>1 DEF egressVars, guardVars
  <2>2. CASE Prompt \/ ToolCall \/ ToolResult \/ Pass \/ PutNode \/ AppendVersion
    <3>1. UNCHANGED guard
      BY <2>2 DEF Prompt, ToolCall, ToolResult, Say, Pass, PutNode, AppendVersion, guardVars
    <3>2. QED
      BY <1>1, <3>1
  <2>3. QED
    BY <1>2, <1>3, <1>4, <1>5, <1>6, <2>1, <2>2 DEF EgressNext, GuardStep

\* Whatever a sink or the operating system does to the guard, what is in its audit trail
\* was sent, and what was sent is there or was sent by a guard that died before the entry.
THEOREM AuditTrailIsTrue == EgressSpec => []AuditIsWhatWasSent
<1>1. AuditInv => AuditIsWhatWasSent
  <2> SUFFICES ASSUME AuditInv PROVE AuditIsWhatWasSent
    OBVIOUS
  <2>1. guard.audit \subseteq guard.sent /\ guard.sent \ guard.audit \subseteq guard.alert
    BY DEF AuditInv
  <2>2. guard.stage \in {"tick", "versions", "loop"} => guard.audit = guard.sent
    BY DEF AuditInv
  <2>3. Cardinality(guard.sent \ guard.audit) <= 1
    <3>1. CASE guard.sent \ guard.audit = {}
      BY <3>1, FS_EmptySet
    <3>2. CASE guard.sent \ guard.audit # {}
      <4>1. PICK key : guard.sent \ guard.audit = {key}
        BY <2>1, <3>2 DEF AuditInv, OneAlert
      <4>2. Cardinality({key}) = 1
        BY FS_Singleton
      <4>3. QED
        BY <4>1, <4>2
    <3>3. QED
      BY <3>1, <3>2
  <2>4. QED
    BY <2>1, <2>2, <2>3 DEF AuditIsWhatWasSent
<1>2. QED
  BY <1>1, AuditInitially, AuditInductive, PTL DEF EgressSpec

-----------------------------------------------------------------------------
(***************************************************************************)
(* The secrets of a turn.  A turn is faithful to the lines behind its      *)
(* prompt up to where it was read.                                         *)
(***************************************************************************)
IsPrompt(i) == log[i].type = "user" /\ log[i].text
IsCall(i) == log[i].type = "call"

\* The lines behind a prompt that no other prompt comes before, up to line e.
Region(o, e) == {j \in o + 1..e : \A i \in o + 1..j - 1 : ~IsPrompt(i)}

CallsIn(R) == {i \in R : IsCall(i)}
PathsIn(R) == UNION {log[i].paths : i \in CallsIn(R)}

\* Line j brings secrets into what line i asked for.
Brings(i, j) ==
  /\ IsCall(i) /\ log[j].type = "user" /\ i < j /\ log[j].id = log[i].id
  /\ log[i].paths # {} /\ log[j].kinds # {}
Secret(i, j) == [paths |-> log[i].paths, kinds |-> log[j].kinds]
SecretsIn(R) == {Secret(x[1], x[2]) : x \in {y \in R \X R : Brings(y[1], y[2])}}

Faithful(t, e) ==
  /\ t.reads = PathsIn(Region(t.opened, e))
  /\ Range(t.secrets) = SecretsIn(Region(t.opened, e))
  /\ IsSeq(t.secrets)

LineTyped(line) ==
  /\ line.type \in {"user", "call"}
  /\ line.type = "call" => line.id \in Call
  /\ line.type = "user" => line.id \in Call \cup {NoCall}

LogTyped ==
  /\ IsSeq(log)
  /\ \A i \in 1..Len(log) : LineTyped(log[i])
  /\ \A i, j \in 1..Len(log) : IsCall(i) /\ IsCall(j) /\ log[i].id = log[j].id => i = j
  /\ \E n \in 0..MaxCalls : Called = 1..n

TurnTrue(t) ==
  \E e \in ends :
    /\ t.opened \in 1..e /\ IsPrompt(t.opened)
    /\ \A d \in ends : ~(t.opened <= d /\ d < e)
    /\ Faithful(t, e)

TurnsRead ==
  {queue[i] : i \in 1..Len(queue)} \cup {turns[i] : i \in 1..Len(turns)}

SecretsInv ==
  /\ LogTyped
  /\ ends \subseteq 0..cursor /\ cursor \in 0..Len(log)
  /\ IsSeq(queue) /\ IsSeq(turns)
  /\ \A t \in TurnsRead : TurnTrue(t)

TurnFields == {"opened", "reads", "secrets", "model"}

\* The parser, behind line m of a pass that started behind the cursor.
OpenTurn(t, calls, m) ==
  /\ DOMAIN t = TurnFields
  /\ t.opened \in cursor + 1..m /\ IsPrompt(t.opened)
  /\ \A i \in t.opened + 1..m : ~IsPrompt(i)
  /\ Faithful(t, m)
  /\ \A i \in CallsIn(Region(t.opened, m)) : calls[log[i].id] = log[i].paths
  /\ \A c \in Call : calls[c] # {} => \E i \in CallsIn(Region(t.opened, m)) : log[i].id = c

ClosedTurn(t, m) ==
  /\ t.opened \in cursor + 1..m /\ IsPrompt(t.opened)
  /\ \E i \in t.opened + 1..m : IsPrompt(i)
  /\ Faithful(t, m)

Parsed(p, m) ==
  /\ DOMAIN p = {"read", "current", "calls", "at"} /\ p.at = m /\ DOMAIN p.calls = Call
  /\ IsSeq(p.read)
  /\ \A i \in 1..Len(p.read) : ClosedTurn(p.read[i], m)
  /\ p.current = <<>> \/ \E t : p.current = <<t>> /\ OpenTurn(t, p.calls, m)

\* The lines of a pass can be parsed, one after the other.
LEMMA ParsesExist ==
  ASSUME NEW m \in Nat
  PROVE  \E f : f = [i \in 0..m |-> IF i = 0 THEN Parser0 ELSE ParseLine(f[i - 1], log[cursor + i])]
<1>1. PICK T : T = {k \in 0..m : \E f : f = [i \in 0..k |->
                      IF i = 0 THEN Parser0 ELSE ParseLine(f[i - 1], log[cursor + i])]}
  OBVIOUS
<1>2. 0 \in T
  <2>1. PICK f : f = [i \in 0..0 |-> Parser0]
    OBVIOUS
  <2>2. f = [i \in 0..0 |-> IF i = 0 THEN Parser0 ELSE ParseLine(f[i - 1], log[cursor + i])]
    BY <2>1
  <2>3. QED
    BY <1>1, <2>2
<1>3. ASSUME NEW k \in 1..m, k - 1 \in T PROVE k \in T
  <2>1. PICK f : f = [i \in 0..k - 1 |->
                        IF i = 0 THEN Parser0 ELSE ParseLine(f[i - 1], log[cursor + i])]
    BY <1>1, <1>3
  <2>2. PICK g : g = [i \in 0..k |->
                        IF i = k THEN ParseLine(f[k - 1], log[cursor + k]) ELSE f[i]]
    OBVIOUS
  <2>3. \A i \in 0..k : g[i] = IF i = 0 THEN Parser0 ELSE ParseLine(g[i - 1], log[cursor + i])
    <3>1. SUFFICES ASSUME NEW i \in 0..k
                   PROVE  g[i] = IF i = 0 THEN Parser0 ELSE ParseLine(g[i - 1], log[cursor + i])
      OBVIOUS
    <3>2. CASE i = 0
      <4>1. i # k /\ i \in 0..k - 1
        BY <3>2
      <4>2. QED
        BY <2>1, <2>2, <3>2, <4>1
    <3>3. CASE i # 0
      <4>1. i - 1 \in 0..k /\ i - 1 # k
        BY <3>3
      <4>2. g[i - 1] = f[i - 1]
        BY <2>2, <4>1
      <4>3. CASE i = k
        BY <2>2, <3>3, <4>2, <4>3
      <4>4. CASE i # k
        <5>1. i \in 0..k - 1
          BY <4>4
        <5>2. f[i] = ParseLine(f[i - 1], log[cursor + i])
          BY <2>1, <3>3, <5>1
        <5>3. QED
          BY <2>2, <3>3, <4>2, <4>4, <5>2
      <4>5. QED
        BY <4>3, <4>4
    <3>4. QED
      BY <3>2, <3>3
  <2>4. g = [i \in 0..k |-> IF i = 0 THEN Parser0 ELSE ParseLine(g[i - 1], log[cursor + i])]
    BY <2>2, <2>3
  <2>5. QED
    BY <1>1, <2>4
<1>4. m \in T
  <2>1. \A k \in 1..m : k - 1 \in T => k \in T
    BY <1>3
  <2>2. \A k \in 0..m : k \in T
    BY <1>2, <2>1, StepByStep
  <2>3. QED
    BY <2>2
<1>5. QED
  BY <1>1, <1>4

\* As the transcript grows, what is behind the prompts up to a line stays.
LEMMA RegionStays ==
  ASSUME NEW e \in Nat, NEW o \in Nat, \A i \in 1..e : log'[i] = log[i]
  PROVE  /\ Region(o, e)' = Region(o, e)
         /\ PathsIn(Region(o, e))' = PathsIn(Region(o, e))
         /\ SecretsIn(Region(o, e))' = SecretsIn(Region(o, e))
<1>1. \A i \in o + 1..e : log'[i] = log[i]
  OBVIOUS
<1>2. Region(o, e)' = Region(o, e)
  BY <1>1 DEF Region, IsPrompt
<1>3. Region(o, e) \subseteq 1..e
  BY DEF Region
<1>4. CallsIn(Region(o, e))' = CallsIn(Region(o, e)) /\ CallsIn(Region(o, e)) \subseteq 1..e
  BY <1>2, <1>3 DEF CallsIn, IsCall
<1>5. PathsIn(Region(o, e))' = PathsIn(Region(o, e))
  BY <1>4 DEF PathsIn
<1>6. \A x \in Region(o, e) \X Region(o, e) :
        /\ Brings(x[1], x[2])' <=> Brings(x[1], x[2])
        /\ Secret(x[1], x[2])' = Secret(x[1], x[2])
  BY <1>3 DEF Brings, Secret, IsCall
<1>7. SecretsIn(Region(o, e))' = SecretsIn(Region(o, e))
  BY <1>2, <1>6 DEF SecretsIn
<1>8. QED
  BY <1>2, <1>5, <1>7

\* What one more line adds to a region, and to what is in it.
LEMMA RegionNext ==
  ASSUME NEW m \in Nat, m # 0, NEW o \in 0..m - 1
  PROVE  /\ (\E i \in o + 1..m - 1 : IsPrompt(i)) => Region(o, m) = Region(o, m - 1)
         /\ (\A i \in o + 1..m - 1 : ~IsPrompt(i)) => Region(o, m) = Region(o, m - 1) \cup {m}
         /\ Region(o, m - 1) \subseteq 1..m - 1
<1>1. o + 1..m = (o + 1..m - 1) \cup {m}
  OBVIOUS
<1>2. QED
  BY <1>1 DEF Region

\* What one more line adds to what is in a region.
LEMMA OneMoreLine ==
  ASSUME NEW m \in Nat, m # 0, NEW R, R \subseteq 1..m - 1, LineTyped(log[m])
  PROVE  /\ IsCall(m) => /\ CallsIn(R \cup {m}) = CallsIn(R) \cup {m}
                         /\ PathsIn(R \cup {m}) = PathsIn(R) \cup log[m].paths
         /\ ~IsCall(m) => /\ CallsIn(R \cup {m}) = CallsIn(R)
                          /\ PathsIn(R \cup {m}) = PathsIn(R)
         /\ SecretsIn(R \cup {m}) = SecretsIn(R) \cup {Secret(i, m) : i \in {j \in R : Brings(j, m)}}
<1>1. IsCall(m) => /\ CallsIn(R \cup {m}) = CallsIn(R) \cup {m}
                   /\ PathsIn(R \cup {m}) = PathsIn(R) \cup log[m].paths
  <2> SUFFICES ASSUME IsCall(m) PROVE /\ CallsIn(R \cup {m}) = CallsIn(R) \cup {m}
                                      /\ PathsIn(R \cup {m}) = PathsIn(R) \cup log[m].paths
    OBVIOUS
  <2>1. CallsIn(R \cup {m}) = CallsIn(R) \cup {m}
    BY DEF CallsIn
  <2>2. QED
    BY <2>1 DEF PathsIn
<1>2. ~IsCall(m) => /\ CallsIn(R \cup {m}) = CallsIn(R)
                    /\ PathsIn(R \cup {m}) = PathsIn(R)
  BY DEF CallsIn, PathsIn
<1>3. \A i \in R \cup {m} : ~Brings(m, i)
  BY DEF Brings
<1>4. SecretsIn(R) \subseteq SecretsIn(R \cup {m})
  BY DEF SecretsIn
<1>5. {Secret(i, m) : i \in {j \in R : Brings(j, m)}} \subseteq SecretsIn(R \cup {m})
  <2>1. SUFFICES ASSUME NEW i \in R, Brings(i, m) PROVE Secret(i, m) \in SecretsIn(R \cup {m})
    OBVIOUS
  <2>2. PICK x : x = <<i, m>>
    OBVIOUS
  <2>3. x \in (R \cup {m}) \X (R \cup {m}) /\ Brings(x[1], x[2]) /\ Secret(x[1], x[2]) = Secret(i, m)
    BY <2>1, <2>2
  <2>4. QED
    BY <2>3 DEF SecretsIn
<1>6. ASSUME NEW s \in SecretsIn(R \cup {m})
      PROVE  s \in SecretsIn(R) \cup {Secret(i, m) : i \in {j \in R : Brings(j, m)}}
  <2>1. PICK x \in (R \cup {m}) \X (R \cup {m}) : Brings(x[1], x[2]) /\ s = Secret(x[1], x[2])
    BY DEF SecretsIn
  <2>2. x[1] \in R
    BY <1>3, <2>1
  <2>3. CASE x[2] = m
    BY <2>1, <2>2, <2>3
  <2>4. CASE x[2] # m
    <3>1. x \in R \X R
      BY <2>1, <2>2, <2>4
    <3>2. QED
      BY <2>1, <3>1 DEF SecretsIn
  <2>5. QED
    BY <2>3, <2>4
<1>7. SecretsIn(R \cup {m}) = SecretsIn(R) \cup {Secret(i, m) : i \in {j \in R : Brings(j, m)}}
  BY <1>4, <1>5, <1>6
<1>8. QED
  BY <1>1, <1>2, <1>7

\* Appending to a sequence adds to its range.
LEMMA RangeAppended ==
  ASSUME NEW s, IsSeq(s), NEW e
  PROVE  IsSeq(Append(s, e)) /\ Range(Append(s, e)) = Range(s) \cup {e}
<1>1. PICK t : t = Append(s, e)
  OBVIOUS
<1>2. IsLonger(t, s, e)
  BY <1>1, Appended
<1>3. DOMAIN s = 1..Len(s) /\ DOMAIN t = 1..Len(t)
  BY <1>2 DEF IsLonger, IsSeq
<1>4. Range(t) = Range(s) \cup {e}
  <2>1. \A i \in DOMAIN t : t[i] \in Range(s) \cup {e}
    BY <1>2, <1>3 DEF IsLonger, Range
  <2>2. \A i \in DOMAIN s : s[i] \in Range(t)
    <3>1. SUFFICES ASSUME NEW i \in DOMAIN s PROVE s[i] \in Range(t)
      OBVIOUS
    <3>2. i \in DOMAIN t /\ t[i] = s[i]
      BY <1>2, <1>3 DEF IsLonger
    <3>3. QED
      BY <3>2 DEF Range
  <2>3. e \in Range(t)
    <3>1. Len(s) + 1 \in DOMAIN t /\ t[Len(s) + 1] = e
      BY <1>2, <1>3 DEF IsLonger
    <3>2. QED
      BY <3>1 DEF Range
  <2>4. QED
    BY <2>1, <2>2, <2>3 DEF Range
<1>5. QED
  BY <1>1, <1>2, <1>4 DEF IsLonger

\* A result is charged to the open turn for the paths of its call.
LEMMA AttachIsFaithful ==
  ASSUME LogTyped, cursor \in Nat, NEW m \in cursor + 1..Len(log), log[m].type = "user",
         NEW p, NEW t, p.current = <<t>>, DOMAIN p.calls = Call, OpenTurn(t, p.calls, m - 1)
  PROVE  \E u : /\ Attach(p, log[m]) = <<u>> /\ DOMAIN u = TurnFields
                /\ u.opened = t.opened /\ Faithful(u, m)
<1> DEFINE line == log[m]  R == Region(t.opened, m - 1)
           new == [paths |-> p.calls[line.id], kinds |-> line.kinds]
<1>1. /\ m \in Nat /\ m # 0 /\ t.opened \in 0..m - 1 /\ m \in 1..Len(log)
      /\ \A i \in t.opened + 1..m - 1 : ~IsPrompt(i)
  BY DEF OpenTurn, LogTyped, IsSeq
<1>2. R \subseteq 1..m - 1 /\ Region(t.opened, m) = R \cup {m}
  BY <1>1, RegionNext
<1>3. LineTyped(line) /\ ~IsCall(m) /\ line.id \in Call \cup {NoCall}
  BY <1>1 DEF LogTyped, LineTyped, IsCall
<1>4. /\ PathsIn(R \cup {m}) = PathsIn(R)
      /\ SecretsIn(R \cup {m}) = SecretsIn(R) \cup {Secret(i, m) : i \in {j \in R : Brings(j, m)}}
  BY <1>1, <1>2, <1>3, OneMoreLine
<1>5. \A i \in R : IsCall(i) => p.calls[log[i].id] = log[i].paths /\ log[i].id \in Call
  <2>1. \A i \in R : IsCall(i) => LineTyped(log[i]) /\ i \in CallsIn(R)
    BY <1>1, <1>2 DEF LogTyped, CallsIn
  <2>2. QED
    BY <2>1 DEF OpenTurn, LineTyped, IsCall
<1>6. CASE line.id = NoCall \/ line.kinds = {} \/ p.calls[line.id] = {}
  <2>1. Attach(p, line) = <<t>>
    BY <1>6 DEF Attach
  <2>2. \A j \in R : ~Brings(j, m)
    BY <1>5, <1>6 DEF Brings, Call, NoCall
  <2>3. Faithful(t, m)
    BY <1>2, <1>4, <2>2 DEF OpenTurn, Faithful
  <2>4. QED
    BY <2>1, <2>3 DEF OpenTurn
<1>7. CASE line.id # NoCall /\ line.kinds # {} /\ p.calls[line.id] # {}
  <2>1. PICK u : u = [t EXCEPT !.secrets = Append(@, new)]
    OBVIOUS
  <2>2. Attach(p, line) = <<u>>
    <3>1. p.current # <<>> /\ p.current[1] = t
      OBVIOUS
    <3>2. QED
      BY <1>7, <2>1, <3>1 DEF Attach
  <2>3. /\ DOMAIN u = TurnFields /\ u.opened = t.opened /\ u.reads = t.reads
        /\ u.secrets = Append(t.secrets, new)
    BY <2>1 DEF OpenTurn, TurnFields
  <2>4. IsSeq(u.secrets) /\ Range(u.secrets) = Range(t.secrets) \cup {new}
    BY <2>3, RangeAppended DEF OpenTurn, Faithful
  <2>5. {Secret(i, m) : i \in {j \in R : Brings(j, m)}} = {new}
    <3>1. PICK i \in CallsIn(R) : log[i].id = line.id
      BY <1>3, <1>7 DEF OpenTurn
    <3>2. i \in R /\ IsCall(i) /\ log[i].paths = p.calls[line.id] /\ i < m
      BY <1>2, <1>5, <3>1 DEF CallsIn
    <3>3. Brings(i, m)
      BY <1>7, <3>1, <3>2 DEF Brings
    <3>4. Secret(i, m) = new
      BY <3>2 DEF Secret
    <3>5. \A j \in R : Brings(j, m) => Secret(j, m) = new
      BY <1>5 DEF Brings, Secret
    <3>6. QED
      BY <3>2, <3>3, <3>4, <3>5
  <2>6. Faithful(u, m)
    BY <1>2, <1>4, <2>3, <2>4, <2>5 DEF OpenTurn, Faithful
  <2>7. QED
    BY <2>2, <2>3, <2>6
<1>8. QED
  BY <1>6, <1>7

\* A turn that a later prompt has closed has no more lines.
LEMMA ClosedStays ==
  ASSUME cursor \in Nat, NEW m \in Nat, m > cursor, NEW t, ClosedTurn(t, m - 1)
  PROVE  ClosedTurn(t, m)
<1>1. /\ t.opened \in 0..m - 1 /\ t.opened \in cursor + 1..m /\ m # 0
      /\ \E i \in t.opened + 1..m - 1 : IsPrompt(i)
  BY DEF ClosedTurn
<1>2. Region(t.opened, m) = Region(t.opened, m - 1)
  BY <1>1, RegionNext
<1>3. \E i \in t.opened + 1..m : IsPrompt(i)
  BY <1>1
<1>4. QED
  BY <1>1, <1>2, <1>3 DEF ClosedTurn, Faithful

\* Turns that are closed stay faithful as the parser goes on.
LEMMA AllClosedStay ==
  ASSUME cursor \in Nat, NEW m \in Nat, m > cursor, NEW p, Parsed(p, m - 1)
  PROVE  \A i \in 1..Len(p.read) : ClosedTurn(p.read[i], m)
BY ClosedStays DEF Parsed

\* The parser stays true over a line of a call...
LEMMA CallLineKeeps ==
  ASSUME LogTyped, cursor \in Nat, NEW m \in cursor + 1..Len(log), IsCall(m),
         NEW p, Parsed(p, m - 1)
  PROVE  Parsed(ParseLine(p, log[m]), m)
<1> DEFINE line == log[m]
<1>1. PICK q : q = [p EXCEPT !.at = @ + 1]
  OBVIOUS
<1>2. m \in Nat /\ m > cursor /\ m # 0 /\ m \in 1..Len(log)
  BY DEF LogTyped, IsSeq
<1>3. /\ DOMAIN q = {"read", "current", "calls", "at"} /\ q.at = m
      /\ q.read = p.read /\ q.current = p.current /\ q.calls = p.calls
  BY <1>1, <1>2 DEF Parsed
<1>4. ParseLine(p, line) = CallLine(q, line)
  BY <1>1 DEF ParseLine, IsCall
<1>5. \A i \in 1..Len(q.read) : ClosedTurn(q.read[i], m)
  BY <1>2, <1>3, AllClosedStay
<1>6. CASE p.current = <<>>
  <2>1. CallLine(q, line) = q
    BY <1>3, <1>6 DEF CallLine
  <2>2. QED
    BY <1>3, <1>4, <1>5, <1>6, <2>1 DEF Parsed
<1>7. ASSUME NEW t, p.current = <<t>>, OpenTurn(t, p.calls, m - 1)
      PROVE  Parsed(ParseLine(p, log[m]), m)
  <2> DEFINE R == Region(t.opened, m - 1)
  <2>1. PICK u : u = [t EXCEPT !.reads = @ \cup line.paths,
                               !.model = IF @ = UnknownModel THEN line.model ELSE @]
    OBVIOUS
  <2>2. PICK calls : calls = [p.calls EXCEPT ![line.id] = line.paths]
    OBVIOUS
  <2>3. CallLine(q, line) = [q EXCEPT !.current = <<u>>, !.calls = calls]
    <3>1. q.current # <<>> /\ q.current[1] = t
      BY <1>3, <1>7
    <3>2. QED
      BY <1>3, <2>1, <2>2, <3>1 DEF CallLine
  <2>4. /\ DOMAIN u = TurnFields /\ u.opened = t.opened /\ u.reads = t.reads \cup line.paths
        /\ u.secrets = t.secrets
    BY <1>7, <2>1 DEF OpenTurn, TurnFields
  <2>5. /\ t.opened \in cursor + 1..m - 1 /\ t.opened \in 0..m - 1 /\ IsPrompt(t.opened)
        /\ \A i \in t.opened + 1..m - 1 : ~IsPrompt(i)
    BY <1>2, <1>7 DEF OpenTurn
  <2>6. R \subseteq 1..m - 1 /\ Region(t.opened, m) = R \cup {m}
    BY <1>2, <2>5, RegionNext
  <2>7. LineTyped(line) /\ line.id \in Call
    BY <1>2 DEF LogTyped, LineTyped, IsCall
  <2>8. /\ CallsIn(R \cup {m}) = CallsIn(R) \cup {m}
        /\ PathsIn(R \cup {m}) = PathsIn(R) \cup line.paths
        /\ SecretsIn(R \cup {m}) = SecretsIn(R) \cup {Secret(i, m) : i \in {j \in R : Brings(j, m)}}
    BY <1>2, <2>6, <2>7, OneMoreLine
  <2>9. \A j \in R : ~Brings(j, m)
    BY DEF Brings, IsCall
  <2>10. Faithful(u, m)
    <3>1. t.reads = PathsIn(R) /\ Range(t.secrets) = SecretsIn(R) /\ IsSeq(t.secrets)
      BY <1>7 DEF OpenTurn, Faithful
    <3>2. SecretsIn(R \cup {m}) = SecretsIn(R)
      BY <2>8, <2>9
    <3>3. QED
      BY <2>4, <2>6, <2>8, <3>1, <3>2 DEF Faithful
  <2>11. /\ \A i \in CallsIn(R \cup {m}) : calls[log[i].id] = log[i].paths
         /\ \A c \in Call : calls[c] # {} => \E i \in CallsIn(R \cup {m}) : log[i].id = c
         /\ DOMAIN calls = Call
    <3>1. DOMAIN p.calls = Call
      BY DEF Parsed
    <3>2. /\ DOMAIN calls = Call /\ calls[line.id] = line.paths
          /\ \A c \in Call : c # line.id => calls[c] = p.calls[c]
      BY <2>2, <2>7, <3>1
    <3>3. \A i \in CallsIn(R) : /\ log[i].id # line.id /\ log[i].id \in Call
                                /\ p.calls[log[i].id] = log[i].paths
      <4>1. SUFFICES ASSUME NEW i \in CallsIn(R)
                     PROVE  /\ log[i].id # line.id /\ log[i].id \in Call
                            /\ p.calls[log[i].id] = log[i].paths
        OBVIOUS
      <4>2. i \in 1..Len(log) /\ i # m /\ IsCall(i)
        BY <1>2, <2>6, <4>1 DEF CallsIn
      <4>3. log[i].id # line.id
        BY <1>2, <4>2 DEF LogTyped
      <4>4. LineTyped(log[i])
        BY <4>2 DEF LogTyped
      <4>5. QED
        BY <1>7, <4>1, <4>2, <4>3, <4>4 DEF LineTyped, IsCall, OpenTurn
    <3>4. \A i \in CallsIn(R \cup {m}) : calls[log[i].id] = log[i].paths
      BY <2>8, <3>2, <3>3
    <3>5. \A c \in Call : calls[c] # {} => \E i \in CallsIn(R \cup {m}) : log[i].id = c
      <4>1. SUFFICES ASSUME NEW c \in Call, calls[c] # {}
                     PROVE  \E i \in CallsIn(R \cup {m}) : log[i].id = c
        OBVIOUS
      <4>2. CASE c = line.id
        BY <2>8, <4>2
      <4>3. CASE c # line.id
        BY <1>7, <2>8, <3>2, <4>1, <4>3 DEF OpenTurn
      <4>4. QED
        BY <4>2, <4>3
    <3>6. QED
      BY <3>2, <3>4, <3>5
  <2>12. OpenTurn(u, calls, m)
    <3>1. ~IsPrompt(m)
      BY DEF IsPrompt, IsCall
    <3>2. t.opened \in cursor + 1..m /\ \A i \in t.opened + 1..m : ~IsPrompt(i)
      <4>1. \A i \in t.opened + 1..m : i = m \/ i \in t.opened + 1..m - 1
        BY <2>5
      <4>2. QED
        BY <2>5, <3>1, <4>1
    <3>3. QED
      BY <2>4, <2>5, <2>6, <2>10, <2>11, <3>2 DEF OpenTurn
  <2>13. PICK r : r = [q EXCEPT !.current = <<u>>, !.calls = calls]
    OBVIOUS
  <2>14. /\ DOMAIN r = {"read", "current", "calls", "at"} /\ r.at = m
         /\ r.read = q.read /\ r.current = <<u>> /\ r.calls = calls
    BY <1>3, <2>13
  <2>15. Parsed(r, m)
    <3>1. IsSeq(r.read)
      BY <1>3, <2>14 DEF Parsed
    <3>2. QED
      BY <1>5, <2>11, <2>12, <2>14, <3>1 DEF Parsed
  <2>16. QED
    BY <1>4, <2>3, <2>13, <2>15
<1>8. QED
  BY <1>6, <1>7 DEF Parsed

\* A closed turn is put behind those that were.
LEMMA JoinedWithOne ==
  ASSUME NEW s, IsSeq(s), NEW e
  PROVE  IsLonger(s \o <<e>>, s, e)
<1>1. PICK S : S = {s[i] : i \in DOMAIN s} \cup {e}
  OBVIOUS
<1>2. s \in Seq(S) /\ e \in S
  BY <1>1 DEF IsSeq
<1>3. s \o <<e>> = Append(s, e)
  BY <1>2
<1>4. QED
  BY <1>3, Appended

\* ... and over one of the user, which attaches a result before it opens a turn.
LEMMA UserLineKeeps ==
  ASSUME LogTyped, cursor \in Nat, NEW m \in cursor + 1..Len(log), log[m].type = "user",
         NEW p, Parsed(p, m - 1)
  PROVE  Parsed(ParseLine(p, log[m]), m)
<1> DEFINE line == log[m]
<1>1. PICK q : q = [p EXCEPT !.at = @ + 1]
  OBVIOUS
<1>2. m \in Nat /\ m > cursor /\ m # 0 /\ m \in 1..Len(log)
  BY DEF LogTyped, IsSeq
<1>3. /\ DOMAIN q = {"read", "current", "calls", "at"} /\ q.at = m
      /\ q.read = p.read /\ q.current = p.current /\ q.calls = p.calls
  BY <1>1, <1>2 DEF Parsed
<1>4. PICK attached : attached = Attach(q, line)
  OBVIOUS
<1>5. PICK r : r = [q EXCEPT !.current = attached]
  OBVIOUS
<1>6. /\ DOMAIN r = {"read", "current", "calls", "at"} /\ r.at = m
      /\ r.read = p.read /\ r.current = attached /\ r.calls = p.calls
  BY <1>3, <1>5
<1>7. ParseLine(p, line) =
        IF line.text
        THEN [r EXCEPT !.read = @ \o r.current, !.current = <<EmptyTurn(r.at)>>,
                       !.calls = CallsAtPrompt(q)]
        ELSE r
  BY <1>1, <1>4, <1>5 DEF ParseLine, UserLine
<1>8. \A i \in 1..Len(p.read) : ClosedTurn(p.read[i], m)
  BY <1>2, AllClosedStay
<1>9. \/ p.current = <<>> /\ attached = <<>>
      \/ \E t, u : /\ p.current = <<t>> /\ OpenTurn(t, p.calls, m - 1)
                   /\ attached = <<u>> /\ DOMAIN u = TurnFields
                   /\ u.opened = t.opened /\ Faithful(u, m)
  <2>1. CASE p.current = <<>>
    BY <1>3, <1>4, <2>1 DEF Attach
  <2>2. ASSUME NEW t, p.current = <<t>>, OpenTurn(t, p.calls, m - 1)
        PROVE  \E u : /\ attached = <<u>> /\ DOMAIN u = TurnFields
                      /\ u.opened = t.opened /\ Faithful(u, m)
    <3>1. q.current = <<t>> /\ DOMAIN q.calls = Call /\ OpenTurn(t, q.calls, m - 1)
      BY <1>3, <2>2 DEF Parsed
    <3>2. QED
      BY <1>4, <3>1, AttachIsFaithful
  <2>3. QED
    BY <2>1, <2>2 DEF Parsed
<1>10. CASE line.text
  <2>1. IsPrompt(m)
    BY <1>10 DEF IsPrompt
  <2>2. PICK next : next = [r EXCEPT !.read = @ \o r.current, !.current = <<EmptyTurn(r.at)>>,
                                     !.calls = CallsAtPrompt(q)]
    OBVIOUS
  <2>3. /\ DOMAIN next = {"read", "current", "calls", "at"} /\ next.at = m
        /\ next.read = p.read \o attached /\ next.current = <<EmptyTurn(m)>>
        /\ next.calls = NoReads
    BY <1>6, <2>2 DEF CallsAtPrompt
  <2>4. OpenTurn(EmptyTurn(m), NoReads, m)
    <3>1. Region(m, m) = {}
      BY <1>2 DEF Region
    <3>2. CallsIn({}) = {} /\ PathsIn({}) = {} /\ SecretsIn({}) = {}
      BY DEF CallsIn, PathsIn, SecretsIn
    <3>3. Range(<<>>) = {} /\ IsSeq(<<>>)
      BY DEF Range, IsSeq
    <3>4. /\ EmptyTurn(m).opened = m /\ EmptyTurn(m).reads = {} /\ EmptyTurn(m).secrets = <<>>
          /\ DOMAIN EmptyTurn(m) = TurnFields
      BY DEF EmptyTurn, TurnFields
    <3>5. Faithful(EmptyTurn(m), m)
      BY <3>1, <3>2, <3>3, <3>4 DEF Faithful
    <3>6. \A c \in Call : NoReads[c] = {}
      BY DEF NoReads
    <3>7. m \in cursor + 1..m /\ \A i \in m + 1..m : ~IsPrompt(i)
      BY <1>2
    <3>8. QED
      BY <2>1, <3>1, <3>2, <3>4, <3>5, <3>6, <3>7 DEF OpenTurn
  <2>5. IsSeq(next.read) /\ \A i \in 1..Len(next.read) : ClosedTurn(next.read[i], m)
    <3>1. CASE attached = <<>>
      <4>1. next.read = p.read
        <5>1. PICK S : p.read \in Seq(S)
          BY DEF Parsed, IsSeq
        <5>2. p.read \o <<>> = p.read
          BY <5>1
        <5>3. QED
          BY <2>3, <3>1, <5>2
      <4>2. QED
        BY <1>8, <4>1 DEF Parsed
    <3>2. ASSUME NEW t, NEW u, OpenTurn(t, p.calls, m - 1), attached = <<u>>,
                 u.opened = t.opened, Faithful(u, m)
          PROVE  IsSeq(next.read) /\ \A i \in 1..Len(next.read) : ClosedTurn(next.read[i], m)
      <4>1. IsLonger(next.read, p.read, u)
        BY <2>3, <3>2, JoinedWithOne DEF Parsed
      <4>2. ClosedTurn(u, m)
        <5>1. /\ t.opened \in cursor + 1..m - 1 /\ IsPrompt(t.opened)
          BY <3>2 DEF OpenTurn
        <5>2. t.opened \in cursor + 1..m /\ m \in t.opened + 1..m
          BY <1>2, <5>1
        <5>3. QED
          BY <2>1, <3>2, <5>1, <5>2 DEF ClosedTurn
      <4>3. \A i \in 1..Len(next.read) :
              (i \in 1..Len(p.read) /\ next.read[i] = p.read[i]) \/ next.read[i] = u
        BY <4>1, SMTT(30) DEF IsLonger
      <4>4. \A i \in 1..Len(next.read) : ClosedTurn(next.read[i], m)
        BY <1>8, <4>2, <4>3
      <4>5. QED
        BY <4>1, <4>4 DEF IsLonger
    <3>3. QED
      BY <1>9, <3>1, <3>2
  <2>6. Parsed(next, m)
    <3>1. DOMAIN NoReads = Call
      BY DEF NoReads
    <3>2. QED
      BY <2>3, <2>4, <2>5, <3>1 DEF Parsed
  <2>7. QED
    BY <1>7, <1>10, <2>2, <2>6
<1>11. CASE ~line.text
  <2>1. ParseLine(p, line) = r /\ ~IsPrompt(m)
    BY <1>7, <1>11 DEF IsPrompt
  <2>2. CASE attached = <<>>
    BY <1>6, <1>8, <2>1, <2>2 DEF Parsed
  <2>3. ASSUME NEW t, NEW u, OpenTurn(t, p.calls, m - 1), attached = <<u>>,
               DOMAIN u = TurnFields, u.opened = t.opened, Faithful(u, m)
        PROVE  Parsed(r, m)
    <3>1. /\ t.opened \in cursor + 1..m - 1 /\ t.opened \in 0..m - 1 /\ IsPrompt(t.opened)
          /\ \A i \in t.opened + 1..m - 1 : ~IsPrompt(i)
      BY <1>2, <2>3 DEF OpenTurn
    <3>2. /\ Region(t.opened, m - 1) \subseteq 1..m - 1
          /\ Region(t.opened, m) = Region(t.opened, m - 1) \cup {m}
      BY <1>2, <3>1, RegionNext
    <3>3. CallsIn(Region(t.opened, m)) = CallsIn(Region(t.opened, m - 1))
      BY <3>2 DEF CallsIn, IsCall
    <3>4. t.opened \in cursor + 1..m /\ \A i \in t.opened + 1..m : ~IsPrompt(i)
      <4>1. \A i \in t.opened + 1..m : i = m \/ i \in t.opened + 1..m - 1
        BY <3>1
      <4>2. QED
        BY <2>1, <3>1, <4>1
    <3>5. OpenTurn(u, p.calls, m)
      BY <2>3, <3>1, <3>3, <3>4 DEF OpenTurn
    <3>6. QED
      BY <1>6, <1>8, <2>3, <3>5 DEF Parsed
  <2>4. QED
    BY <1>9, <2>1, <2>2, <2>3
<1>12. QED
  BY <1>10, <1>11

\* One line more, and the parser still tells the truth of all lines so far.
LEMMA LineKeeps ==
  ASSUME LogTyped, cursor \in Nat, NEW m \in cursor + 1..Len(log), NEW p, Parsed(p, m - 1)
  PROVE  Parsed(ParseLine(p, log[m]), m)
<1>1. m \in 1..Len(log)
  BY DEF LogTyped, IsSeq
<1>2. LineTyped(log[m])
  BY <1>1 DEF LogTyped
<1>3. CASE log[m].type = "user"
  BY <1>3, UserLineKeeps
<1>4. CASE IsCall(m)
  BY <1>4, CallLineKeeps
<1>5. QED
  BY <1>2, <1>3, <1>4 DEF LineTyped, IsCall

\* The turns of a pass are true to the lines it reads.
LEMMA ReadsTrue ==
  ASSUME LogTyped, cursor \in 0..Len(log)
  PROVE  /\ IsSeq(ReadIncremental)
         /\ \A i \in 1..Len(ReadIncremental) :
              LET t == ReadIncremental[i]
              IN  t.opened \in cursor + 1..Len(log) /\ IsPrompt(t.opened) /\ Faithful(t, Len(log))
<1>1. Len(log) \in Nat /\ cursor \in Nat /\ Len(log) - cursor \in Nat
  BY DEF LogTyped, IsSeq
<1>2. PICK n \in Nat : n = Len(log) - cursor
  BY <1>1
<1> DEFINE parse[i \in 0..Len(log) - cursor] ==
             IF i = 0 THEN Parser0 ELSE ParseLine(parse[i - 1], log[cursor + i])
           last == parse[Len(log) - cursor]
<1>3. ReadIncremental = last.read \o last.current
  BY DEF ReadIncremental
<1>4. parse = [i \in 0..n |-> IF i = 0 THEN Parser0 ELSE ParseLine(parse[i - 1], log[cursor + i])]
  BY <1>2, ParsesExist
<1>5. last = parse[n]
  BY <1>2
<1> HIDE DEF parse, last
<1>6. PICK T : T = {i \in 0..n : Parsed(parse[i], cursor + i)}
  OBVIOUS
<1>7. 0 \in T
  <2>1. parse[0] = Parser0
    BY <1>4
  <2>2. /\ DOMAIN Parser0 = {"read", "current", "calls", "at"} /\ Parser0.at = cursor
        /\ DOMAIN Parser0.calls = Call /\ Parser0.read = <<>> /\ Parser0.current = <<>>
    BY DEF Parser0, NoReads
  <2>3. IsSeq(<<>>) /\ Len(<<>>) = 0
    BY DEF IsSeq
  <2>4. Parsed(Parser0, cursor)
    BY <2>2, <2>3 DEF Parsed
  <2>5. QED
    BY <1>1, <1>6, <2>1, <2>4
<1>8. \A i \in 1..n : i - 1 \in T => i \in T
  <2>1. SUFFICES ASSUME NEW i \in 1..n, i - 1 \in T PROVE i \in T
    OBVIOUS
  <2>2. PICK m : m = cursor + i
    OBVIOUS
  <2>3. m \in cursor + 1..Len(log) /\ cursor + (i - 1) = m - 1 /\ i \in 0..n
    BY <1>1, <1>2, <2>2
  <2>4. parse[i] = ParseLine(parse[i - 1], log[m])
    <3>1. parse[i] = IF i = 0 THEN Parser0 ELSE ParseLine(parse[i - 1], log[cursor + i])
      BY <1>4, <2>3, Zenon
    <3>2. i # 0
      BY <2>1
    <3>3. QED
      BY <2>2, <3>1, <3>2
  <2>5. Parsed(parse[i - 1], m - 1)
    BY <1>6, <2>1, <2>3
  <2>6. Parsed(parse[i], m)
    BY <1>1, <2>3, <2>4, <2>5, LineKeeps
  <2>7. QED
    BY <1>6, <2>2, <2>3, <2>6
<1>9. n \in T
  <2>1. \A i \in 0..n : i \in T
    BY <1>7, <1>8, StepByStep
  <2>2. QED
    BY <2>1
<1>10. Parsed(last, Len(log))
  <2>1. cursor + n = Len(log)
    BY <1>1, <1>2
  <2>2. QED
    BY <1>5, <1>6, <1>9, <2>1
<1>11. \A i \in 1..Len(last.read) :
         /\ last.read[i].opened \in cursor + 1..Len(log) /\ IsPrompt(last.read[i].opened)
         /\ Faithful(last.read[i], Len(log))
  BY <1>10 DEF Parsed, ClosedTurn
<1>12. CASE last.current = <<>>
  <2>1. PICK S : last.read \in Seq(S)
    BY <1>10 DEF Parsed, IsSeq
  <2>2. last.read \o <<>> = last.read
    BY <2>1
  <2>3. QED
    BY <1>3, <1>10, <1>11, <1>12, <2>2 DEF Parsed
<1>13. ASSUME NEW t, last.current = <<t>>, OpenTurn(t, last.calls, Len(log))
       PROVE  /\ IsSeq(ReadIncremental)
              /\ \A i \in 1..Len(ReadIncremental) :
                   LET u == ReadIncremental[i]
                   IN  u.opened \in cursor + 1..Len(log) /\ IsPrompt(u.opened) /\ Faithful(u, Len(log))
  <2>1. IsLonger(ReadIncremental, last.read, t)
    BY <1>3, <1>10, <1>13, JoinedWithOne DEF Parsed
  <2>2. t.opened \in cursor + 1..Len(log) /\ IsPrompt(t.opened) /\ Faithful(t, Len(log))
    BY <1>13 DEF OpenTurn
  <2>3. \A i \in 1..Len(ReadIncremental) :
          \/ i \in 1..Len(last.read) /\ ReadIncremental[i] = last.read[i]
          \/ ReadIncremental[i] = t
    BY <2>1 DEF IsLonger
  <2>4. \A i \in 1..Len(ReadIncremental) :
          LET u == ReadIncremental[i]
          IN  u.opened \in cursor + 1..Len(log) /\ IsPrompt(u.opened) /\ Faithful(u, Len(log))
    BY <1>11, <2>2, <2>3
  <2>5. QED
    BY <2>1, <2>4 DEF IsLonger
<1>14. QED
  BY <1>10, <1>12, <1>13 DEF Parsed

\* The transcript grows at its end, and calls are numbered as they come.
LEMMA LogStays ==
  ASSUME LogTyped, NEW line, LineTyped(line), log' = Append(log, line),
         \/ line.type = "user"
         \/ /\ line.type = "call" /\ Called # Call /\ line.id = Cardinality(Called) + 1
  PROVE  /\ LogTyped' /\ Len(log') = Len(log) + 1
         /\ \A i \in 1..Len(log) : log'[i] = log[i]
<1>1. IsLonger(log', log, line)
  BY Appended DEF LogTyped
<1>2. /\ IsSeq(log)' /\ Len(log) \in Nat /\ Len(log') = Len(log) + 1
      /\ \A i \in 1..Len(log) : log'[i] = log[i]
      /\ log'[Len(log) + 1] = line
  BY <1>1 DEF IsLonger, IsSeq
<1>3. \A i \in 1..Len(log') : LineTyped(log'[i])
  BY <1>2 DEF LogTyped
<1>4. DOMAIN log = 1..Len(log) /\ DOMAIN log' = 1..Len(log')
  BY <1>2 DEF LogTyped, IsSeq
<1>5. PICK n \in 0..MaxCalls : Called = 1..n
  BY DEF LogTyped
<1>6. CASE line.type = "user"
  <2>1. Called' = Called
    BY <1>2, <1>4, <1>6 DEF Called
  <2>2. \A i \in 1..Len(log') : IsCall(i)' => i \in 1..Len(log) /\ IsCall(i) /\ log'[i] = log[i]
    BY <1>2, <1>6 DEF IsCall
  <2>3. QED
    BY <1>2, <1>3, <1>5, <2>1, <2>2 DEF LogTyped
<1>7. CASE line.type = "call" /\ Called # Call /\ line.id = Cardinality(Called) + 1
  <2>1. n \in Nat /\ MaxCalls \in Nat /\ n # MaxCalls
    BY <1>5, <1>7, EgressAssumption DEF Call
  <2>2. Cardinality(Called) = n
    BY <1>5, <2>1, FS_Interval
  <2>3. line.id = n + 1 /\ line.id \notin Called /\ n + 1 \in 0..MaxCalls
    BY <1>5, <1>7, <2>1, <2>2
  <2>4. Called' = Called \cup {line.id}
    <3>1. \A c \in Called : \E i \in 1..Len(log) : log[i].type = "call" /\ c = log[i].id
      BY <1>4 DEF Called
    <3>2. \A i \in 1..Len(log) : log[i].type = "call" => log[i].id \in Called
      BY <1>4 DEF Called
    <3>3. \A c \in Called' : \E i \in 1..Len(log') : log'[i].type = "call" /\ c = log'[i].id
      BY <1>4 DEF Called
    <3>4. \A i \in 1..Len(log') : log'[i].type = "call" => log'[i].id \in Called'
      BY <1>4 DEF Called
    <3>5. Called \subseteq Called'
      BY <1>2, <3>1, <3>4
    <3>6. line.id \in Called'
      BY <1>2, <1>7, <3>4
    <3>7. \A i \in 1..Len(log') : (i \in 1..Len(log) /\ log'[i] = log[i]) \/ log'[i] = line
      BY <1>2
    <3>8. Called' \subseteq Called \cup {line.id}
      BY <3>2, <3>3, <3>7
    <3>9. QED
      BY <3>5, <3>6, <3>8
  <2>5. Called' = 1..n + 1
    BY <1>5, <2>1, <2>3, <2>4
  <2>6. \A i \in 1..Len(log) : IsCall(i) => log[i].id # line.id
    BY <1>4, <2>3 DEF Called, IsCall
  <2>7. \A i \in 1..Len(log') : IsCall(i)' =>
          \/ i = Len(log) + 1 /\ log'[i] = line
          \/ i \in 1..Len(log) /\ IsCall(i) /\ log'[i] = log[i]
    BY <1>2 DEF IsCall
  <2>8. \A i, j \in 1..Len(log') :
          IsCall(i)' /\ IsCall(j)' /\ log'[i].id = log'[j].id => i = j
    BY <2>6, <2>7 DEF LogTyped
  <2>9. QED
    BY <1>2, <1>3, <2>3, <2>5, <2>8 DEF LogTyped
<1>8. QED
  BY <1>2, <1>6, <1>7

\* What is true of a turn stays so, whatever is added to the transcript and read of it.
LEMMA TrueStays ==
  ASSUME SecretsInv, NEW t, TurnTrue(t), \A i \in 1..Len(log) : log'[i] = log[i],
         \/ ends' = ends
         \/ ends' = ends \cup {Len(log)}
  PROVE  TurnTrue(t)'
<1>1. PICK e \in ends : /\ t.opened \in 1..e /\ IsPrompt(t.opened)
                        /\ \A d \in ends : ~(t.opened <= d /\ d < e)
                        /\ Faithful(t, e)
  BY DEF TurnTrue
<1>2. e \in Nat /\ e <= Len(log) /\ Len(log) \in Nat
  BY DEF SecretsInv, LogTyped, IsSeq
<1>3. t.opened \in Nat /\ t.opened \in 1..Len(log) /\ \A i \in 1..e : log'[i] = log[i]
  BY <1>1, <1>2
<1>4. Faithful(t, e)'
  BY <1>1, <1>2, <1>3, RegionStays DEF Faithful
<1>5. IsPrompt(t.opened)'
  BY <1>1, <1>3 DEF IsPrompt
<1>6. e \in ends' /\ \A d \in ends' : ~(t.opened <= d /\ d < e)
  <2>1. ~(Len(log) < e)
    BY <1>2
  <2>2. \A d \in ends' : d \in ends \/ d = Len(log)
    OBVIOUS
  <2>3. QED
    BY <1>1, <2>1, <2>2
<1>7. QED
  BY <1>1, <1>4, <1>5, <1>6 DEF TurnTrue

\* Before the first pass no turn is on record.
LEMMA SecretsInitially == EgressInit => SecretsInv
<1> SUFFICES ASSUME EgressInit PROVE SecretsInv
  OBVIOUS
<1>1. log = <<>> /\ queue = <<>> /\ turns = <<>> /\ cursor = 0 /\ ends = {0}
  BY DEF EgressInit
<1>2. IsSeq(<<>>) /\ Len(<<>>) = 0 /\ DOMAIN <<>> = {}
  BY DEF IsSeq
<1>3. Called = {} /\ 1..0 = {}
  BY <1>1, <1>2 DEF Called
<1>4. 0 \in 0..MaxCalls
  BY EgressAssumption
<1>5. LogTyped
  BY <1>1, <1>2, <1>3, <1>4 DEF LogTyped
<1>6. TurnsRead = {}
  BY <1>1, <1>2 DEF TurnsRead
<1>7. QED
  BY <1>1, <1>2, <1>5, <1>6 DEF SecretsInv

\* The invariant, action by action.
LEMMA SayKeeps ==
  ASSUME SecretsInv, Prompt \/ ToolCall \/ ToolResult
  PROVE  SecretsInv'
<1>1. PICK line : /\ LineTyped(line) /\ Say(line)
                  /\ \/ line.type = "user"
                     \/ line.type = "call" /\ Called # Call /\ line.id = Cardinality(Called) + 1
  <2>1. CASE Prompt
    <3>1. PICK line : line = [Line("user") EXCEPT !.text = TRUE]
      OBVIOUS
    <3>2. line.type = "user" /\ line.id = NoCall
      BY <3>1 DEF Line
    <3>3. QED
      BY <2>1, <3>1, <3>2 DEF Prompt, LineTyped
  <2>2. CASE ToolCall
    <3>1. PICK tool \in ToolOf(adapter), model \in Model :
            \E paths \in IF adapter = "claude" THEN ClaudeReads(tool) ELSE CodexReads(tool) :
              /\ Called # Call
              /\ Say([Line("call") EXCEPT !.id = Cardinality(Called) + 1, !.paths = paths,
                        !.model = IF adapter = "claude" THEN model ELSE UnknownModel])
      BY <2>2 DEF ToolCall
    <3>2. PICK line :
            /\ \E paths : line = [Line("call") EXCEPT !.id = Cardinality(Called) + 1,
                 !.paths = paths, !.model = IF adapter = "claude" THEN model ELSE UnknownModel]
            /\ Called # Call /\ Say(line)
      BY <3>1
    <3>3. line.type = "call" /\ line.id = Cardinality(Called) + 1
      BY <3>2 DEF Line
    <3>4. PICK n \in 0..MaxCalls : Called = 1..n
      BY DEF SecretsInv, LogTyped
    <3>5. n \in Nat /\ MaxCalls \in Nat /\ n # MaxCalls
      BY <3>2, <3>4, EgressAssumption DEF Call
    <3>6. Cardinality(Called) = n
      BY <3>4, <3>5, FS_Interval
    <3>7. line.id \in Call
      BY <3>3, <3>4, <3>5, <3>6 DEF Call
    <3>8. QED
      BY <3>2, <3>3, <3>7 DEF LineTyped
  <2>3. CASE ToolResult
    <3>1. PICK id \in Called \ Answered :
            \E line : line.type = "user" /\ line.id = id /\ Say(line)
      <4>1. PICK id \in Called \ Answered, kinds \in SUBSET SecretKind, text \in BOOLEAN :
              Say([Line("user") EXCEPT !.id = id, !.kinds = kinds, !.text = text])
        BY <2>3 DEF ToolResult
      <4>2. PICK line : line = [Line("user") EXCEPT !.id = id, !.kinds = kinds, !.text = text]
        OBVIOUS
      <4>3. line.type = "user" /\ line.id = id
        BY <4>2 DEF Line
      <4>4. QED
        BY <4>1, <4>2, <4>3
    <3>2. PICK n \in 0..MaxCalls : Called = 1..n
      BY DEF SecretsInv, LogTyped
    <3>3. id \in Call
      BY <3>1, <3>2, EgressAssumption DEF Call
    <3>4. QED
      BY <3>1, <3>3 DEF LineTyped
  <2>4. QED
    BY <2>1, <2>2, <2>3
<1>2. log' = Append(log, line) /\ UNCHANGED <<cursor, ends, queue, turns>>
  BY <1>1 DEF Say
<1>3. /\ LogTyped' /\ Len(log') = Len(log) + 1
      /\ \A i \in 1..Len(log) : log'[i] = log[i]
  BY <1>1, <1>2, LogStays DEF SecretsInv
<1>4. cursor' \in 0..Len(log') /\ ends' \subseteq 0..cursor'
  BY <1>2, <1>3 DEF SecretsInv, LogTyped, IsSeq
<1>5. TurnsRead' = TurnsRead
  BY <1>2 DEF TurnsRead
<1>6. ASSUME NEW t \in TurnsRead PROVE TurnTrue(t)'
  <2>1. PICK u : u = t
    OBVIOUS
  <2>2. TurnTrue(u)
    BY <2>1 DEF SecretsInv
  <2>3. TurnTrue(u)'
    BY <1>2, <1>3, <2>2, TrueStays
  <2>4. QED
    BY <2>1, <2>3
<1>7. QED
  BY <1>2, <1>3, <1>4, <1>5, <1>6 DEF SecretsInv

\* What is true of a turn is told by where it opened, its reads and its secrets.
LEMMA TrueByFields ==
  ASSUME NEW t, TurnTrue(t), NEW u, u.opened = t.opened, u.reads = t.reads, u.secrets = t.secrets
  PROVE  TurnTrue(u)
BY DEF TurnTrue, Faithful

\* A pass reads its lines one after the other, and what it queues is faithful.
LEMMA PassKeeps ==
  ASSUME SecretsInv, Pass
  PROVE  SecretsInv'
<1>1. /\ cursor < Len(log) /\ queue' = ReadIncremental /\ cursor' = Len(log)
      /\ ends' = ends \cup {Len(log)} /\ UNCHANGED <<log, turns>>
  BY DEF Pass
<1>2. /\ Len(log) \in Nat /\ cursor \in 0..Len(log) /\ cursor \in Nat /\ LogTyped
      /\ ends \subseteq 0..cursor
  BY DEF SecretsInv, LogTyped, IsSeq
<1>3. LogTyped'
  BY <1>1, <1>2 DEF LogTyped, Called, IsCall
<1>4. \A i \in 1..Len(log) : log'[i] = log[i]
  BY <1>1
<1>5. /\ IsSeq(queue')
      /\ \A i \in 1..Len(queue') :
           /\ queue'[i].opened \in cursor + 1..Len(log) /\ IsPrompt(queue'[i].opened)
           /\ Faithful(queue'[i], Len(log))
  BY <1>1, <1>2, ReadsTrue
<1>6. ASSUME NEW t, t.opened \in cursor + 1..Len(log), IsPrompt(t.opened), Faithful(t, Len(log))
      PROVE  TurnTrue(t)'
  <2>1. PICK e : e = Len(log)
    OBVIOUS
  <2>2. e \in ends' /\ e \in Nat /\ t.opened \in 1..e
    BY <1>1, <1>2, <1>6, <2>1
  <2>3. \A d \in ends' : ~(t.opened <= d /\ d < e)
    <3>1. ASSUME NEW d \in ends', t.opened <= d, d < e PROVE FALSE
      <4>1. d \in 0..cursor
        BY <1>1, <1>2, <2>1, <3>1
      <4>2. QED
        BY <1>2, <1>6, <3>1, <4>1
    <3>2. QED
      BY <3>1
  <2>4. t.opened \in Nat /\ \A i \in 1..e : log'[i] = log[i]
    BY <1>4, <2>1, <2>2
  <2>5. Faithful(t, e)'
    BY <1>6, <2>1, <2>2, <2>4, RegionStays DEF Faithful
  <2>6. IsPrompt(t.opened)'
    BY <1>1, <1>6 DEF IsPrompt
  <2>7. QED
    BY <2>2, <2>3, <2>5, <2>6 DEF TurnTrue
<1>7. ASSUME NEW t \in TurnsRead PROVE TurnTrue(t)'
  <2>1. PICK u : u = t
    OBVIOUS
  <2>2. TurnTrue(u)
    BY <2>1 DEF SecretsInv
  <2>3. TurnTrue(u)'
    BY <1>1, <1>4, <2>2, TrueStays
  <2>4. QED
    BY <2>1, <2>3
<1>8. ASSUME NEW t \in TurnsRead' PROVE TurnTrue(t)'
  <2>1. PICK u : u = t
    OBVIOUS
  <2>2. CASE u \in {turns[i] : i \in 1..Len(turns)}
    <3>1. u \in TurnsRead
      BY <2>2 DEF TurnsRead
    <3>2. QED
      BY <1>7, <2>1, <3>1
  <2>3. CASE u \in {queue'[i] : i \in 1..Len(queue')}
    <3>1. u.opened \in cursor + 1..Len(log) /\ IsPrompt(u.opened) /\ Faithful(u, Len(log))
      BY <1>5, <2>3
    <3>2. TurnTrue(u)'
      BY <1>6, <3>1
    <3>3. QED
      BY <2>1, <3>2
  <2>4. u \in {queue'[i] : i \in 1..Len(queue')} \cup {turns[i] : i \in 1..Len(turns)}
    BY <1>1, <2>1 DEF TurnsRead
  <2>5. QED
    BY <2>2, <2>3, <2>4
<1>9. cursor' \in 0..Len(log') /\ ends' \subseteq 0..cursor'
  <2>1. 0..cursor \subseteq 0..Len(log) /\ Len(log) \in 0..Len(log)
    BY <1>1, <1>2
  <2>2. QED
    BY <1>1, <1>2, <2>1
<1>10. IsSeq(queue)' /\ IsSeq(turns)'
  BY <1>1, <1>5 DEF SecretsInv, IsSeq
<1>11. QED
  BY <1>3, <1>8, <1>9, <1>10 DEF SecretsInv

\* A turn that goes on record is one of the queue.
LEMMA AppendKeeps ==
  ASSUME SecretsInv, AppendVersion, queue # <<>>
  PROVE  SecretsInv'
<1>1. PICK u : /\ u = [opened |-> Head(queue).opened, reads |-> Head(queue).reads,
                       secrets |-> Head(queue).secrets]
               /\ turns' = Append(turns, u) /\ queue' = Tail(queue)
  BY DEF AppendVersion
<1>2. UNCHANGED <<log, cursor, ends>>
  BY DEF AppendVersion
<1>3. PICK S : S = {queue[i] : i \in DOMAIN queue}
  OBVIOUS
<1>4. queue \in Seq(S) /\ Len(queue) \in Nat /\ Len(queue) # 0
  BY <1>3 DEF SecretsInv, IsSeq
<1>5. /\ queue' \in Seq(S) /\ Len(queue') = Len(queue) - 1
      /\ \A i \in 1..Len(queue') : queue'[i] = queue[i + 1]
  BY <1>1, <1>4
<1>6. IsSeq(queue')
  <2>1. \A i \in 1..Len(queue') : queue'[i] \in {queue'[j] : j \in DOMAIN queue'}
    BY <1>5
  <2>2. QED
    BY <1>5, <2>1 DEF IsSeq
<1>7. IsLonger(turns', turns, u)
  BY <1>1, Appended DEF SecretsInv
<1>8. TurnTrue(u)
  <2>1. PICK h : h = Head(queue)
    OBVIOUS
  <2>2. h = queue[1] /\ 1 \in 1..Len(queue)
    BY <1>4, <2>1
  <2>3. h \in TurnsRead
    BY <2>2 DEF TurnsRead
  <2>4. TurnTrue(h)
    BY <2>3 DEF SecretsInv
  <2>5. u.opened = h.opened /\ u.reads = h.reads /\ u.secrets = h.secrets
    BY <1>1, <2>1
  <2>6. QED
    BY <2>4, <2>5, TrueByFields
<1>9. TurnsRead' \subseteq TurnsRead \cup {u}
  <2>1. \A i \in 1..Len(queue') : queue'[i] \in TurnsRead
    <3>1. \A i \in 1..Len(queue') : i + 1 \in 1..Len(queue)
      BY <1>4, <1>5
    <3>2. QED
      BY <1>5, <3>1 DEF TurnsRead
  <2>2. \A i \in 1..Len(turns') : turns'[i] \in TurnsRead \cup {u}
    <3>1. \A i \in 1..Len(turns') : (i \in 1..Len(turns) /\ turns'[i] = turns[i]) \/ turns'[i] = u
      BY <1>7 DEF IsLonger
    <3>2. QED
      BY <3>1 DEF TurnsRead
  <2>3. QED
    BY <2>1, <2>2 DEF TurnsRead
<1>10. ASSUME NEW t \in TurnsRead' PROVE TurnTrue(t)'
  <2>1. PICK v : v = t
    OBVIOUS
  <2>2. TurnTrue(v)
    BY <1>8, <1>9, <2>1 DEF SecretsInv
  <2>3. TurnTrue(v)'
    BY <1>2, <2>2, TrueStays
  <2>4. QED
    BY <2>1, <2>3
<1>11. LogTyped'
  BY <1>2 DEF SecretsInv, LogTyped, Called, IsCall
<1>12. IsSeq(turns)'
  BY <1>7 DEF IsLonger
<1>13. QED
  BY <1>2, <1>6, <1>10, <1>11, <1>12 DEF SecretsInv

\* Nothing else touches lines or turns.
LEMMA RestKeeps ==
  ASSUME SecretsInv, UNCHANGED <<log, cursor, ends, queue, turns>>
  PROVE  SecretsInv'
<1>1. LogTyped'
  BY DEF SecretsInv, LogTyped, Called, IsCall
<1>2. TurnsRead' = TurnsRead
  BY DEF TurnsRead
<1>3. ASSUME NEW t \in TurnsRead PROVE TurnTrue(t)'
  <2>1. PICK u : u = t
    OBVIOUS
  <2>2. TurnTrue(u)
    BY <2>1 DEF SecretsInv
  <2>3. TurnTrue(u)'
    BY <2>2, TrueStays
  <2>4. QED
    BY <2>1, <2>3
<1>4. QED
  BY <1>1, <1>2, <1>3 DEF SecretsInv

\* So every step keeps the turns faithful.
LEMMA SecretsInductive ==
  SecretsInv /\ (named => queue # <<>>) /\ [EgressNext]_egressVars => SecretsInv'
<1> SUFFICES ASSUME SecretsInv, named => queue # <<>>, [EgressNext]_egressVars
             PROVE  SecretsInv'
  OBVIOUS
<1>1. CASE UNCHANGED <<log, cursor, ends, queue, turns>>
  BY <1>1, RestKeeps
<1>2. CASE Prompt \/ ToolCall \/ ToolResult
  BY <1>2, SayKeeps
<1>3. CASE Pass
  BY <1>3, PassKeeps
<1>4. CASE AppendVersion
  BY <1>4, AppendKeeps DEF AppendVersion
<1>5. CASE PutNode \/ StartGuard \/ GuardStep \/ KillGuard \/ UNCHANGED egressVars
  BY <1>1, <1>5 DEF PutNode, StartGuard, GuardStep, ReadNode, ReadVersions, Alert, AlertFails,
                    AuditAlert, EndTick, KillGuard, egressVars, transcriptVars
<1>6. QED
  BY <1>2, <1>3, <1>4, <1>5 DEF EgressNext

\* A node that is put is of the turn at the head of the queue.
NamedIsQueued == named \in BOOLEAN /\ (named => queue # <<>>)

\* A node is named only for a turn in the queue.
LEMMA NamedStays == NamedIsQueued /\ [EgressNext]_egressVars => NamedIsQueued'
<1> SUFFICES ASSUME NamedIsQueued, [EgressNext]_egressVars PROVE NamedIsQueued'
  OBVIOUS
<1>1. CASE UNCHANGED <<queue, named>>
  BY <1>1 DEF NamedIsQueued
<1>2. CASE Prompt \/ ToolCall \/ ToolResult
  BY <1>1, <1>2 DEF Prompt, ToolCall, ToolResult, Say
<1>3. CASE Pass
  BY <1>3 DEF Pass, NamedIsQueued
<1>4. CASE PutNode
  BY <1>4 DEF PutNode, NamedIsQueued
<1>5. CASE AppendVersion
  BY <1>5 DEF AppendVersion, NamedIsQueued
<1>6. CASE StartGuard \/ GuardStep \/ KillGuard \/ UNCHANGED egressVars
  BY <1>1, <1>6 DEF StartGuard, GuardStep, ReadNode, ReadVersions, Alert, AlertFails,
                    AuditAlert, EndTick, KillGuard, egressVars, transcriptVars
<1>7. QED
  BY <1>2, <1>3, <1>4, <1>5, <1>6 DEF EgressNext

\* Which lines are of a turn depends on the prompts, and on where passes have ended.
LEMMA LinesOfTheTurn ==
  ASSUME SecretsInv, NEW k \in DOMAIN turns, NEW e \in ends,
         turns[k].opened \in 1..e, IsPrompt(turns[k].opened),
         \A d \in ends : ~(turns[k].opened <= d /\ d < e)
  PROVE  OfTurn(k) = Region(turns[k].opened, e)
<1> DEFINE o == turns[k].opened
<1>1. /\ Len(log) \in Nat /\ cursor \in 0..Len(log) /\ e \in 0..cursor /\ o \in 1..e /\ o \in Nat
      /\ DOMAIN log = 1..Len(log) /\ ends \subseteq Nat
  BY DEF SecretsInv, LogTyped, IsSeq
<1>2. \A j \in 1..Len(log) : Opener(j) = o <=> o < j /\ \A i \in o + 1..j - 1 : ~IsPrompt(i)
  <2>1. SUFFICES ASSUME NEW j \in 1..Len(log)
                 PROVE  Opener(j) = o <=> o < j /\ \A i \in o + 1..j - 1 : ~IsPrompt(i)
    OBVIOUS
  <2>2. PICK before : before = {i \in 1..j - 1 : IsPrompt(i)}
    OBVIOUS
  <2>3. Opener(j) = IF before = {} THEN 0 ELSE CHOOSE i \in before : \A l \in before : l <= i
    BY <2>2 DEF Opener, IsPrompt
  <2>4. before \subseteq 0..j - 1 /\ j - 1 \in Nat
    BY <1>1, <2>2
  <2>5. CASE before = {}
    <3>1. Opener(j) = 0 /\ o # 0
      BY <1>1, <2>3, <2>5
    <3>2. o \in 1..j - 1 => o \in before
      BY <2>2
    <3>3. ~(o < j)
      BY <1>1, <2>5, <3>2
    <3>4. QED
      BY <3>1, <3>3
  <2>6. CASE before # {}
    <3>1. PICK m \in before : \A l \in before : l <= m
      BY <2>4, <2>6, GreatestOf
    <3>2. Opener(j) \in before /\ \A l \in before : l <= Opener(j)
      BY <2>3, <2>6, <3>1
    <3>3. PICK q : q = Opener(j)
      OBVIOUS
    <3>4. q \in 1..j - 1 /\ IsPrompt(q) /\ \A l \in before : l <= q
      BY <2>2, <3>2, <3>3
    <3>5. ASSUME q = o PROVE o < j /\ \A i \in o + 1..j - 1 : ~IsPrompt(i)
      <4>1. ASSUME NEW i \in o + 1..j - 1, IsPrompt(i) PROVE FALSE
        <5>1. i \in before
          BY <1>1, <2>2, <4>1
        <5>2. i <= o
          BY <3>4, <3>5, <5>1
        <5>3. QED
          BY <1>1, <4>1, <5>2
      <4>2. QED
        BY <1>1, <3>4, <3>5, <4>1
    <3>6. ASSUME o < j, \A i \in o + 1..j - 1 : ~IsPrompt(i) PROVE q = o
      <4>1. o \in before
        BY <1>1, <2>2, <3>6
      <4>2. o <= q
        BY <3>4, <4>1
      <4>3. ~(q \in o + 1..j - 1)
        BY <3>4, <3>6
      <4>4. QED
        BY <1>1, <3>4, <4>2, <4>3
    <3>7. QED
      BY <3>3, <3>5, <3>6
  <2>7. QED
    BY <2>5, <2>6
<1>3. \A j \in 1..Len(log) : j <= cursor /\ OnePass(o, j) /\ o < j <=> j <= e /\ o < j
  <2>1. SUFFICES ASSUME NEW j \in 1..Len(log), o < j
                 PROVE  j <= cursor /\ OnePass(o, j) <=> j <= e
    OBVIOUS
  <2>2. ASSUME OnePass(o, j) PROVE j <= e
    <3>1. ~(o <= e /\ e < j)
      BY <2>2 DEF OnePass
    <3>2. QED
      BY <1>1, <3>1
  <2>3. ASSUME j <= e PROVE j <= cursor /\ OnePass(o, j)
    <3>1. ASSUME NEW d \in ends, o <= d, d < j PROVE FALSE
      <4>1. d \in Nat /\ d < e
        BY <1>1, <2>3, <3>1
      <4>2. QED
        BY <3>1, <4>1
    <3>2. QED
      BY <1>1, <2>3, <3>1 DEF OnePass
  <2>4. QED
    BY <2>2, <2>3
<1>4. Region(o, e) = {j \in 1..Len(log) : o < j /\ j <= e /\ \A i \in o + 1..j - 1 : ~IsPrompt(i)}
  <2>1. \A j : j \in o + 1..e <=> j \in 1..Len(log) /\ o < j /\ j <= e
    BY <1>1
  <2>2. QED
    BY <2>1 DEF Region
<1>5. QED
  BY <1>1, <1>2, <1>3, <1>4 DEF OfTurn

\* A turn holds the paths of the calls behind its prompt, and the secrets that the
\* results to these calls brought, however its lines are divided among passes.
THEOREM SecretsHaveTheirTurn == EgressSpec => []SecretsOfTheTurn
<1>1. SecretsInv => SecretsOfTheTurn
  <2> SUFFICES ASSUME SecretsInv, NEW k \in DOMAIN turns,
                      NEW calls, calls = {i \in OfTurn(k) : log[i].type = "call"},
                      NEW pairs, pairs = {x \in calls \X OfTurn(k) :
                        x[1] < x[2] /\ log[x[2]].type = "user" /\ log[x[2]].id = log[x[1]].id}
               PROVE  /\ turns[k].reads = UNION {log[i].paths : i \in calls}
                      /\ Range(turns[k].secrets) =
                           {s \in [paths : {log[x[1]].paths : x \in pairs} \ {{}},
                                   kinds : {log[x[2]].kinds : x \in pairs} \ {{}}] :
                              \E x \in pairs : s.paths = log[x[1]].paths /\ s.kinds = log[x[2]].kinds}
    BY ZenonT(60) DEF SecretsOfTheTurn
  <2>1. PICK t : t = turns[k]
    OBVIOUS
  <2>2. TurnTrue(t)
    <3>1. k \in 1..Len(turns)
      BY DEF SecretsInv, IsSeq
    <3>2. t \in TurnsRead
      BY <2>1, <3>1 DEF TurnsRead
    <3>3. QED
      BY <3>2 DEF SecretsInv
  <2>3. PICK e \in ends : /\ t.opened \in 1..e /\ IsPrompt(t.opened)
                          /\ \A d \in ends : ~(t.opened <= d /\ d < e)
                          /\ Faithful(t, e)
    BY <2>2 DEF TurnTrue
  <2>4. PICK R : R = Region(t.opened, e)
    OBVIOUS
  <2>5. OfTurn(k) = R
    BY <2>1, <2>3, <2>4, LinesOfTheTurn
  <2>6. calls = CallsIn(R)
    BY <2>5 DEF CallsIn, IsCall
  <2>7. turns[k].reads = UNION {log[i].paths : i \in calls}
    BY <2>1, <2>3, <2>4, <2>6 DEF Faithful, PathsIn
  <2>8. Range(turns[k].secrets) = SecretsIn(R)
    BY <2>1, <2>3, <2>4 DEF Faithful
  <2> DEFINE told == {s \in [paths : {log[x[1]].paths : x \in pairs} \ {{}},
                             kinds : {log[x[2]].kinds : x \in pairs} \ {{}}] :
                        \E x \in pairs : s.paths = log[x[1]].paths /\ s.kinds = log[x[2]].kinds}
  <2>9. \A x : /\ x \in pairs /\ log[x[1]].paths # {} /\ log[x[2]].kinds # {}
               <=> x \in R \X R /\ Brings(x[1], x[2])
    BY <2>5, <2>6 DEF CallsIn, Brings, IsCall
  <2>10. \A s \in told : s \in SecretsIn(R)
    <3>1. SUFFICES ASSUME NEW s \in told PROVE s \in SecretsIn(R)
      OBVIOUS
    <3>2. PICK x \in pairs : s.paths = log[x[1]].paths /\ s.kinds = log[x[2]].kinds
      BY <3>1
    <3>3. s.paths # {} /\ s.kinds # {} /\ s = [paths |-> s.paths, kinds |-> s.kinds]
      BY <3>1
    <3>4. x \in R \X R /\ Brings(x[1], x[2]) /\ s = Secret(x[1], x[2])
      BY <2>9, <3>2, <3>3 DEF Secret
    <3>5. QED
      BY <3>4 DEF SecretsIn
  <2>11. \A s \in SecretsIn(R) : s \in told
    <3>1. SUFFICES ASSUME NEW s \in SecretsIn(R) PROVE s \in told
      OBVIOUS
    <3>2. PICK x \in R \X R : Brings(x[1], x[2]) /\ s = Secret(x[1], x[2])
      BY <3>1 DEF SecretsIn
    <3>3. x \in pairs /\ log[x[1]].paths # {} /\ log[x[2]].kinds # {}
      BY <2>9, <3>2
    <3>4. s = [paths |-> log[x[1]].paths, kinds |-> log[x[2]].kinds]
      BY <3>2 DEF Secret
    <3>5. QED
      BY <3>3, <3>4
  <2>12. QED
    BY <2>7, <2>8, <2>10, <2>11
<1>2. EgressInit => SecretsInv /\ NamedIsQueued
  BY SecretsInitially DEF EgressInit, NamedIsQueued
<1>3. /\ SecretsInv /\ NamedIsQueued /\ [EgressNext]_egressVars
      => SecretsInv' /\ NamedIsQueued'
  BY SecretsInductive, NamedStays DEF NamedIsQueued
<1>4. QED
  BY <1>1, <1>2, <1>3, PTL DEF EgressSpec

-----------------------------------------------------------------------------
(***************************************************************************)
(* The gate before a commit.                                               *)
(***************************************************************************)
\* What the gate has still to look at, while nobody writes: a file that is staged with a
\* secret it did not have, under a name git prints as it is, is on the list, or has been
\* counted.
GateInv ==
  /\ gate.criticals \in Nat /\ DOMAIN gate = {"stage", "todo", "criticals", "warns"}
  /\ settled /\ gate.stage = "check" =>
       \A f \in Staged :
         ListedAs[f] = f /\ index[f] = "secret" /\ head[f] \notin {"secret", "link"} =>
           /\ work[f] = index[f]
           /\ f \in gate.todo \/ gate.criticals > 0

\* Nothing is staged at the start.
LEMMA GateInitially == PreflightInit => GateInv
BY DEF PreflightInit, GateInv, GateOff

\* Writes, staging and the stages of the gate keep count of the secrets on their way.
LEMMA GateKeeps == GateInv /\ [PreflightNext]_preflightVars => GateInv'
<1> SUFFICES ASSUME GateInv, [PreflightNext]_preflightVars PROVE GateInv'
  OBVIOUS
<1>1. CASE UNCHANGED preflightVars
  BY <1>1 DEF GateInv, preflightVars
<1>2. CASE WriteFile \/ Stage
  BY <1>2 DEF GateInv, WriteFile, Stage
<1>3. CASE EndGate
  BY <1>3 DEF GateInv, EndGate, GateOff
<1>4. CASE StartGate
  <2>1. PICK renamed \in Renamed :
          /\ gate' = IF ListedByGit(renamed) = {} THEN GateOff
                     ELSE [GateOff EXCEPT !.stage = "check", !.todo = ListedByGit(renamed)]
          /\ settled' =
               (renamed = {} /\ \A f \in Staged : index[f] # head[f] => work[f] = index[f])
    BY <1>4 DEF StartGate
  <2>2. UNCHANGED <<head, index, work>>
    BY <1>4 DEF StartGate
  <2>3. CASE ListedByGit(renamed) = {}
    BY <2>1, <2>3 DEF GateInv, GateOff
  <2>4. CASE ListedByGit(renamed) # {}
    <3>1. /\ DOMAIN gate' = {"stage", "todo", "criticals", "warns"}
          /\ gate'.criticals = 0 /\ gate'.todo = ListedByGit(renamed)
      BY <2>1, <2>4 DEF GateOff
    <3>2. ASSUME settled', NEW f \in Staged, ListedAs[f] = f, index[f] = "secret",
                 head[f] \notin {"secret", "link"}
          PROVE  work[f] = index[f] /\ f \in gate'.todo
      <4>1. f \in Staged \ renamed /\ index[f] # head[f] /\ work[f] = index[f]
        BY <2>1, <3>2
      <4>2. f \in Filtered(renamed)
        BY <3>2, <4>1 DEF Filtered, Retyped
      <4>3. ListedAs[f] \in ListedByGit(renamed)
        BY <4>2 DEF ListedByGit
      <4>4. QED
        BY <3>1, <3>2, <4>1, <4>3
    <3>3. QED
      BY <2>2, <3>1, <3>2 DEF GateInv
  <2>5. QED
    BY <2>3, <2>4
<1>5. CASE CheckFile
  <2>1. PICK f \in gate.todo :
          gate' = [gate EXCEPT
            !.todo = @ \ {f},
            !.criticals = @ + IF f \in Staged /\ work[f] = "secret" THEN 1 ELSE 0,
            !.warns = @ + IF f \in Guarded /\ work[f] # "none" THEN 1 ELSE 0]
    BY <1>5 DEF CheckFile
  <2>2. UNCHANGED <<head, index, work, settled>> /\ gate.stage = "check"
    BY <1>5 DEF CheckFile
  <2>3. /\ DOMAIN gate' = {"stage", "todo", "criticals", "warns"}
        /\ gate'.todo = gate.todo \ {f}
        /\ gate'.criticals =
             gate.criticals + IF f \in Staged /\ work[f] = "secret" THEN 1 ELSE 0
    BY <2>1 DEF GateInv
  <2>4. gate'.criticals \in Nat /\ (gate.criticals > 0 => gate'.criticals > 0)
    BY <2>3 DEF GateInv
  <2>5. f \in Staged /\ work[f] = "secret" => gate'.criticals > 0
    BY <2>3 DEF GateInv
  <2>6. QED
    BY <2>2, <2>3, <2>4, <2>5 DEF GateInv
<1>6. QED
  BY <1>1, <1>2, <1>3, <1>4, <1>5 DEF PreflightNext

\* GateHolds: a commit that the gate let pass brings no secret that the detectors know, in
\* a file git lists under its own name, where what is staged was in the tree and nobody
\* wrote while the gate ran.
THEOREM TheGateHolds == PreflightSpec => GateHolds
<1>1. GateInv /\ [PreflightNext]_preflightVars =>
        [(settled /\ ~WarnOnly) =>
           \A f \in Staged : ListedAs[f] = f /\ head'[f] = "secret"
                              => head[f] \in {"secret", "link"}]_preflightVars
  <2> SUFFICES ASSUME GateInv, PreflightNext, settled, ~WarnOnly,
                      NEW f \in Staged, ListedAs[f] = f, head'[f] = "secret"
               PROVE  head[f] \in {"secret", "link"}
    OBVIOUS
  <2>1. CASE EndGate
    <3>1. CASE Blocks
      BY <2>1, <3>1 DEF EndGate
    <3>2. CASE ~Blocks
      <4>1. /\ gate.stage = "check" /\ gate.todo = {} /\ ~(gate.criticals > 0)
            /\ head' = index
        BY <2>1, <3>2 DEF EndGate, Blocks
      <4>2. QED
        BY <4>1 DEF GateInv
    <3>3. QED
      BY <3>1, <3>2
  <2>2. CASE WriteFile \/ Stage \/ StartGate \/ CheckFile
    BY <2>2 DEF WriteFile, Stage, StartGate, CheckFile
  <2>3. QED
    BY <2>1, <2>2 DEF PreflightNext
<1>2. QED
  BY <1>1, GateInitially, GateKeeps, PTL DEF PreflightSpec, GateHolds

-----------------------------------------------------------------------------
(***************************************************************************)
(* Attestations.                                                           *)
(***************************************************************************)
AttesterFields == {"stage", "statement", "key", "by"}

StoreKey(k) == k \in Nat /\ k > ElsewhereKey

\* The key that the store's own signatures are made with.
TheStoreKey(k) == StoreKey(k) /\ (~twoFirst => k = keyFile)

Minting(p) == attester[p].stage \in {"create", "write"}

AttesterTyped(a) ==
  /\ DOMAIN a = AttesterFields
  /\ a.stage \in {"load", "create", "write"} => a.by = "store" /\ StoreKey(a.key)
  /\ a.stage = "sign" => \/ a.by = "env" /\ a.key = EnvKey
                         \/ a.by = "store" /\ TheStoreKey(a.key)

EnvelopeTrue(e) ==
  \/ /\ e.by \in {"store", "env", "elsewhere"}
     /\ e.signature = <<e.publicKey, e.statement>>
     /\ e.by = "store" => TheStoreKey(e.publicKey)
     /\ e.by = "env" => e.publicKey = EnvKey
     /\ e.by = "elsewhere" => e.publicKey = ElsewhereKey
  \/ e.by = "altered" /\ \E other : /\ e.signature = <<e.publicKey, other>>
                                    /\ other # e.statement

\* A file that is not a whole key is one that is being minted, or was left so.
OneMinter ==
  ~twoFirst =>
    /\ \A p, q \in Attester : Minting(p) /\ Minting(q) => p = q
    /\ \A p \in Attester : /\ attester[p].stage = "create" => keyFile = NoSeed
                           /\ attester[p].stage = "write" => keyFile = CutShort

KeyInv ==
  /\ attests \in Nat
  /\ keyFile \in {NoSeed, CutShort} \/ StoreKey(keyFile)
  /\ DOMAIN attester = Attester
  /\ \A p \in Attester : AttesterTyped(attester[p])
  /\ \A e \in envelopes : EnvelopeTrue(e)
  /\ OneMinter

-----------------------------------------------------------------------------
\* There is no key at the start.
LEMMA KeyInitially == ProvenanceInit => KeyInv
BY DEF ProvenanceInit, AttesterIdle, KeyInv, AttesterTyped, AttesterFields, OneMinter, Minting

\* What is true of an attester or an envelope stays so while the key does, or as long
\* as there is none that the store's own signatures need.
LEMMA Stays ==
  ASSUME KeyInv, twoFirst => twoFirst',
         keyFile' = keyFile \/ twoFirst' \/ ~StoreKey(keyFile)
  PROVE  /\ \A k : TheStoreKey(k) => TheStoreKey(k)'
         /\ \A a : AttesterTyped(a) => AttesterTyped(a)'
         /\ \A e : EnvelopeTrue(e) => EnvelopeTrue(e)'
<1>1. \A k : TheStoreKey(k) => TheStoreKey(k)'
  BY DEF TheStoreKey
<1>2. QED
  BY <1>1 DEF AttesterTyped, EnvelopeTrue

\* One attester goes on.
LEMMA AttesterMoves ==
  ASSUME KeyInv, NEW p \in Attester, NEW a,
         attester' = [attester EXCEPT ![p] = a],
         attests' \in Nat,
         twoFirst => twoFirst',
         keyFile' = keyFile \/ twoFirst' \/ ~StoreKey(keyFile),
         keyFile' \in {NoSeed, CutShort} \/ StoreKey(keyFile'),
         AttesterTyped(a)',
         \A e \in envelopes' : e \in envelopes \/ EnvelopeTrue(e)',
         ~twoFirst' =>
           /\ a.stage \in {"create", "write"} => \A q \in Attester \ {p} : ~Minting(q)
           /\ a.stage = "create" => keyFile' = NoSeed
           /\ a.stage = "write" => keyFile' = CutShort
           /\ keyFile' = keyFile \/ \A q \in Attester \ {p} : ~Minting(q)
  PROVE  KeyInv'
<1>1. /\ DOMAIN attester = Attester /\ DOMAIN attester' = Attester /\ attester'[p] = a
      /\ \A q \in Attester \ {p} : attester'[q] = attester[q]
  BY DEF KeyInv
<1>2. \A q \in Attester : AttesterTyped(attester[q])'
  <2>1. SUFFICES ASSUME NEW q \in Attester, NEW b, b = attester'[q] PROVE AttesterTyped(b)'
    OBVIOUS
  <2>2. CASE q = p
    <3>1. b = a
      BY <1>1, <2>1, <2>2
    <3>2. QED
      BY <3>1
  <2>3. CASE q # p
    BY <1>1, <2>1, <2>3, Stays DEF KeyInv
  <2>4. QED
    BY <2>2, <2>3
<1>3. \A e \in envelopes' : EnvelopeTrue(e)'
  BY Stays DEF KeyInv
<1>4. OneMinter'
  BY <1>1 DEF KeyInv, OneMinter, Minting
<1>5. QED
  BY <1>1, <1>2, <1>3, <1>4 DEF KeyInv

\* A process that begins holds no key; one that dies leaves the file as it is.
LEMMA StartsOrEnds ==
  ASSUME KeyInv, NEW p \in Attester, StartAttest(p) \/ KillAttester(p)
  PROVE  KeyInv'
<1>1. UNCHANGED <<keyFile, envelopes, twoFirst>>
  BY DEF StartAttest, KillAttester
<1>2. CASE StartAttest(p)
  <2>1. PICK told : \E env \in BOOLEAN :
          attester' = [attester EXCEPT ![p] =
            [stage |-> IF env THEN "sign" ELSE "load", statement |-> told,
             key |-> IF env THEN EnvKey ELSE KeyOf(attests'),
             by |-> IF env THEN "env" ELSE "store"]]
    BY <1>2 DEF StartAttest
  <2>2. PICK n : n = attests'
    OBVIOUS
  <2>3. n \in Nat /\ n > 0
    BY <1>2, <2>2 DEF StartAttest, KeyInv
  <2>4. StoreKey(KeyOf(n))
    BY <2>3 DEF StoreKey, KeyOf, ElsewhereKey
  <2>5. PICK b : /\ \E env \in BOOLEAN :
                      b = [stage |-> IF env THEN "sign" ELSE "load", statement |-> told,
                           key |-> IF env THEN EnvKey ELSE KeyOf(n),
                           by |-> IF env THEN "env" ELSE "store"]
                 /\ attester' = [attester EXCEPT ![p] = b]
    BY <2>1, <2>2
  <2>6. AttesterTyped(b)' /\ b.stage \notin {"create", "write"}
    BY <2>4, <2>5 DEF AttesterTyped, AttesterFields
  <2>7. QED
    BY <1>1, <2>2, <2>3, <2>5, <2>6, AttesterMoves DEF KeyInv
<1>3. CASE KillAttester(p)
  <2>1. attester' = [attester EXCEPT ![p] = AttesterIdle] /\ attests' = attests
    BY <1>3 DEF KillAttester
  <2>2. PICK b : b = AttesterIdle
    OBVIOUS
  <2>3. AttesterTyped(b)' /\ b.stage = "idle"
    BY <2>2 DEF AttesterIdle, AttesterTyped, AttesterFields
  <2>4. QED
    BY <1>1, <2>1, <2>2, <2>3, AttesterMoves DEF KeyInv
<1>4. QED
  BY <1>2, <1>3

\* A key is read whole, or minted by one process alone.
LEMMA LoadStep ==
  ASSUME KeyInv, NEW p \in Attester, LoadSigner(p)
  PROVE  KeyInv'
<1>1. /\ attester[p].stage = "load" /\ AttesterTyped(attester[p])
      /\ UNCHANGED <<keyFile, attests, envelopes>>
  BY DEF LoadSigner, KeyInv
<1>2. CASE /\ keyFile = NoSeed
           /\ attester' = [attester EXCEPT ![p].stage = "create"]
           /\ twoFirst' = (twoFirst \/ \E o \in Attester \ {p} :
                                         attester[o].stage \in {"create", "write"})
  <2>1. PICK b : b = [attester[p] EXCEPT !.stage = "create"]
    OBVIOUS
  <2>2. attester' = [attester EXCEPT ![p] = b]
    BY <1>2, <2>1 DEF KeyInv
  <2>3. AttesterTyped(b)' /\ b.stage = "create"
    BY <1>1, <2>1 DEF AttesterTyped, AttesterFields
  <2>4. ~twoFirst' => \A q \in Attester \ {p} : ~Minting(q)
    BY <1>2 DEF Minting
  <2>5. twoFirst => twoFirst'
    BY <1>2
  <2>6. QED
    BY <1>1, <1>2, <2>2, <2>3, <2>4, <2>5, AttesterMoves DEF KeyInv
<1>3. CASE keyFile = CutShort /\ attester' = [attester EXCEPT ![p] = AttesterIdle]
           /\ UNCHANGED twoFirst
  <2>1. PICK b : b = AttesterIdle
    OBVIOUS
  <2>2. AttesterTyped(b)' /\ b.stage = "idle"
    BY <2>1 DEF AttesterIdle, AttesterTyped, AttesterFields
  <2>3. QED
    BY <1>1, <1>3, <2>1, <2>2, AttesterMoves DEF KeyInv
<1>4. CASE /\ keyFile \notin {NoSeed, CutShort}
           /\ attester' = [attester EXCEPT ![p].stage = "sign", ![p].key = keyFile]
           /\ UNCHANGED twoFirst
  <2>1. PICK b : b = [attester[p] EXCEPT !.stage = "sign", !.key = keyFile]
    OBVIOUS
  <2>2. attester' = [attester EXCEPT ![p] = b]
    BY <1>4, <2>1 DEF KeyInv
  <2>3. StoreKey(keyFile) /\ TheStoreKey(keyFile)
    BY <1>4 DEF KeyInv, TheStoreKey
  <2>4. /\ DOMAIN b = AttesterFields /\ b.stage = "sign" /\ b.key = keyFile
        /\ b.by = "store"
    BY <1>1, <2>1 DEF AttesterTyped, AttesterFields
  <2>5. AttesterTyped(b)'
    BY <1>1, <1>4, <2>3, <2>4 DEF AttesterTyped, TheStoreKey
  <2>6. QED
    BY <1>1, <1>4, <2>2, <2>4, <2>5, AttesterMoves DEF KeyInv
<1>5. QED
  BY <1>2, <1>3, <1>4 DEF LoadSigner

\* Cutting and writing the file: the one that mints is alone, or two have been first.
LEMMA MintStep ==
  ASSUME KeyInv, NEW p \in Attester, CreateKeyFile(p) \/ WriteKeyFile(p)
  PROVE  KeyInv'
<1>1. /\ Minting(p) /\ AttesterTyped(attester[p])
      /\ UNCHANGED <<attests, envelopes, twoFirst>>
  BY DEF CreateKeyFile, WriteKeyFile, Minting, KeyInv
<1>2. ~twoFirst => /\ \A q \in Attester \ {p} : ~Minting(q)
                   /\ ~StoreKey(keyFile)
  BY <1>1 DEF KeyInv, OneMinter, Minting, StoreKey, NoSeed, CutShort, ElsewhereKey
<1>3. CASE CreateKeyFile(p)
  <2>1. PICK b : b = [attester[p] EXCEPT !.stage = "write"]
    OBVIOUS
  <2>2. attester' = [attester EXCEPT ![p] = b] /\ keyFile' = CutShort
    BY <1>3, <2>1 DEF CreateKeyFile, KeyInv
  <2>3. AttesterTyped(b)' /\ b.stage = "write"
    BY <1>1, <1>3, <2>1 DEF CreateKeyFile, AttesterTyped, AttesterFields
  <2>4. QED
    BY <1>1, <1>2, <2>2, <2>3, AttesterMoves DEF KeyInv
<1>4. CASE WriteKeyFile(p)
  <2>1. PICK b : b = [attester[p] EXCEPT !.stage = "sign"]
    OBVIOUS
  <2>2. attester' = [attester EXCEPT ![p] = b] /\ keyFile' = attester[p].key
    BY <1>4, <2>1 DEF WriteKeyFile, KeyInv
  <2>3. StoreKey(attester[p].key) /\ attester[p].by = "store"
    BY <1>1, <1>4 DEF WriteKeyFile, AttesterTyped
  <2>4. DOMAIN b = AttesterFields /\ b.stage = "sign" /\ b.key = keyFile' /\ b.by = "store"
    BY <1>1, <2>1, <2>2, <2>3 DEF AttesterTyped, AttesterFields
  <2>5. AttesterTyped(b)'
    BY <2>2, <2>3, <2>4 DEF AttesterTyped, TheStoreKey
  <2>6. QED
    BY <1>1, <1>2, <2>2, <2>3, <2>4, <2>5, AttesterMoves DEF KeyInv
<1>5. QED
  BY <1>3, <1>4

\* What is signed for the store is signed with the key of the file.
LEMMA SignStep ==
  ASSUME KeyInv, NEW p \in Attester, Sign(p)
  PROVE  KeyInv'
<1>1. PICK e : /\ e = Envelope(attester[p].statement, attester[p].key, attester[p].by)
               /\ envelopes' = envelopes \cup {e}
  BY DEF Sign
<1>2. /\ attester' = [attester EXCEPT ![p] = AttesterIdle] /\ attester[p].stage = "sign"
      /\ UNCHANGED <<keyFile, attests, twoFirst>>
  BY DEF Sign
<1>3. EnvelopeTrue(e)
  BY <1>1, <1>2 DEF KeyInv, AttesterTyped, Envelope, EnvelopeTrue
<1>4. EnvelopeTrue(e)'
  BY <1>2, <1>3, Stays
<1>5. PICK b : b = AttesterIdle
  OBVIOUS
<1>6. AttesterTyped(b)' /\ b.stage = "idle"
  BY <1>5 DEF AttesterIdle, AttesterTyped, AttesterFields
<1>7. QED
  BY <1>1, <1>2, <1>4, <1>5, <1>6, AttesterMoves DEF KeyInv

\* An envelope on its way is altered or forged with no key of the store.
LEMMA CirculateStep ==
  ASSUME KeyInv, Circulate
  PROVE  KeyInv'
<1>1. UNCHANGED <<keyFile, attester, attests, twoFirst>>
  BY DEF Circulate
<1>2. PICK e \in envelopes :
        /\ e.by # "altered"
        /\ \/ envelopes' = envelopes \cup {Envelope(e.statement, ElsewhereKey, "elsewhere")}
           \/ \E o \in envelopes :
                /\ o.statement # e.statement
                /\ envelopes' = envelopes \cup
                     {[e EXCEPT !.statement = o.statement, !.by = "altered"]}
  BY DEF Circulate
<1>3. \A c \in envelopes' : EnvelopeTrue(c)
  <2>1. CASE envelopes' = envelopes \cup {Envelope(e.statement, ElsewhereKey, "elsewhere")}
    BY <2>1 DEF KeyInv, Envelope, EnvelopeTrue
  <2>2. ASSUME NEW o \in envelopes, o.statement # e.statement,
               envelopes' = envelopes \cup
                 {[e EXCEPT !.statement = o.statement, !.by = "altered"]}
        PROVE  \A c \in envelopes' : EnvelopeTrue(c)
    <3>1. EnvelopeTrue(e) /\ e.signature = <<e.publicKey, e.statement>>
      BY <1>2 DEF KeyInv, EnvelopeTrue
    <3>2. PICK c : c = [e EXCEPT !.statement = o.statement, !.by = "altered"]
      OBVIOUS
    <3>3. EnvelopeTrue(c)
      BY <2>2, <3>1, <3>2 DEF EnvelopeTrue
    <3>4. QED
      BY <2>2, <3>2, <3>3 DEF KeyInv
  <2>3. QED
    BY <1>2, <2>1, <2>2
<1>4. (\A c \in envelopes : EnvelopeTrue(c))'
  BY <1>1, <1>3, Stays
<1>5. (\A p \in Attester : AttesterTyped(attester[p]))'
  BY <1>1, Stays DEF KeyInv
<1>6. QED
  BY <1>1, <1>4, <1>5 DEF KeyInv, OneMinter, Minting

\* Every step keeps one key for the store.
LEMMA KeyInductive == KeyInv /\ [ProvenanceNext]_provenanceVars => KeyInv'
<1> SUFFICES ASSUME KeyInv, [ProvenanceNext]_provenanceVars PROVE KeyInv'
  OBVIOUS
<1>1. CASE UNCHANGED <<keyFile, attester, attests, envelopes, twoFirst>>
  <2>1. (\A p \in Attester : AttesterTyped(attester[p]))'
        /\ (\A e \in envelopes : EnvelopeTrue(e))'
    BY <1>1, Stays DEF KeyInv
  <2>2. QED
    BY <1>1, <2>1 DEF KeyInv, OneMinter, Minting
<1>2. ASSUME NEW p \in Attester,
             \/ StartAttest(p) \/ LoadSigner(p) \/ CreateKeyFile(p) \/ WriteKeyFile(p)
             \/ Sign(p) \/ KillAttester(p)
      PROVE  KeyInv'
  BY <1>2, StartsOrEnds, LoadStep, MintStep, SignStep
<1>3. CASE Circulate
  BY <1>3, CirculateStep
<1>4. CASE \/ \E c \in Commit : RecordCommit(c)
           \/ \E s \in Agent : RecordTurn(s) \/ Reconcile(s)
           \/ Attribute \/ Compliance
           \/ UNCHANGED provenanceVars
  BY <1>1, <1>4 DEF RecordCommit, RecordTurn, Reconcile, Attribute, Compliance, provenanceVars
<1>5. QED
  BY <1>2, <1>3, <1>4 DEF ProvenanceNext

\* Unless two processes minted the first key at once, the key in the store verifies all
\* the attestations it ever made and no other; the key in an envelope verifies all that
\* were not altered.
THEOREM OursVerify == ProvenanceSpec => []TrustedIsOurs
<1>1. KeyInv => TrustedIsOurs
  <2> SUFFICES ASSUME KeyInv, NEW e \in envelopes
               PROVE  /\ ~twoFirst => (Verifies(e, {keyFile}) <=> e.by = "store")
                      /\ Verifies(e, {}) <=> e.by # "altered"
    BY DEF TrustedIsOurs
  <2>1. EnvelopeTrue(e)
    BY DEF KeyInv
  <2>2. /\ Verifies(e, {keyFile}) <=> e.signature = <<keyFile, e.statement>>
        /\ Verifies(e, {}) <=> e.signature = <<e.publicKey, e.statement>>
    BY DEF Verifies, KeyToVerify
  <2>3. Verifies(e, {}) <=> e.by # "altered"
    BY <2>1, <2>2 DEF EnvelopeTrue
  <2>4. ~twoFirst => (Verifies(e, {keyFile}) <=> e.by = "store")
    <3>1. keyFile # EnvKey /\ keyFile # ElsewhereKey
      BY DEF KeyInv, StoreKey, NoSeed, CutShort, EnvKey, ElsewhereKey
    <3>2. QED
      BY <2>1, <2>2, <3>1 DEF EnvelopeTrue, TheStoreKey
  <2>5. QED
    BY <2>3, <2>4
<1>2. QED
  BY <1>1, KeyInitially, KeyInductive, PTL DEF ProvenanceSpec

-----------------------------------------------------------------------------
(***************************************************************************)
(* Accounts.  What they are made of only grows, so what was signed of a    *)
(* commit is still told.                                                   *)
(***************************************************************************)
Parts == {"reads", "secrets", "undeclared", "phantom"}

\* A statement of a commit on record, of which today's account tells as much.
Standing(st) ==
  /\ st.commit \in DOMAIN reviewed
  /\ \A s \in DOMAIN st.agents : DOMAIN st.agents[s] = Parts
  /\ Holds(BuildProvenance(st.commit), st)

DiffsKept ==
  /\ DOMAIN diffs \subseteq DOMAIN DiffBy
  /\ \A v \in DOMAIN diffs : diffs[v] = DiffBy[v]

AttributionKept ==
  \A x \in DOMAIN attribution.files :
    /\ <<attribution.commit, x>> \in DOMAIN DiffBy
    /\ attribution.files[x] = ParseHunks(DiffBy[<<attribution.commit, x>>])

\* What was, or is about to be, signed for the store.
Statements ==
  {attester[p].statement : p \in {q \in Attester : attester[q].stage # "idle"}}
    \cup {e.statement : e \in {f \in envelopes : f.by \in {"store", "env"}}}

EnvelopeFields == {"statement", "publicKey", "signature", "by"}

AccountsInv ==
  /\ DOMAIN records = Agent /\ DOMAIN attester = Attester
  /\ DiffsKept /\ AttributionKept
  /\ \A e \in envelopes : DOMAIN e = EnvelopeFields
  /\ \A st \in Statements : Standing(st)
  /\ blocked => TotalSecretReads # {}

\* What a step may do to what accounts are made of.
GraphGrows ==
  /\ DOMAIN reviewed \subseteq DOMAIN reviewed'
  /\ \A c \in DOMAIN reviewed : reviewed'[c] = reviewed[c]
  /\ DOMAIN behind \subseteq DOMAIN behind'
  /\ \A k \in DOMAIN behind : behind'[k] = behind[k]
  /\ \A s \in Agent : records[s] \subseteq records'[s]

\* What an account of a commit consists of, and of an agent behind it.
LEMMA AccountOf ==
  ASSUME NEW c
  PROVE  /\ BuildProvenance(c).reviewed = reviewed[c]
         /\ BuildProvenance(c).commit = c
         /\ DOMAIN BuildProvenance(c).agents = AgentsBehind(c)
         /\ \A s \in AgentsBehind(c) : BuildProvenance(c).agents[s] = AgentAccount(s)
BY DEF BuildProvenance

\* An account of an agent is, part by part, the union over its turns.
LEMMA AccountParts ==
  ASSUME NEW s
  PROVE  /\ DOMAIN AgentAccount(s) = Parts
         /\ AgentAccount(s)["reads"] = UNION {t.reads : t \in records[s]}
         /\ AgentAccount(s)["secrets"] = UNION {t.secrets : t \in records[s]}
         /\ AgentAccount(s)["undeclared"] = UNION {t.undeclared : t \in records[s]}
         /\ AgentAccount(s)["phantom"] = UNION {t.phantom : t \in records[s]}
BY DEF AgentAccount, Parts

\* As the graph grows an account loses nothing.
LEMMA AccountGrows ==
  ASSUME GraphGrows
  PROVE  /\ \A c : AgentsBehind(c) \subseteq AgentsBehind(c)'
         /\ \A s \in Agent : \A part \in Parts : AgentAccount(s)[part] \subseteq AgentAccount(s)'[part]
<1>1. ASSUME NEW c, NEW s \in AgentsBehind(c) PROVE s \in AgentsBehind(c)'
  BY <1>1 DEF AgentsBehind, GraphGrows
<1>2. ASSUME NEW s \in Agent, NEW part \in Parts
      PROVE  AgentAccount(s)[part] \subseteq AgentAccount(s)'[part]
  <2>1. records[s] \subseteq records'[s]
    BY DEF GraphGrows
  <2>2. /\ AgentAccount(s)'["reads"] = UNION {t.reads : t \in records'[s]}
        /\ AgentAccount(s)'["secrets"] = UNION {t.secrets : t \in records'[s]}
        /\ AgentAccount(s)'["undeclared"] = UNION {t.undeclared : t \in records'[s]}
        /\ AgentAccount(s)'["phantom"] = UNION {t.phantom : t \in records'[s]}
    BY DEF AgentAccount
  <2>3. CASE part = "reads"
    BY <2>1, <2>2, <2>3, AccountParts
  <2>4. CASE part = "secrets"
    BY <2>1, <2>2, <2>4, AccountParts
  <2>5. CASE part = "undeclared"
    BY <2>1, <2>2, <2>5, AccountParts
  <2>6. CASE part = "phantom"
    BY <2>1, <2>2, <2>6, AccountParts
  <2>7. QED
    BY <2>3, <2>4, <2>5, <2>6 DEF Parts
<1>3. QED
  BY <1>1, <1>2

\* What an account tells, it tells of every larger graph.
LEMMA StandingGrows ==
  ASSUME GraphGrows, NEW st, Standing(st)
  PROVE  Standing(st)'
<1>1. PICK c : c = st.commit
  OBVIOUS
<1>2. c \in DOMAIN reviewed /\ c \in DOMAIN reviewed' /\ reviewed'[c] = reviewed[c]
  BY <1>1 DEF Standing, GraphGrows
<1>3. /\ reviewed[c] = st.reviewed
      /\ DOMAIN st.agents \subseteq AgentsBehind(c)
      /\ \A s \in DOMAIN st.agents : /\ DOMAIN st.agents[s] = Parts
                                     /\ \A part \in Parts :
                                          st.agents[s][part] \subseteq AgentAccount(s)[part]
  BY <1>1, AccountOf DEF Standing, Holds
<1>4. AgentsBehind(c) \subseteq AgentsBehind(c)' /\ AgentsBehind(c) \subseteq Agent
  BY AccountGrows DEF AgentsBehind
<1>5. /\ BuildProvenance(c)'.reviewed = reviewed'[c]
      /\ DOMAIN BuildProvenance(c)'.agents = AgentsBehind(c)'
      /\ \A s \in AgentsBehind(c)' : BuildProvenance(c)'.agents[s] = AgentAccount(s)'
  BY DEF BuildProvenance
<1>6. \A s \in DOMAIN st.agents : \A part \in Parts :
        st.agents[s][part] \subseteq BuildProvenance(c)'.agents[s][part]
  <2>1. ASSUME NEW s \in DOMAIN st.agents, NEW part \in Parts
        PROVE  st.agents[s][part] \subseteq BuildProvenance(c)'.agents[s][part]
    <3>1. s \in Agent /\ s \in AgentsBehind(c)'
      BY <1>3, <1>4
    <3>2. st.agents[s][part] \subseteq AgentAccount(s)[part]
      BY <1>3
    <3>3. AgentAccount(s)[part] \subseteq AgentAccount(s)'[part]
      BY <3>1, AccountGrows
    <3>4. QED
      BY <1>5, <3>1, <3>2, <3>3
  <2>2. QED
    BY <2>1
<1>7. Holds(BuildProvenance(c)', st)
  BY <1>2, <1>3, <1>4, <1>5, <1>6 DEF Holds
<1>8. QED
  BY <1>1, <1>2, <1>3, <1>7 DEF Standing

\* A secret that was counted is counted again.
LEMMA SecretsGrow ==
  ASSUME GraphGrows, TotalSecretReads # {}
  PROVE  TotalSecretReads' # {}
<1>1. PICK c \in DOMAIN reviewed : SecretReads(c) # {}
  BY DEF TotalSecretReads
<1>2. PICK s \in AgentsBehind(c) : AgentAccount(s).secrets # {}
  BY <1>1 DEF SecretReads
<1>3. s \in Agent /\ "secrets" \in Parts
  BY DEF AgentsBehind, Parts
<1>4. AgentAccount(s)["secrets"] \subseteq AgentAccount(s)'["secrets"] /\ s \in AgentsBehind(c)'
  BY <1>2, <1>3, AccountGrows
<1>5. AgentAccount(s)'.secrets # {}
  BY <1>2, <1>4
<1>6. SecretReads(c)' # {}
  BY <1>4, <1>5 DEF SecretReads
<1>7. c \in DOMAIN reviewed'
  BY DEF GraphGrows
<1>8. QED
  BY <1>6, <1>7 DEF TotalSecretReads

\* An account stands when it is given.
LEMMA AccountStands ==
  ASSUME NEW c \in DOMAIN reviewed
  PROVE  Standing(BuildProvenance(c))
<1>1. PICK st : st = BuildProvenance(c)
  OBVIOUS
<1>2. /\ st.commit = c /\ st.reviewed = reviewed[c] /\ DOMAIN st.agents = AgentsBehind(c)
      /\ \A s \in AgentsBehind(c) : st.agents[s] = AgentAccount(s)
  BY <1>1, AccountOf
<1>3. \A s \in DOMAIN st.agents : DOMAIN st.agents[s] = Parts
  BY <1>2, AccountParts
<1>4. Holds(st, st)
  BY DEF Holds
<1>5. QED
  BY <1>1, <1>2, <1>3, <1>4 DEF Standing

\* Nothing is signed at the start.
LEMMA AccountsInitially == ProvenanceInit => AccountsInv
BY DEF ProvenanceInit, AttesterIdle, NoAttribution, EmptyTable, AccountsInv, DiffsKept,
       AttributionKept, Statements

\* The graph of commits and sessions grows and nothing else changes.
LEMMA RecordStep ==
  ASSUME AccountsInv, GraphGrows, DOMAIN records' = Agent, DiffsKept',
         UNCHANGED <<attester, envelopes, attribution, blocked>>
  PROVE  AccountsInv'
<1>1. \A st : Standing(st) => Standing(st)'
  BY StandingGrows
<1>2. Statements' = Statements
  BY DEF Statements
<1>3. \A st \in Statements' : Standing(st)'
  BY <1>1, <1>2 DEF AccountsInv
<1>4. AttributionKept'
  BY DEF AccountsInv, AttributionKept, ParseHunks
<1>5. QED
  BY <1>3, <1>4, SecretsGrow DEF AccountsInv

\* No record is made; what is to be signed was, or is of a commit on record.
LEMMA AttestStep ==
  ASSUME AccountsInv, UNCHANGED <<graphOfCommits, attribution, blocked>>,
         DOMAIN attester' = Attester, \A e \in envelopes' : DOMAIN e = EnvelopeFields,
         \A st \in Statements' : st \in Statements \/ Standing(st)
  PROVE  AccountsInv'
<1>1. /\ UNCHANGED <<reviewed, diffs, behind, records>>
      /\ DiffsKept' /\ AttributionKept' /\ GraphGrows
  BY DEF graphOfCommits, AccountsInv, DiffsKept, AttributionKept, ParseHunks, GraphGrows
<1>2. \A st : Standing(st) => Standing(st)'
  BY <1>1, StandingGrows
<1>3. QED
  BY <1>1, <1>2, SecretsGrow DEF AccountsInv

\* The invariant under what an attester does, and under a new envelope.
LEMMA AttesterStep ==
  ASSUME AccountsInv, NEW p \in Attester, NEW a, attester' = [attester EXCEPT ![p] = a],
         UNCHANGED <<graphOfCommits, attribution, blocked, envelopes>>,
         \/ a.stage = "idle" \/ Standing(a.statement)
         \/ a.statement = attester[p].statement /\ attester[p].stage # "idle"
  PROVE  AccountsInv'
<1>1. DOMAIN attester' = Attester /\ attester'[p] = a
      /\ \A q \in Attester \ {p} : attester'[q] = attester[q]
  BY DEF AccountsInv
<1>2. ASSUME NEW st \in Statements' PROVE st \in Statements \/ Standing(st)
  <2>1. CASE \E e \in envelopes : e.by \in {"store", "env"} /\ st = e.statement
    BY <2>1 DEF Statements
  <2>2. CASE \E q \in Attester : attester'[q].stage # "idle" /\ st = attester'[q].statement
    BY <1>1, <2>2 DEF Statements
  <2>3. QED
    BY <1>2, <2>1, <2>2 DEF Statements
<1>3. QED
  BY <1>1, <1>2, AttestStep DEF AccountsInv

\* An envelope more keeps the invariant, if what it says for the store is a statement made.
LEMMA EnvelopeStep ==
  ASSUME AccountsInv, NEW e, envelopes' = envelopes \cup {e}, DOMAIN e = EnvelopeFields,
         DOMAIN attester' = Attester,
         \A q \in Attester : attester'[q].stage = "idle" \/ attester'[q] = attester[q],
         UNCHANGED <<graphOfCommits, attribution, blocked>>,
         e.by \in {"store", "env"} => e.statement \in Statements
  PROVE  AccountsInv'
<1>1. ASSUME NEW st \in Statements' PROVE st \in Statements
  <2>1. CASE \E q \in Attester : attester'[q].stage # "idle" /\ st = attester'[q].statement
    BY <2>1 DEF Statements
  <2>2. CASE \E f \in envelopes' : f.by \in {"store", "env"} /\ st = f.statement
    BY <2>2 DEF Statements
  <2>3. QED
    BY <1>1, <2>1, <2>2 DEF Statements
<1>2. QED
  BY <1>1, AttestStep DEF AccountsInv

\* The invariant, action by action.
LEMMA AccountsInductive ==
  KeyInv /\ AccountsInv /\ [ProvenanceNext]_provenanceVars => AccountsInv'
<1> SUFFICES ASSUME KeyInv, AccountsInv, [ProvenanceNext]_provenanceVars PROVE AccountsInv'
  OBVIOUS
<1>1. CASE UNCHANGED provenanceVars
  <2>1. Statements' = Statements
    BY <1>1 DEF provenanceVars, Statements
  <2>2. QED
    BY <1>1, <2>1, AttestStep DEF provenanceVars, AccountsInv, graphOfCommits
<1>2. ASSUME NEW c \in Commit, RecordCommit(c) PROVE AccountsInv'
  <2>1. /\ c \notin DOMAIN reviewed /\ reviewed' = InsertOrReplace(reviewed, c, Reviewed(c))
        /\ diffs' = [v \in DOMAIN diffs \cup {w \in DOMAIN DiffBy : w[1] = c} |-> DiffBy[v]]
        /\ UNCHANGED <<behind, records, attester, envelopes, attribution, blocked>>
    BY <1>2 DEF RecordCommit
  <2>2. GraphGrows
    BY <2>1 DEF GraphGrows, InsertOrReplace
  <2>3. DiffsKept'
    BY <2>1 DEF AccountsInv, DiffsKept
  <2>4. QED
    BY <2>1, <2>2, <2>3, RecordStep DEF AccountsInv
<1>3. ASSUME NEW s \in Agent, RecordTurn(s) PROVE AccountsInv'
  <2>1. PICK t \in TurnData : records' = [records EXCEPT ![s] = @ \cup {t}]
    BY <1>3 DEF RecordTurn
  <2>2. UNCHANGED <<reviewed, diffs, behind, attester, envelopes, attribution, blocked>>
    BY <1>3 DEF RecordTurn
  <2>3. GraphGrows /\ DOMAIN records' = Agent
    BY <2>1, <2>2 DEF GraphGrows, AccountsInv
  <2>4. DiffsKept'
    BY <2>2 DEF AccountsInv, DiffsKept
  <2>5. QED
    BY <2>2, <2>3, <2>4, RecordStep
<1>4. ASSUME NEW s \in Agent, Reconcile(s) PROVE AccountsInv'
  <2>1. PICK v \in DOMAIN diffs : behind' = InsertOrIgnore(behind, <<s, v[2]>>, v)
    BY <1>4 DEF Reconcile, LinkAgent
  <2>2. UNCHANGED <<reviewed, diffs, records, attester, envelopes, attribution, blocked>>
    BY <1>4 DEF Reconcile
  <2>3. GraphGrows
    BY <2>1, <2>2 DEF GraphGrows, InsertOrIgnore
  <2>4. DiffsKept' /\ DOMAIN records' = Agent
    BY <2>2 DEF AccountsInv, DiffsKept
  <2>5. QED
    BY <2>2, <2>3, <2>4, RecordStep
<1>5. CASE Attribute
  <2>1. PICK q \in Queried : \E c \in FindCommit(q) :
          attribution' =
            [commit |-> c, files |-> [x \in FilesOfCommit(c) |-> ParseHunks(DiffOf(<<c, x>>))]]
    BY <1>5 DEF Attribute
  <2>2. PICK c : attribution' =
            [commit |-> c, files |-> [x \in FilesOfCommit(c) |-> ParseHunks(DiffOf(<<c, x>>))]]
    BY <2>1
  <2>3. UNCHANGED <<graphOfCommits, attester, envelopes, blocked>>
    BY <1>5 DEF Attribute
  <2>4. AttributionKept'
    <3>1. SUFFICES ASSUME NEW x \in FilesOfCommit(c)
                   PROVE  /\ <<c, x>> \in DOMAIN DiffBy
                          /\ ParseHunks(DiffOf(<<c, x>>)) = ParseHunks(DiffBy[<<c, x>>])
      BY <2>2 DEF AttributionKept, ParseHunks
    <3>2. <<c, x>> \in DOMAIN diffs
      BY DEF FilesOfCommit
    <3>3. QED
      BY <3>2 DEF DiffOf, AccountsInv, DiffsKept
  <2>5. UNCHANGED <<reviewed, diffs, behind, records>>
    BY <2>3 DEF graphOfCommits
  <2>6. Statements' = Statements /\ GraphGrows
    BY <2>3, <2>5 DEF Statements, GraphGrows
  <2>7. \A st : Standing(st) => Standing(st)'
    BY <2>6, StandingGrows
  <2>8. DiffsKept' /\ DOMAIN records' = Agent /\ DOMAIN attester' = Attester
    BY <2>3, <2>5 DEF AccountsInv, DiffsKept
  <2>9. QED
    BY <2>3, <2>4, <2>6, <2>7, <2>8, SecretsGrow DEF AccountsInv
<1>6. CASE Compliance
  <2>1. /\ TotalSecretReads # {} /\ UNCHANGED <<graphOfCommits, attester, envelopes, attribution>>
    BY <1>6 DEF Compliance
  <2>2. UNCHANGED <<reviewed, diffs, behind, records>>
    BY <2>1 DEF graphOfCommits
  <2>3. Statements' = Statements /\ TotalSecretReads' = TotalSecretReads
    BY <2>1, <2>2 DEF Statements, TotalSecretReads, SecretReads, AgentsBehind, AgentAccount
  <2>4. \A st : Standing(st) => Standing(st)'
    BY <2>2, StandingGrows DEF GraphGrows
  <2>5. /\ DiffsKept' /\ AttributionKept' /\ DOMAIN records' = Agent
        /\ DOMAIN attester' = Attester
    BY <2>1, <2>2 DEF AccountsInv, DiffsKept, AttributionKept, ParseHunks
  <2>6. QED
    BY <2>1, <2>3, <2>4, <2>5 DEF AccountsInv
<1>7. CASE Circulate
  <2>1. PICK e : /\ envelopes' = envelopes \cup {e} /\ e.by \notin {"store", "env"}
                 /\ DOMAIN e = EnvelopeFields
    <3>1. PICK f \in envelopes :
            \/ envelopes' = envelopes \cup {Envelope(f.statement, ElsewhereKey, "elsewhere")}
            \/ \E o \in envelopes :
                 envelopes' = envelopes \cup {[f EXCEPT !.statement = o.statement, !.by = "altered"]}
      BY <1>7 DEF Circulate
    <3>2. /\ Envelope(f.statement, ElsewhereKey, "elsewhere").by = "elsewhere"
          /\ DOMAIN Envelope(f.statement, ElsewhereKey, "elsewhere") = EnvelopeFields
      BY DEF Envelope, EnvelopeFields
    <3>3. ASSUME NEW o, NEW g, g = [f EXCEPT !.statement = o.statement, !.by = "altered"]
          PROVE  g.by = "altered" /\ DOMAIN g = EnvelopeFields
      <4>1. DOMAIN f = EnvelopeFields
        BY DEF AccountsInv
      <4>2. QED
        BY <3>3, <4>1 DEF EnvelopeFields
    <3>4. QED
      BY <3>1, <3>2, <3>3
  <2>2. UNCHANGED <<graphOfCommits, attester, attribution, blocked>>
    BY <1>7 DEF Circulate
  <2>3. QED
    BY <2>1, <2>2, EnvelopeStep DEF AccountsInv
<1>8. ASSUME NEW p \in Attester, StartAttest(p) PROVE AccountsInv'
  <2>1. PICK c, a : /\ c \in DOMAIN reviewed /\ a.statement = BuildProvenance(c)
                    /\ attester' = [attester EXCEPT ![p] = a]
    <3>1. PICK q \in Queried, c \in DOMAIN reviewed :
            \E env \in BOOLEAN : attester' =
              [attester EXCEPT ![p] =
                 [stage |-> IF env THEN "sign" ELSE "load", statement |-> BuildProvenance(c),
                  key |-> IF env THEN EnvKey ELSE KeyOf(attests'),
                  by |-> IF env THEN "env" ELSE "store"]]
      BY <1>8 DEF StartAttest, FindCommit
    <3>2. PICK a : /\ attester' = [attester EXCEPT ![p] = a]
                   /\ \E env \in BOOLEAN : a =
                       [stage |-> IF env THEN "sign" ELSE "load", statement |-> BuildProvenance(c),
                        key |-> IF env THEN EnvKey ELSE KeyOf(attests'),
                        by |-> IF env THEN "env" ELSE "store"]
      BY <3>1
    <3>3. a.statement = BuildProvenance(c)
      BY <3>2
    <3>4. QED
      BY <3>2, <3>3
  <2>2. UNCHANGED <<graphOfCommits, envelopes, attribution, blocked>>
    BY <1>8 DEF StartAttest
  <2>3. Standing(a.statement)
    BY <2>1, AccountStands
  <2>4. QED
    BY <2>1, <2>2, <2>3, AttesterStep
<1>9. ASSUME NEW p \in Attester,
             LoadSigner(p) \/ CreateKeyFile(p) \/ WriteKeyFile(p) \/ KillAttester(p)
      PROVE  AccountsInv'
  <2>1. UNCHANGED <<graphOfCommits, envelopes, attribution, blocked>>
    BY <1>9 DEF LoadSigner, CreateKeyFile, WriteKeyFile, KillAttester
  <2>2. attester[p].stage # "idle"
    BY <1>9 DEF LoadSigner, CreateKeyFile, WriteKeyFile, KillAttester
  <2>3. DOMAIN attester[p] = AttesterFields
    BY DEF KeyInv, AttesterTyped
  <2>4. PICK a : /\ attester' = [attester EXCEPT ![p] = a]
                 /\ a.stage = "idle" \/ a.statement = attester[p].statement
    <3>1. CASE \E stage : attester' = [attester EXCEPT ![p].stage = stage]
      <4>1. PICK stage : attester' = [attester EXCEPT ![p].stage = stage]
        BY <3>1
      <4>2. attester' = [attester EXCEPT ![p] = [attester[p] EXCEPT !.stage = stage]]
        BY <4>1
      <4>3. [attester[p] EXCEPT !.stage = stage].statement = attester[p].statement
        BY <2>3 DEF AttesterFields
      <4>4. QED
        BY <4>2, <4>3
    <3>2. CASE attester' = [attester EXCEPT ![p] = AttesterIdle]
      <4>1. AttesterIdle.stage = "idle"
        BY DEF AttesterIdle
      <4>2. QED
        BY <3>2, <4>1
    <3>3. CASE attester' = [attester EXCEPT ![p].stage = "sign", ![p].key = keyFile]
      <4>1. attester' =
              [attester EXCEPT ![p] = [attester[p] EXCEPT !.stage = "sign", !.key = keyFile]]
        BY <3>3 DEF AccountsInv
      <4>2. [attester[p] EXCEPT !.stage = "sign", !.key = keyFile].statement
              = attester[p].statement
        BY <2>3 DEF AttesterFields
      <4>3. QED
        BY <4>1, <4>2
    <3>4. QED
      BY <1>9, <3>1, <3>2, <3>3 DEF LoadSigner, CreateKeyFile, WriteKeyFile, KillAttester
  <2>5. QED
    BY <2>1, <2>2, <2>4, AttesterStep
<1>10. ASSUME NEW p \in Attester, Sign(p) PROVE AccountsInv'
  <2>1. PICK e : e = Envelope(attester[p].statement, attester[p].key, attester[p].by)
    OBVIOUS
  <2>2. /\ envelopes' = envelopes \cup {e} /\ attester[p].stage = "sign"
        /\ attester' = [attester EXCEPT ![p] = AttesterIdle]
        /\ UNCHANGED <<graphOfCommits, attribution, blocked>>
    BY <1>10, <2>1 DEF Sign
  <2>3. e.statement \in Statements /\ DOMAIN e = EnvelopeFields
    BY <2>1, <2>2 DEF Envelope, EnvelopeFields, Statements
  <2>4. DOMAIN attester' = Attester
        /\ \A q \in Attester : attester'[q].stage = "idle" \/ attester'[q] = attester[q]
    BY <2>2 DEF AccountsInv, AttesterIdle
  <2>5. QED
    BY <2>2, <2>3, <2>4, EnvelopeStep
<1>11. QED
  BY <1>1, <1>2, <1>3, <1>4, <1>5, <1>6, <1>7, <1>8, <1>9, <1>10 DEF ProvenanceNext

\* The lines of hunks that hold a line are those of all hunks.
LEMMA LinesOfHunks ==
  ASSUME NEW diff, diff \subseteq [start : Nat, count : Nat]
  PROVE  /\ \A h \in ParseHunks(diff) : h.start <= h.end
         /\ UNION {h.start..h.end : h \in ParseHunks(diff)} =
              UNION {{h.start + k - 1 : k \in 1..h.count} : h \in diff}
<1>1. \A h \in ParseHunks(diff) : \E g \in diff :
        g.count # 0 /\ h.start = g.start /\ h.end = g.start + g.count - 1
  BY DEF ParseHunks
<1>2. \A g \in diff : g.start \in Nat /\ g.count \in Nat
  OBVIOUS
<1>3. \A h \in ParseHunks(diff) : h.start <= h.end
  BY <1>1, <1>2
<1>4. ASSUME NEW h \in ParseHunks(diff), NEW l \in h.start..h.end
      PROVE  l \in UNION {{g.start + k - 1 : k \in 1..g.count} : g \in diff}
  <2>1. PICK g \in diff : h.start = g.start /\ h.end = g.start + g.count - 1
    BY <1>1
  <2>2. g.start \in Nat /\ g.count \in Nat
    BY <1>2
  <2>3. l \in Int /\ g.start <= l /\ l <= g.start + g.count - 1
    BY <1>4, <2>1, <2>2
  <2>4. l - g.start + 1 \in 1..g.count /\ l = g.start + (l - g.start + 1) - 1
    BY <2>2, <2>3
  <2>5. QED
    BY <2>4
<1>5. ASSUME NEW g \in diff, NEW k \in 1..g.count
      PROVE  g.start + k - 1 \in UNION {h.start..h.end : h \in ParseHunks(diff)}
  <2>1. PICK h : h = [start |-> g.start, end |-> g.start + g.count - 1]
    OBVIOUS
  <2>2. g.start \in Nat /\ g.count \in Nat /\ g.count # 0
    BY <1>2
  <2>3. h \in ParseHunks(diff)
    BY <2>1, <2>2 DEF ParseHunks
  <2>4. g.start + k - 1 \in h.start..h.end
    BY <2>1, <2>2
  <2>5. QED
    BY <2>3, <2>4
<1>6. QED
  BY <1>3, <1>4, <1>5

\* What is signed of a commit, the failure of the gate of compliance, and the lines of
\* an attribution stand, whatever is ingested, observed and linked afterwards.
THEOREM AccountsDoStand == ProvenanceSpec => []AccountsStand
<1>1. AccountsInv => AccountsStand
  <2>1. SUFFICES ASSUME AccountsInv PROVE AccountsStand
    OBVIOUS
  <2>2. \A e \in {f \in envelopes : f.by \in {"store", "env"}} :
          Holds(BuildProvenance(e.statement.commit), e.statement)
    BY <2>1 DEF AccountsInv, Statements, Standing
  <2>3. LinesOfTheCommit
    <3>1. SUFFICES ASSUME NEW x \in DOMAIN attribution.files, NEW diff,
                          diff = DiffBy[<<attribution.commit, x>>]
                   PROVE  /\ \A h \in attribution.files[x] : h.start <= h.end
                          /\ UNION {h.start..h.end : h \in attribution.files[x]} =
                               UNION {{h.start + k - 1 : k \in 1..h.count} : h \in diff}
      BY DEF LinesOfTheCommit
    <3>2. attribution.files[x] = ParseHunks(diff) /\ diff \subseteq [start : Nat, count : Nat]
      BY <2>1, <3>1, ProvenanceAssumption DEF AccountsInv, AttributionKept
    <3>3. QED
      BY <3>2, LinesOfHunks
  <2>4. QED
    BY <2>1, <2>2, <2>3 DEF AccountsInv, AccountsStand
<1>2. QED
  BY <1>1, KeyInitially, KeyInductive, AccountsInitially, AccountsInductive, PTL
     DEF ProvenanceSpec
-----------------------------------------------------------------------------
(***************************************************************************)
(* The verdict on a session.                                               *)
(***************************************************************************)
\* What is put in after the last is appended.
LEMMA InsertedLast ==
  ASSUME NEW s, IsSeq(s), NEW e
  PROVE  InsertAt(s, Len(s) + 1, e) = Append(s, e)
<1>1. PICK S : S = {s[i] : i \in DOMAIN s} \cup {e}
  OBVIOUS
<1>2. s \in Seq(S) /\ e \in S
  BY <1>1 DEF IsSeq
<1>3. SubSeq(s, 1, (Len(s) + 1) - 1) = s
  BY <1>2
<1>4. SubSeq(s, Len(s) + 1, Len(s)) = <<>>
  BY <1>2
<1>5. (s \o <<e>>) \o <<>> = Append(s, e)
  BY <1>2
<1>6. QED
  BY <1>3, <1>4, <1>5 DEF InsertAt

-----------------------------------------------------------------------------
(***************************************************************************)
(* Drift.                                                                  *)
(***************************************************************************)
\* What the first n commits changed from a time on until another.
ChangedAround(n, from, to) ==
  {x \in Artifact \X (1..n) : x[1] \in DOMAIN git[x[2]].names /\ Within(x[2], from, to)}

FirstAt == story[1].at
LastAt == story[Len(story)].at

CommitsTyped ==
  \A c \in 1..Len(git) :
    /\ git[c].at \in Nat
    /\ DOMAIN git[c].names \subseteq Artifact /\ DOMAIN git[c].names # {}

DriftTyped ==
  /\ IsSeq(git) /\ IsSeq(talk)
  /\ now \in Nat /\ ingested \in Nat /\ known \in Nat
  /\ known <= ingested /\ ingested <= Len(git)
  /\ heard \subseteq 1..Len(talk)
  /\ \A k \in 1..Len(talk) : talk[k].at \in Nat
  /\ CommitsTyped

\* The versions are the turns that were observed, in the order of time.
Told ==
  /\ IsSeq(story)
  /\ \A i, j \in 1..Len(story) : i < j => story[i].at < story[j].at
  /\ \A k \in heard : \E i \in 1..Len(story) :
       story[i].at = talk[k].at /\ story[i].declared = talk[k].declared
  /\ \A i \in 1..Len(story) : \E k \in heard :
       story[i].at = talk[k].at /\ story[i].declared = talk[k].declared

\* The last version holds the difference over the whole session, and while nothing
\* has changed around it, none holds one.
Compared ==
  story # <<>> =>
    LET actual == ChangedAround(known, FirstAt, LastAt)
        changed == {PathAt(x[1], known) : x \in actual}
        declared == (UNION {story[i].declared : i \in 1..Len(story)}) \ {Outside}
    IN  IF actual = {} THEN \A i \in 1..Len(story) : story[i].drift = NoDrift
        ELSE story[Len(story)].drift =
               <<[undeclared |-> changed \ declared, phantom |-> declared \ changed]>>

\* The links are to changes around the session, and there is one for each artifact.
Linked ==
  /\ story = <<>> => DOMAIN links = {}
  /\ \A a \in DOMAIN links : <<a, links[a]>> \in ChangedAround(known, FirstAt, LastAt)
  /\ story # <<>> => \A x \in ChangedAround(known, FirstAt, LastAt) : x[1] \in DOMAIN links

DriftInv == DriftTyped /\ (inOrder => Told /\ Compared /\ Linked)

\* Nothing is observed at the start.
LEMMA DriftBegins ==
  ASSUME DriftInit
  PROVE  DriftInv
<1>1. IsSeq(<<>>) /\ Len(<<>>) = 0
  BY DEF IsSeq
<1>2. DriftTyped
  BY <1>1 DEF DriftInit, DriftTyped, CommitsTyped
<1>3. Told
  BY <1>1 DEF DriftInit, Told
<1>4. Compared /\ Linked
  BY DEF DriftInit, Compared, Linked
<1>5. QED
  BY <1>2, <1>3, <1>4 DEF DriftInv

\* What the first commits say stays as further ones come.
LEMMA PastStays ==
  ASSUME DriftTyped, NEW n \in Nat, n <= Len(git),
         \A c \in 1..n : git'[c] = git[c]
  PROVE  /\ \A a : PathAt(a, n)' = PathAt(a, n)
         /\ \A from, to : ChangedAround(n, from, to)' = ChangedAround(n, from, to)
<1>1. ASSUME NEW a PROVE PathAt(a, n)' = PathAt(a, n)
  <2>1. {c \in 1..n : a \in DOMAIN git'[c].names} = {c \in 1..n : a \in DOMAIN git[c].names}
    OBVIOUS
  <2> DEFINE of == {c \in 1..n : a \in DOMAIN git[c].names}
             last == CHOOSE c \in of : \A d \in of : d <= c
  <2>2. CASE of = {}
    BY <2>1, <2>2 DEF PathAt
  <2>3. CASE of # {}
    <3>1. PathAt(a, n) = git[last].names[a] /\ PathAt(a, n)' = git'[last].names[a]
      BY <2>1, <2>3 DEF PathAt
    <3>2. \E c \in of : \A d \in of : d <= c
      <4>1. of \subseteq 0..n
        OBVIOUS
      <4> HIDE DEF of
      <4>2. QED
        BY <2>3, <4>1, GreatestOf
    <3>3. last \in 1..n
      BY <3>2
    <3>4. QED
      BY <3>1, <3>3
  <2>4. QED
    BY <2>2, <2>3
<1>2. ASSUME NEW from, NEW to
      PROVE  ChangedAround(n, from, to)' = ChangedAround(n, from, to)
  BY DEF ChangedAround, Within
<1>3. QED
  BY <1>1, <1>2

\* A step that leaves the session and the commits behind it alone.
LEMMA SessionStays ==
  ASSUME DriftInv, DriftTyped', \A c \in 1..known : git'[c] = git[c],
         UNCHANGED <<heard, story, links, known, inOrder>>,
         \A k \in heard : talk'[k] = talk[k]
  PROVE  DriftInv'
<1>1. known \in Nat /\ known <= Len(git) /\ DriftTyped
  <2>1. IsSeq(git)
    BY DEF DriftInv, DriftTyped
  <2>2. Len(git) \in Nat
    BY <2>1 DEF IsSeq
  <2>3. QED
    BY <2>2 DEF DriftInv, DriftTyped
<1>2. /\ \A a : PathAt(a, known)' = PathAt(a, known)
      /\ \A from, to : ChangedAround(known, from, to)' = ChangedAround(known, from, to)
  BY <1>1, PastStays
<1>3. SUFFICES ASSUME inOrder PROVE Told' /\ Compared' /\ Linked'
  BY DEF DriftInv
<1>4. Told /\ Compared /\ Linked
  BY <1>3 DEF DriftInv
<1>5. Told'
  BY <1>4, SMTT(30) DEF Told
<1>6. Linked'
  BY <1>2, <1>4 DEF Linked, FirstAt, LastAt
<1>7. Compared'
  <2>1. ChangedAround(known, FirstAt, LastAt)' = ChangedAround(known, FirstAt, LastAt)
    BY <1>2 DEF FirstAt, LastAt
  <2>2. {PathAt(x[1], known) : x \in ChangedAround(known, FirstAt, LastAt)}'
          = {PathAt(x[1], known) : x \in ChangedAround(known, FirstAt, LastAt)}
    BY <1>2, <2>1
  <2>3. QED
    BY <1>4, <2>1, <2>2 DEF Compared
<1>8. QED
  BY <1>5, <1>6, <1>7

\* Time and ingested commits change nothing of the versions there are.
LEMMA TicksKeepDrift ==
  ASSUME DriftInv, Tick \/ IngestCommits
  PROVE  DriftInv'
<1>1. IsSeq(git) /\ Len(git) \in Nat
  <2>1. IsSeq(git)
    BY DEF DriftInv, DriftTyped
  <2>2. QED
    BY <2>1 DEF IsSeq
<1>2. /\ UNCHANGED <<git, talk, heard, story, links, known, inOrder>>
      /\ now' \in {now, now + 1} /\ ingested' \in {ingested, Len(git)}
  BY DEF Tick, IngestCommits
<1>3. DriftTyped'
  <2>1. DriftTyped /\ CommitsTyped
    BY DEF DriftInv, DriftTyped
  <2>2. CommitsTyped'
    BY <1>2, <2>1 DEF CommitsTyped
  <2>3. now' \in Nat /\ ingested' \in Nat /\ known <= ingested' /\ ingested' <= Len(git)
    BY <1>1, <1>2, <2>1 DEF DriftTyped
  <2>4. QED
    BY <1>2, <2>1, <2>2, <2>3 DEF DriftTyped
<1>4. QED
  BY <1>2, <1>3, SessionStays

\* A commit that is not ingested is not known to any comparison.
LEMMA CommitsKeepDrift ==
  ASSUME DriftInv, MakeCommit
  PROVE  DriftInv'
<1>1. PICK g : /\ git' = Append(git, g) /\ g.at = now
               /\ DOMAIN g.names \subseteq Artifact /\ DOMAIN g.names # {}
  <2>1. PICK changed \in (SUBSET Artifact) \ {{}}, moved \in SUBSET Artifact :
          git' = Append(git, [at |-> now,
            names |-> [a \in changed |-> IF a \in moved THEN Rename
                                         ELSE PathAt(a, Len(git))]])
    BY DEF MakeCommit
  <2>2. PICK made : made = [at |-> now,
            names |-> [a \in changed |-> IF a \in moved THEN Rename
                                         ELSE PathAt(a, Len(git))]]
    OBVIOUS
  <2>3. made.at = now /\ DOMAIN made.names = changed
    BY <2>2
  <2>4. git' = Append(git, made)
    BY <2>1, <2>2
  <2>5. changed \subseteq Artifact /\ changed # {}
    OBVIOUS
  <2>6. QED
    BY <2>3, <2>4, <2>5
<1>2. UNCHANGED <<now, ingested, talk, heard, story, links, known, inOrder>>
  BY DEF MakeCommit
<1>3. DriftTyped /\ IsSeq(git)
  BY DEF DriftInv, DriftTyped
<1>4. /\ IsSeq(git') /\ Len(git) \in Nat /\ Len(git') = Len(git) + 1
      /\ \A c \in 1..Len(git) : git'[c] = git[c]
      /\ git'[Len(git) + 1] = g
  <2>1. IsLonger(git', git, g)
    BY <1>1, <1>3, Appended
  <2>2. QED
    BY <2>1 DEF IsLonger
<1>5. CommitsTyped'
  BY <1>1, <1>3, <1>4 DEF CommitsTyped, DriftTyped
<1>6. DriftTyped'
  BY <1>2, <1>3, <1>4, <1>5 DEF DriftTyped
<1>7. \A c \in 1..known : git'[c] = git[c]
  BY <1>3, <1>4 DEF DriftTyped
<1>8. QED
  BY <1>2, <1>6, <1>7, SessionStays

\* Words said are not observed yet.
LEMMA TurnsKeepDrift ==
  ASSUME DriftInv, Speak
  PROVE  DriftInv'
<1>1. PICK declared \in Declarable :
        talk' = Append(talk, [at |-> now, declared |-> declared])
  BY DEF Speak
<1>2. UNCHANGED <<now, git, ingested, heard, story, links, known, inOrder>>
  BY DEF Speak
<1>3. DriftTyped /\ IsSeq(talk)
  BY DEF DriftInv, DriftTyped
<1>4. PICK turn : turn = [at |-> now, declared |-> declared]
  OBVIOUS
<1>5. /\ IsSeq(talk') /\ Len(talk) \in Nat /\ Len(talk') = Len(talk) + 1
      /\ \A k \in 1..Len(talk) : talk'[k] = talk[k]
      /\ talk'[Len(talk) + 1] = turn
  <2>1. IsLonger(talk', talk, turn)
    BY <1>1, <1>3, <1>4, Appended
  <2>2. QED
    BY <2>1 DEF IsLonger
<1>6. turn.at \in Nat
  BY <1>3, <1>4 DEF DriftTyped
<1>7. DriftTyped'
  <2>1. \A k \in 1..Len(talk') : talk'[k].at \in Nat
    BY <1>3, <1>5, <1>6 DEF DriftTyped
  <2>2. heard' \subseteq 1..Len(talk')
    BY <1>2, <1>3, <1>5 DEF DriftTyped
  <2>3. CommitsTyped'
    BY <1>2, <1>3 DEF DriftTyped, CommitsTyped
  <2>4. QED
    BY <1>2, <1>3, <1>5, <2>1, <2>2, <2>3 DEF DriftTyped
<1>8. \A k \in heard : talk'[k] = talk[k]
  BY <1>3, <1>5 DEF DriftTyped
<1>9. QED
  BY <1>2, <1>7, <1>8, SessionStays

\* A turn that is observed after all before it in time comes last.
LEMMA ObservedLast ==
  ASSUME DriftInv, ObserveTurn, inOrder'
  PROVE  \E k \in (1..Len(talk)) \ heard :
           /\ heard' = heard \cup {k}
           /\ \A j \in heard : talk[j].at < talk[k].at
           /\ \E version :
                /\ version = [at |-> talk[k].at, declared |-> talk[k].declared,
                              drift |-> DriftOf(talk[k])]
                /\ story' = Append(story, version)
           /\ links' \in [DOMAIN links \cup {x[1] : x \in ActualChanges(talk[k])} ->
                            1..ingested]
           /\ LinkAll(ActualChanges(talk[k]), links')
<1>1. PICK k \in DOMAIN talk \ heard :
        /\ heard' = heard \cup {k}
        /\ inOrder' = (inOrder /\ \A j \in heard : talk[j].at < talk[k].at)
        /\ \E i \in 1..Len(story) + 1 :
             /\ \A j \in DOMAIN story : IF j < i THEN story[j].at <= talk[k].at
                                        ELSE story[j].at >= talk[k].at
             /\ story' = InsertAt(story, i, [at |-> talk[k].at, declared |-> talk[k].declared,
                                             drift |-> DriftOf(talk[k])])
        /\ links' \in {l \in [DOMAIN links \cup {x[1] : x \in ActualChanges(talk[k])} ->
                                1..ingested] : LinkAll(ActualChanges(talk[k]), l)}
  BY DEF ObserveTurn
<1>2. inOrder /\ \A j \in heard : talk[j].at < talk[k].at
  BY <1>1
<1>3. Told /\ DriftTyped
  BY <1>2 DEF DriftInv
<1>4. PICK version :
        version = [at |-> talk[k].at, declared |-> talk[k].declared,
                   drift |-> DriftOf(talk[k])]
  OBVIOUS
<1>5. PICK i \in 1..Len(story) + 1 :
        /\ \A j \in DOMAIN story : IF j < i THEN story[j].at <= talk[k].at
                                   ELSE story[j].at >= talk[k].at
        /\ story' = InsertAt(story, i, version)
  BY <1>1, <1>4
<1>6. Len(story) \in Nat /\ DOMAIN story = 1..Len(story)
  BY <1>3 DEF Told, IsSeq
<1>7. DOMAIN talk = 1..Len(talk)
  BY <1>3 DEF DriftTyped, IsSeq
<1>8. i = Len(story) + 1
  <2>1. SUFFICES ASSUME i # Len(story) + 1 PROVE FALSE
    OBVIOUS
  <2>2. Len(story) \in 1..Len(story) /\ ~(Len(story) < i)
    BY <1>6, <2>1
  <2>3. story[Len(story)].at >= talk[k].at
    BY <1>5, <1>6, <2>2
  <2>4. PICK j \in heard : story[Len(story)].at = talk[j].at
    BY <1>3, <2>2 DEF Told
  <2>5. j \in 1..Len(talk) /\ k \in 1..Len(talk)
    BY <1>3, <1>7 DEF DriftTyped
  <2>6. talk[j].at < talk[k].at /\ talk[j].at \in Nat /\ talk[k].at \in Nat
    BY <1>2, <1>3, <2>4, <2>5 DEF DriftTyped
  <2>7. QED
    BY <2>3, <2>4, <2>6
<1>9. story' = Append(story, version)
  BY <1>3, <1>5, <1>8, InsertedLast DEF Told
<1>10. QED
  BY <1>1, <1>2, <1>4, <1>7, <1>9

\* The turn is compared with what changed from the first version's time to its own.
LEMMA ComparedFrom ==
  ASSUME NEW turn
  PROVE  ActualChanges(turn) = ChangedAround(ingested, SessionStart(turn), turn.at)
BY DEF ActualChanges, ChangedAround

\* One more turn at the end of the session: its window is wider, and nothing leaves it.
LEMMA ObservationsKeepDrift ==
  ASSUME DriftInv, ObserveTurn
  PROVE  DriftInv'
<1>1. UNCHANGED <<now, git, ingested, talk>> /\ known' = ingested
  BY DEF ObserveTurn
<1>2. /\ DriftTyped /\ CommitsTyped /\ IsSeq(git) /\ IsSeq(talk)
      /\ known \in Nat /\ ingested \in Nat /\ known <= ingested /\ ingested <= Len(git)
  BY DEF DriftInv, DriftTyped
<1>3. Len(git) \in Nat /\ DOMAIN talk = 1..Len(talk)
  BY <1>2 DEF IsSeq
<1>4. DriftTyped'
  <2>1. \E k \in DOMAIN talk \ heard : heard' = heard \cup {k}
    BY DEF ObserveTurn
  <2>2. heard' \subseteq 1..Len(talk)
    BY <1>2, <1>3, <2>1 DEF DriftTyped
  <2>3. CommitsTyped'
    BY <1>1, <1>2 DEF CommitsTyped
  <2>4. QED
    BY <1>1, <1>2, <2>2, <2>3 DEF DriftTyped
<1>5. SUFFICES ASSUME inOrder' PROVE Told' /\ Compared' /\ Linked'
  BY <1>4 DEF DriftInv
<1>6. inOrder
  BY <1>5 DEF ObserveTurn
<1>7. Told /\ Compared /\ Linked
  BY <1>6 DEF DriftInv
<1>8. PICK k \in (1..Len(talk)) \ heard :
        /\ heard' = heard \cup {k}
        /\ \A j \in heard : talk[j].at < talk[k].at
        /\ \E version :
             /\ version = [at |-> talk[k].at, declared |-> talk[k].declared,
                           drift |-> DriftOf(talk[k])]
             /\ story' = Append(story, version)
        /\ links' \in [DOMAIN links \cup {x[1] : x \in ActualChanges(talk[k])} -> 1..ingested]
        /\ LinkAll(ActualChanges(talk[k]), links')
  BY <1>5, ObservedLast
<1>9. PICK turn, n : turn = talk[k] /\ n = Len(story)
  OBVIOUS
<1>10. PICK version :
         /\ version = [at |-> turn.at, declared |-> turn.declared, drift |-> DriftOf(turn)]
         /\ story' = Append(story, version)
  BY <1>8, <1>9
<1>11. /\ version.at = turn.at /\ version.declared = turn.declared
       /\ version.drift = DriftOf(turn)
  BY <1>10
<1>12. /\ IsSeq(story') /\ n \in Nat /\ Len(story') = n + 1
       /\ \A i \in 1..n : story'[i] = story[i]
       /\ story'[n + 1] = version /\ IsSeq(story)
  <2>1. IsLonger(story', story, version) /\ IsSeq(story)
    BY <1>7, <1>10, Appended DEF Told
  <2>2. QED
    BY <1>9, <2>1 DEF IsLonger
<1>13. story' # <<>> /\ (story = <<>> <=> n = 0) /\ DOMAIN story = 1..n
  <2>1. Len(story') # 0
    BY <1>12
  <2>2. story = <<>> <=> n = 0
    BY <1>9, <1>12 DEF IsSeq
  <2>3. DOMAIN story = 1..n
    BY <1>9, <1>12 DEF IsSeq
  <2>4. QED
    BY <2>1, <2>2, <2>3
<1>14. turn.at \in Nat
  BY <1>2, <1>8, <1>9 DEF DriftTyped
<1>15. \A i \in 1..n : story[i].at \in Nat /\ story[i].at < turn.at
  <2>1. ASSUME NEW i \in 1..n
        PROVE  \E j \in heard : story[i].at = talk[j].at
    BY <1>7, <1>9 DEF Told
  <2>2. heard \subseteq 1..Len(talk)
    BY <1>2 DEF DriftTyped
  <2>3. QED
    BY <1>2, <1>8, <1>9, <2>1, <2>2 DEF DriftTyped
<1>16. Told'
  <2>1. \A i, j \in 1..(n + 1) : i < j => story'[i].at < story'[j].at
    <3>1. SUFFICES ASSUME NEW i \in 1..(n + 1), NEW j \in 1..(n + 1), i < j
                   PROVE  story'[i].at < story'[j].at
      OBVIOUS
    <3>2. i \in 1..n
      BY <1>12, <3>1
    <3>3. CASE j = n + 1
      BY <1>11, <1>12, <1>15, <3>2, <3>3
    <3>4. CASE j \in 1..n
      BY <1>7, <1>9, <1>12, <3>1, <3>2, <3>4 DEF Told
    <3>5. QED
      BY <1>12, <3>3, <3>4
  <2>2. \A q \in heard \cup {k} : \E i \in 1..(n + 1) :
          story'[i].at = talk[q].at /\ story'[i].declared = talk[q].declared
    <3>1. SUFFICES ASSUME NEW q \in heard \cup {k}
                   PROVE  \E i \in 1..(n + 1) :
                            /\ story'[i].at = talk[q].at
                            /\ story'[i].declared = talk[q].declared
      OBVIOUS
    <3>2. CASE q \in heard
      <4>1. PICK i \in 1..n : story[i].at = talk[q].at /\ story[i].declared = talk[q].declared
        BY <1>7, <1>9, <3>2 DEF Told
      <4>2. i \in 1..(n + 1) /\ story'[i] = story[i]
        BY <1>12, <4>1
      <4>3. QED
        BY <4>1, <4>2
    <3>3. CASE q = k
      <4>1. n + 1 \in 1..(n + 1)
        BY <1>12
      <4>2. QED
        BY <1>9, <1>11, <1>12, <3>3, <4>1
    <3>4. QED
      BY <3>2, <3>3
  <2>3. \A i \in 1..(n + 1) : \E q \in heard \cup {k} :
          story'[i].at = talk[q].at /\ story'[i].declared = talk[q].declared
    <3>1. SUFFICES ASSUME NEW i \in 1..(n + 1)
                   PROVE  \E q \in heard \cup {k} :
                            /\ story'[i].at = talk[q].at
                            /\ story'[i].declared = talk[q].declared
      OBVIOUS
    <3>2. CASE i = n + 1
      BY <1>9, <1>11, <1>12, <3>2
    <3>3. CASE i \in 1..n
      <4>1. PICK q \in heard : /\ story[i].at = talk[q].at
                               /\ story[i].declared = talk[q].declared
        BY <1>7, <1>9, <3>3 DEF Told
      <4>2. story'[i] = story[i]
        BY <1>12, <3>3
      <4>3. QED
        BY <4>1, <4>2
    <3>4. QED
      BY <1>12, <3>2, <3>3
  <2>4. QED
    BY <1>1, <1>8, <1>12, <2>1, <2>2, <2>3 DEF Told
<1>17. FirstAt' = SessionStart(turn) /\ LastAt' = turn.at
  <2>1. CASE n = 0
    BY <1>11, <1>12, <1>13, <2>1 DEF FirstAt, LastAt, SessionStart
  <2>2. CASE n # 0
    <3>1. 1 \in 1..n
      BY <1>12, <2>2
    <3>2. QED
      BY <1>11, <1>12, <1>13, <2>2, <3>1 DEF FirstAt, LastAt, SessionStart
  <2>3. QED
    BY <2>1, <2>2
<1>18. PICK actual : /\ actual = ActualChanges(turn)
                     /\ actual = ChangedAround(ingested, FirstAt, LastAt)'
  <2>1. ChangedAround(ingested, FirstAt, LastAt)'
          = ChangedAround(ingested, SessionStart(turn), turn.at)
    BY <1>1, <1>17 DEF ChangedAround, Within
  <2>2. QED
    BY <2>1, ComparedFrom
<1>19. ChangedAround(known, FirstAt, LastAt)' = actual
  BY <1>1, <1>18 DEF ChangedAround
<1>20. story # <<>> => ChangedAround(known, FirstAt, LastAt) \subseteq actual
  <2>1. SUFFICES ASSUME story # <<>>, NEW x \in ChangedAround(known, FirstAt, LastAt)
                 PROVE  x \in actual
    OBVIOUS
  <2>2. n \in 1..n /\ LastAt \in Nat /\ LastAt < turn.at
    BY <1>9, <1>12, <1>13, <1>15, <2>1 DEF LastAt
  <2>3. SessionStart(turn) = FirstAt
    BY <2>1 DEF SessionStart, FirstAt
  <2>4. /\ x \in Artifact \X (1..known) /\ x[1] \in DOMAIN git[x[2]].names
        /\ Within(x[2], FirstAt, LastAt)
    BY <2>1 DEF ChangedAround
  <2>5. x \in Artifact \X (1..ingested) /\ x[2] \in 1..Len(git)
    BY <1>2, <1>3, <2>4
  <2>6. Within(x[2], FirstAt, turn.at)
    <3>1. PICK c \in 1..Len(git) : c = x[2]
      BY <2>5
    <3>2. git[c].at \in Nat
      BY <1>2 DEF CommitsTyped
    <3>3. QED
      BY <1>14, <2>2, <2>4, <3>1, <3>2, DriftAssumption DEF Within
  <2>7. QED
    BY <1>18, <2>3, <2>4, <2>5, <2>6, ComparedFrom DEF ChangedAround
<1>21. Linked'
  <2>1. /\ links' \in [DOMAIN links \cup {x[1] : x \in actual} -> 1..ingested]
        /\ LinkAll(actual, links')
    BY <1>8, <1>9, <1>18
  <2>2. ASSUME NEW a \in DOMAIN links' PROVE <<a, links'[a]>> \in actual
    <3>1. CASE a \in DOMAIN links
      BY <1>7, <1>13, <1>20, <2>1, <2>2, <3>1 DEF LinkAll, Linked
    <3>2. CASE a \notin DOMAIN links
      <4>1. links'[a] \in Earliest(a, actual)
        BY <2>1, <2>2, <3>2 DEF LinkAll
      <4>2. PICK y \in actual : y[1] = a /\ links'[a] = y[2]
        BY <4>1 DEF Earliest
      <4>3. y = <<y[1], y[2]>>
        BY <1>18, <4>2, ComparedFrom DEF ChangedAround
      <4>4. QED
        BY <4>2, <4>3
    <3>3. QED
      BY <3>1, <3>2
  <2>3. \A x \in actual : x[1] \in DOMAIN links'
    BY <2>1
  <2>4. QED
    BY <1>13, <1>19, <2>2, <2>3 DEF Linked
<1>22. Compared'
  <2>1. PICK declared : declared = CumulativeDeclared(turn)
    OBVIOUS
  <2>2. ((UNION {story[i].declared : i \in 1..Len(story)}) \ {Outside})' = declared
    <3>1. {story'[i].declared : i \in 1..(n + 1)}
            = {turn.declared} \cup {story[i].declared : i \in 1..n}
      <4>1. \A i \in 1..(n + 1) : i \in 1..n \/ i = n + 1
        BY <1>12
      <4>2. n + 1 \in 1..(n + 1) /\ \A i \in 1..n : i \in 1..(n + 1)
        BY <1>12
      <4>3. \A i \in 1..n : story'[i].declared = story[i].declared
        BY <1>12
      <4>4. story'[n + 1].declared = turn.declared
        BY <1>11, <1>12
      <4>5. QED
        BY <4>1, <4>2, <4>3, <4>4
    <3>2. {v.declared : v \in Range(story)} = {story[i].declared : i \in 1..n}
      BY <1>13 DEF Range
    <3>3. QED
      BY <1>12, <2>1, <3>1, <3>2 DEF CumulativeDeclared
  <2>3. PICK changed : changed = {PathAt(x[1], ingested) : x \in actual}
    OBVIOUS
  <2>4. {PathAt(x[1], known)' : x \in actual} = changed
    <3>1. \A a : PathAt(a, known)' = PathAt(a, ingested)
      BY <1>1 DEF PathAt
    <3>2. QED
      BY <2>3, <3>1
  <2>5. DriftOf(turn) = IF actual = {} THEN NoDrift
                        ELSE <<ComputeDrift(declared, changed)>>
    BY <1>18, <2>1, <2>3 DEF DriftOf
  <2>6. CASE actual = {}
    <3>1. \A i \in 1..(n + 1) : story'[i].drift = NoDrift
      <4>1. SUFFICES ASSUME NEW i \in 1..(n + 1) PROVE story'[i].drift = NoDrift
        OBVIOUS
      <4>2. CASE i = n + 1
        BY <1>11, <1>12, <2>5, <2>6, <4>2
      <4>3. CASE i \in 1..n
        <5>1. story # <<>> /\ ChangedAround(known, FirstAt, LastAt) = {}
          BY <1>12, <1>13, <1>20, <2>6, <4>3
        <5>2. story[i].drift = NoDrift
          BY <1>7, <1>9, <4>3, <5>1 DEF Compared
        <5>3. QED
          BY <1>12, <4>3, <5>2
      <4>4. QED
        BY <1>12, <4>2, <4>3
    <3>2. QED
      BY <1>12, <1>19, <2>6, <3>1 DEF Compared
  <2>7. CASE actual # {}
    <3>1. story'[Len(story')].drift
            = <<[undeclared |-> changed \ declared, phantom |-> declared \ changed]>>
      BY <1>11, <1>12, <2>5, <2>7 DEF ComputeDrift
    <3>2. {PathAt(x[1], known) : x \in ChangedAround(known, FirstAt, LastAt)}' = changed
      BY <1>19, <2>4
    <3>3. QED
      BY <1>19, <2>2, <2>7, <3>1, <3>2 DEF Compared
  <2>8. QED
    BY <2>6, <2>7
<1>23. QED
  BY <1>16, <1>21, <1>22

\* However turns and commits come, while turns are observed in their order the session knows
\* of all its turns and of all that was committed around it.
THEOREM DriftInvariant == DriftSpec => []DriftInv
<1>1. DriftInit => DriftInv
  BY DriftBegins
<1>2. DriftInv /\ [DriftNext]_driftVars => DriftInv'
  <2>1. SUFFICES ASSUME DriftInv, [DriftNext]_driftVars PROVE DriftInv'
    OBVIOUS
  <2>2. CASE UNCHANGED driftVars
    <3>1. UNCHANGED <<now, git, ingested, talk, heard, story, links, known, inOrder>>
      BY <2>2 DEF driftVars
    <3>2. DriftTyped'
      <4>1. DriftTyped
        BY <2>1 DEF DriftInv
      <4>2. CommitsTyped'
        BY <3>1, <4>1 DEF DriftTyped, CommitsTyped
      <4>3. QED
        BY <3>1, <4>1, <4>2 DEF DriftTyped
    <3>3. QED
      BY <2>1, <3>1, <3>2, SessionStays
  <2>3. CASE DriftNext
    BY <2>1, <2>3, TicksKeepDrift, CommitsKeepDrift, TurnsKeepDrift, ObservationsKeepDrift
       DEF DriftNext
  <2>4. QED
    BY <2>1, <2>2, <2>3
<1>3. QED
  BY <1>1, <1>2, PTL DEF DriftSpec

\* The turns at the two ends of a session are its first and its last version.
LEMMA EndsOfTheSession ==
  ASSUME DriftInv, inOrder, heard # {}
  PROVE  /\ story # <<>> /\ talk[First].at = FirstAt /\ talk[LastHeard].at = LastAt
         /\ {talk[k].declared : k \in heard} = {story[i].declared : i \in 1..Len(story)}
<1>1. Told /\ DriftTyped
  BY DEF DriftInv
<1>2. PICK n : n = Len(story)
  OBVIOUS
<1>3. n \in Nat /\ DOMAIN story = 1..n /\ n # 0
  <2>1. IsSeq(story)
    BY <1>1 DEF Told
  <2>2. n \in Nat /\ DOMAIN story = 1..n
    BY <1>2, <2>1 DEF IsSeq
  <2>3. PICK k \in heard : TRUE
    OBVIOUS
  <2>4. \E i \in 1..n : story[i].at = talk[k].at
    BY <1>1, <1>2, <2>3 DEF Told
  <2>5. QED
    BY <2>2, <2>4
<1>4. story # <<>>
  BY <1>3
<1>5. /\ 1 \in 1..n /\ n \in 1..n
      /\ \A i, j \in 1..n : i < j => story[i].at < story[j].at
  BY <1>1, <1>2, <1>3 DEF Told
<1>6. \A k \in heard : talk[k].at \in Nat
  BY <1>1 DEF DriftTyped
<1>7. \A i \in 1..n : story[i].at \in Nat
  <2>1. \A i \in 1..n : \E k \in heard : story[i].at = talk[k].at
    BY <1>1, <1>2 DEF Told
  <2>2. QED
    BY <1>6, <2>1
<1>8. \A k \in heard : story[1].at <= talk[k].at /\ talk[k].at <= story[n].at
  <2>1. SUFFICES ASSUME NEW k \in heard
                 PROVE  story[1].at <= talk[k].at /\ talk[k].at <= story[n].at
    OBVIOUS
  <2>2. PICK i \in 1..n : story[i].at = talk[k].at
    BY <1>1, <1>2 DEF Told
  <2>3. i = 1 \/ 1 < i
    BY <1>3
  <2>4. i = n \/ i < n
    BY <1>3
  <2>5. story[1].at <= story[i].at
    BY <1>5, <1>7, <2>3
  <2>6. story[i].at <= story[n].at
    BY <1>5, <1>7, <2>4
  <2>7. QED
    BY <2>2, <2>5, <2>6
<1>9. talk[First].at = FirstAt
  <2>1. PICK k \in heard : talk[k].at = story[1].at
    BY <1>1, <1>2, <1>5 DEF Told
  <2>2. \A j \in heard : talk[k].at <= talk[j].at
    BY <1>8, <2>1
  <2>3. First \in heard /\ \A j \in heard : talk[First].at <= talk[j].at
    BY <2>2 DEF First
  <2>4. talk[First].at <= talk[k].at /\ talk[k].at <= talk[First].at
    BY <2>2, <2>3
  <2>5. QED
    BY <1>6, <2>1, <2>3, <2>4 DEF FirstAt
<1>10. talk[LastHeard].at = LastAt
  <2>1. PICK k \in heard : talk[k].at = story[n].at
    BY <1>1, <1>2, <1>5 DEF Told
  <2>2. \A j \in heard : talk[k].at >= talk[j].at
    BY <1>6, <1>7, <1>8, <1>5, <2>1
  <2>3. LastHeard \in heard /\ \A j \in heard : talk[LastHeard].at >= talk[j].at
    BY <2>2 DEF LastHeard
  <2>4. talk[LastHeard].at >= talk[k].at /\ talk[k].at >= talk[LastHeard].at
    BY <2>2, <2>3
  <2>5. QED
    BY <1>2, <1>6, <2>1, <2>3, <2>4 DEF LastAt
<1>11. {talk[k].declared : k \in heard} = {story[i].declared : i \in 1..Len(story)}
  <2>1. \A k \in heard : \E i \in 1..Len(story) : story[i].declared = talk[k].declared
    BY <1>1 DEF Told
  <2>2. \A i \in 1..Len(story) : \E k \in heard : story[i].declared = talk[k].declared
    BY <1>1 DEF Told
  <2>3. ASSUME NEW x \in {talk[k].declared : k \in heard}
        PROVE  x \in {story[i].declared : i \in 1..Len(story)}
    BY <2>1
  <2>4. ASSUME NEW x \in {story[i].declared : i \in 1..Len(story)}
        PROVE  x \in {talk[k].declared : k \in heard}
    BY <2>2
  <2>5. QED
    BY <2>3, <2>4
<1>12. QED
  BY <1>4, <1>9, <1>10, <1>11

\* What a commit around the session changed, if that commit is on record.
LEMMA AroundIsChanged ==
  ASSUME DriftInv, inOrder, heard # {}, NEW c \in 1..known, Around(c),
         NEW a \in DOMAIN git[c].names
  PROVE  <<a, c>> \in ChangedAround(known, FirstAt, LastAt)
<1>1. Within(c, FirstAt, LastAt)
  BY EndsOfTheSession DEF Around
<1>2. a \in Artifact
  <2>1. IsSeq(git) /\ known \in Nat /\ ingested \in Nat /\ known <= ingested /\ ingested <= Len(git)
    BY DEF DriftInv, DriftTyped
  <2>2. c \in 1..Len(git)
    BY <2>1 DEF IsSeq
  <2>3. QED
    BY <2>2 DEF DriftInv, DriftTyped, CommitsTyped
<1>3. QED
  BY <1>1, <1>2 DEF ChangedAround

\* ChangesHaveTheirAgent: what commits on record changed around a session is linked to it,
\* and nothing else; for any turns, commits and orders in which they are recorded.
THEOREM LinksAreComplete == DriftSpec => []ChangesHaveTheirAgent
<1>1. DriftInv => ChangesHaveTheirAgent
  <2>1. SUFFICES ASSUME DriftInv, heard # {}, inOrder
        PROVE  /\ \A c \in {d \in 1..known : Around(d)} : \A a \in DOMAIN git[c].names :
                    /\ a \in DOMAIN links
                    /\ (\A d \in 1..known \ {c} : Around(d) => a \notin DOMAIN git[d].names)
                          => IsBehind(c)
               /\ \A a \in DOMAIN links : Around(links[a])
    BY DEF ChangesHaveTheirAgent
  <2>2. Linked /\ story # <<>>
    BY <2>1, EndsOfTheSession DEF DriftInv
  <2>3. ASSUME NEW a \in DOMAIN links
        PROVE  /\ Around(links[a]) /\ links[a] \in 1..known
               /\ a \in DOMAIN git[links[a]].names
    <3>1. <<a, links[a]>> \in ChangedAround(known, FirstAt, LastAt)
      BY <2>2 DEF Linked
    <3>2. QED
      BY <2>1, <3>1, EndsOfTheSession DEF ChangedAround, Around
  <2>4. ASSUME NEW c \in {d \in 1..known : Around(d)}, NEW a \in DOMAIN git[c].names
        PROVE  /\ a \in DOMAIN links
               /\ (\A d \in 1..known \ {c} : Around(d) => a \notin DOMAIN git[d].names)
                     => IsBehind(c)
    <3>1. a \in DOMAIN links
      <4>1. <<a, c>> \in ChangedAround(known, FirstAt, LastAt)
        BY <2>1, AroundIsChanged
      <4>2. QED
        BY <2>2, <4>1 DEF Linked
    <3>2. ASSUME \A d \in 1..known \ {c} : Around(d) => a \notin DOMAIN git[d].names
          PROVE  links[a] = c
      BY <2>3, <3>1, <3>2
    <3>3. QED
      BY <3>1, <3>2 DEF IsBehind
  <2>5. QED
    BY <2>3, <2>4
<1>2. QED
  BY <1>1, DriftInvariant, PTL

\* VerdictConverges: the verdict is what all turns declare against all that changed.
THEOREM VerdictsConverge == DriftSpec => []VerdictConverges
<1>1. DriftInv => VerdictConverges
  <2> DEFINE around == {c \in DOMAIN git : Around(c)}
             changed == {PathAt(x[1], known) :
                           x \in {y \in Artifact \X around : y[1] \in DOMAIN git[y[2]].names}}
             declared == (UNION {talk[k].declared : k \in heard}) \ {Outside}
  <2>1. SUFFICES ASSUME DriftInv, heard # {}, inOrder, around \subseteq 1..known
        PROVE  Verdict = IF around = {} THEN NoDrift
                         ELSE <<[undeclared |-> changed \ declared,
                                 phantom |-> declared \ changed]>>
    BY DEF VerdictConverges
  <2>2. /\ story # <<>> /\ talk[First].at = FirstAt /\ talk[LastHeard].at = LastAt
        /\ {talk[k].declared : k \in heard} = {story[i].declared : i \in 1..Len(story)}
        /\ Compared /\ IsSeq(story)
    BY <2>1, EndsOfTheSession DEF DriftInv, Told
  <2>3. PICK n : n = Len(story) /\ n \in Nat /\ n # 0 /\ DOMAIN story = 1..n
    <3>1. Len(story) \in Nat /\ DOMAIN story = 1..Len(story)
      BY <2>2 DEF IsSeq
    <3>2. Len(story) # 0
      BY <2>2 DEF IsSeq
    <3>3. QED
      BY <3>1, <3>2
  <2>4. PICK actual : actual = ChangedAround(known, FirstAt, LastAt)
    OBVIOUS
  <2>5. actual = {y \in Artifact \X around : y[1] \in DOMAIN git[y[2]].names}
    <3>1. known \in Nat /\ DOMAIN git = 1..Len(git) /\ Len(git) \in Nat /\ known <= Len(git)
      <4>1. IsSeq(git) /\ known \in Nat /\ ingested \in Nat
            /\ known <= ingested /\ ingested <= Len(git)
        BY <2>1 DEF DriftInv, DriftTyped
      <4>2. QED
        BY <4>1 DEF IsSeq
    <3>2. \A c \in DOMAIN git : Around(c) <=> Within(c, FirstAt, LastAt)
      BY <2>2 DEF Around
    <3>3. around = {c \in 1..known : Within(c, FirstAt, LastAt)}
      BY <2>1, <3>1, <3>2
    <3>4. QED
      BY <2>4, <3>3 DEF ChangedAround
  <2>6. around = {} <=> actual = {}
    <3>1. ASSUME NEW c \in around PROVE actual # {}
      <4>1. c \in 1..Len(git)
        BY <2>1 DEF DriftInv, DriftTyped, IsSeq
      <4>2. PICK a \in DOMAIN git[c].names : a \in Artifact
        BY <2>1, <4>1 DEF DriftInv, DriftTyped, CommitsTyped
      <4>3. <<a, c>> \in actual
        BY <2>5, <4>2
      <4>4. QED
        BY <4>3
    <3>2. QED
      BY <2>5, <3>1
  <2>7. CASE actual = {}
    <3>1. \A i \in 1..n : story[i].drift = NoDrift
      BY <2>2, <2>3, <2>4, <2>7 DEF Compared
    <3>2. Verdict = NoDrift
      BY <2>3, <3>1 DEF Verdict
    <3>3. QED
      BY <2>6, <2>7, <3>2
  <2>8. CASE actual # {}
    <3>1. story[n].drift = <<[undeclared |-> changed \ declared,
                              phantom |-> declared \ changed]>>
      BY <2>2, <2>3, <2>4, <2>5, <2>8 DEF Compared
    <3>2. story[n].drift # NoDrift
      BY <3>1 DEF NoDrift
    <3>3. Verdict = story[n].drift
      <4> DEFINE compared == {i \in DOMAIN story : story[i].drift # NoDrift}
                 last == CHOOSE i \in compared : \A j \in compared : j <= i
      <4>1. n \in compared /\ compared \subseteq 1..n
        BY <2>3, <3>2
      <4>2. \A i \in compared : i \in Nat /\ i <= n
        BY <2>3, <4>1
      <4>3. last \in compared /\ \A j \in compared : j <= last
        <5> HIDE DEF compared
        <5>1. \E i \in compared : \A j \in compared : j <= i
          BY <4>1, <4>2
        <5>2. QED
          BY <5>1
      <4>4. last = n
        <5> HIDE DEF compared, last
        <5>1. QED
          BY <2>3, <4>1, <4>2, <4>3
      <4>5. QED
        BY <4>1, <4>4 DEF Verdict
    <3>4. QED
      BY <2>6, <2>8, <3>1, <3>3
  <2>9. QED
    BY <2>7, <2>8
<1>2. QED
  BY <1>1, DriftInvariant, PTL
=============================================================================
