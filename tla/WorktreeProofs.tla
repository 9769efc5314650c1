---------------------------- MODULE WorktreeProofs ----------------------------
(***************************************************************************)
(* The worktree an agent is bound to while a timer may take it back: what  *)
(* holds for any worktrees, number of timers and crashes.                  *)
(***************************************************************************)
EXTENDS Worktree, SequenceTheorems, TLAPS

(* The order of a method's steps *)

\* Which step may come after which.
Follows ==
  {<<"before bind", "set binding">>, <<"set binding", "set home">>, <<"set home", "to home">>,
   <<"to home", "read binding">>, <<"read binding", "write file">>, <<"write file", "after bind">>,
   <<"before unbind", "test timer">>, <<"test timer", "cancel timer">>,
   <<"cancel timer", "drop timer">>, <<"drop timer", "drop binding">>,
   <<"drop binding", "drop home">>, <<"drop home", "to unbound">>,
   <<"to unbound", "read binding">>, <<"write file", "after unbind">>,
   <<"after unbind", "before bind">>, <<"to unbound", "remove file">>,
   <<"if home", "remember target">>, <<"remember target", "to pending">>,
   <<"if pending", "keep home">>, <<"keep home", "bind target">>, <<"bind target", "to away">>,
   <<"to away", "read binding">>, <<"write file", "test timer">>, <<"drop timer", "new timer">>,
   <<"new timer", "start timer">>, <<"if pending", "read home">>, <<"read home", "restore">>,
   <<"restore", "to home">>, <<"drop timer", "if away">>, <<"if away", "if has home">>,
   <<"if has home", "read home">>, <<"read home", "write home">>, <<"write home", "to home">>}

Flows(q) == \A i \in 1..(Len(q) - 1) : <<q[i], q[i + 1]>> \in Follows

Arming == {"new timer", "start timer"}
Switching == {"if pending", "keep home", "bind target", "to away"}
Saves == {"read binding", "write file"}
Clearing == {"test timer", "cancel timer", "drop timer"}
Approving == Switching \cup Saves \cup Clearing \cup Arming

\* A method from its first step to its last.
Chain(q, first, last, n, ops) ==
  /\ q \in Seq(ops) /\ Len(q) = n /\ n > 0 /\ q[1] = first /\ q[n] = last /\ Flows(q)

\* One part of a method after another.
LEMMA Join ==
  ASSUME NEW ops, NEW p, NEW q, NEW a, NEW b, NEW c, NEW d, NEW m \in Nat, NEW n \in Nat,
         Chain(p, a, b, m, ops), Chain(q, c, d, n, ops), <<b, c>> \in Follows
  PROVE  Chain(p \o q, a, d, m + n, ops)
<1>1. PICK r : r = p \o q
  OBVIOUS
<1>2. /\ r \in Seq(ops) /\ Len(r) = m + n /\ \A i \in 1..m : r[i] = p[i]
      /\ \A i \in 1..(m + n) : i > m => r[i] = q[i - m]
  <2>1. p \in Seq(ops) /\ q \in Seq(ops) /\ Len(p) = m /\ Len(q) = n
    BY DEF Chain
  <2>2. /\ p \o q \in Seq(ops) /\ Len(p \o q) = Len(p) + Len(q)
        /\ \A i \in 1..(Len(p) + Len(q)) :
             (p \o q)[i] = IF i <= Len(p) THEN p[i] ELSE q[i - Len(p)]
    BY <2>1, ConcatProperties
  <2>3. /\ r \in Seq(ops) /\ Len(r) = m + n
        /\ \A i \in 1..(m + n) : r[i] = IF i <= m THEN p[i] ELSE q[i - m]
    BY <1>1, <2>1, <2>2
  <2> QED BY <2>3
<1>3. r[1] = a /\ r[m + n] = d
  BY <1>2 DEF Chain
<1>4. ASSUME NEW i \in 1..(Len(r) - 1) PROVE <<r[i], r[i + 1]>> \in Follows
  <2>1. CASE i < m
    <3>1. r[i] = p[i] /\ r[i + 1] = p[i + 1] /\ i \in 1..(Len(p) - 1)
      BY <1>2, <2>1 DEF Chain
    <3> QED BY <3>1 DEF Chain, Flows
  <2>2. CASE i = m
    <3>1. r[i] = b /\ r[i + 1] = c
      BY <1>2, <2>2 DEF Chain
    <3> QED BY <3>1
  <2>3. CASE i > m
    <3>1. r[i] = q[i - m] /\ r[i + 1] = q[(i - m) + 1] /\ i - m \in 1..(Len(q) - 1)
      BY <1>2, <2>3 DEF Chain
    <3> QED BY <3>1 DEF Chain, Flows
  <2> QED BY <2>1, <2>2, <2>3
<1> QED BY <1>1, <1>2, <1>3, <1>4 DEF Chain, Flows

\* A part of one step.
LEMMA Chain1 ==
  ASSUME NEW ops, NEW a \in ops
  PROVE  Chain(<<a>>, a, a, 1, ops)
<1>1. PICK q : q = <<a>>
  OBVIOUS
<1>2. q \in Seq(ops) /\ Len(q) = 1 /\ q[1] = a
  BY <1>1
<1>3. 1..(1 - 1) = {}
  OBVIOUS
<1> QED BY <1>1, <1>2, <1>3 DEF Chain, Flows

\* A part of two steps.
LEMMA Chain2 ==
  ASSUME NEW ops, NEW a \in ops, NEW b \in ops, <<a, b>> \in Follows
  PROVE  Chain(<<a, b>>, a, b, 2, ops)
<1>1. PICK q : q = <<a, b>>
  OBVIOUS
<1>2. q \in Seq(ops) /\ Len(q) = 2 /\ q[1] = a /\ q[2] = b
  BY <1>1
<1>3. \A i \in 1..(2 - 1) : i = 1
  OBVIOUS
<1>4. \A i \in 1..(2 - 1) : <<q[i], q[i + 1]>> \in Follows
  BY <1>2, <1>3
<1> QED BY <1>1, <1>2, <1>4 DEF Chain, Flows

\* A part of three steps.
LEMMA Chain3 ==
  ASSUME NEW ops, NEW a \in ops, NEW b \in ops, NEW c \in ops, <<a, b>> \in Follows, <<b, c>> \in Follows
  PROVE  Chain(<<a, b, c>>, a, c, 3, ops)
<1>1. PICK q : q = <<a, b, c>>
  OBVIOUS
<1>2. q \in Seq(ops) /\ Len(q) = 3 /\ q[1] = a /\ q[2] = b /\ q[3] = c
  BY <1>1
<1>3. \A i \in 1..(3 - 1) : i = 1 \/ i = 2
  OBVIOUS
<1>4. \A i \in 1..(3 - 1) : <<q[i], q[i + 1]>> \in Follows
  BY <1>2, <1>3
<1> QED BY <1>1, <1>2, <1>4 DEF Chain, Flows

\* A part of four steps.
LEMMA Chain4 ==
  ASSUME NEW ops, NEW a \in ops, NEW b \in ops, NEW c \in ops, NEW d \in ops, <<a, b>> \in Follows, <<b, c>> \in Follows, <<c, d>> \in Follows
  PROVE  Chain(<<a, b, c, d>>, a, d, 4, ops)
<1>1. PICK q : q = <<a, b, c, d>>
  OBVIOUS
<1>2. q \in Seq(ops) /\ Len(q) = 4 /\ q[1] = a /\ q[2] = b /\ q[3] = c /\ q[4] = d
  BY <1>1
<1>3. \A i \in 1..(4 - 1) : i = 1 \/ i = 2 \/ i = 3
  OBVIOUS
<1>4. \A i \in 1..(4 - 1) : <<q[i], q[i + 1]>> \in Follows
  BY <1>2, <1>3
<1> QED BY <1>1, <1>2, <1>4 DEF Chain, Flows

\* A part of five steps.
LEMMA Chain5 ==
  ASSUME NEW ops, NEW a \in ops, NEW b \in ops, NEW c \in ops, NEW d \in ops, NEW e \in ops, <<a, b>> \in Follows, <<b, c>> \in Follows, <<c, d>> \in Follows, <<d, e>> \in Follows
  PROVE  Chain(<<a, b, c, d, e>>, a, e, 5, ops)
<1>1. PICK q : q = <<a, b, c, d, e>>
  OBVIOUS
<1>2. q \in Seq(ops) /\ Len(q) = 5 /\ q[1] = a /\ q[2] = b /\ q[3] = c /\ q[4] = d /\ q[5] = e
  BY <1>1
<1>3. /\ <<q[1], q[1 + 1]>> \in Follows /\ <<q[2], q[2 + 1]>> \in Follows
      /\ <<q[3], q[3 + 1]>> \in Follows /\ <<q[4], q[4 + 1]>> \in Follows
  <2>1. <<q[1], q[2]>> \in Follows /\ <<q[2], q[3]>> \in Follows
    BY <1>2
  <2>2. <<q[3], q[4]>> \in Follows /\ <<q[4], q[5]>> \in Follows
    BY <1>2
  <2> QED BY <2>1, <2>2
<1>4. \A i \in 1..(5 - 1) : <<q[i], q[i + 1]>> \in Follows
  <2>1. TAKE i \in 1..(5 - 1)
  <2>2. i = 1 \/ i = 2 \/ i = 3 \/ i = 4
    OBVIOUS
  <2> QED BY <1>3, <2>2
<1> QED BY <1>1, <1>2, <1>4 DEF Chain, Flows

\* The parts that methods share.
LEMMA Parts ==
  ASSUME NEW ops, Saves \subseteq ops, Clearing \subseteq ops
  PROVE  /\ Chain(Save, "read binding", "write file", 2, ops)
         /\ Chain(ClearTimer, "test timer", "drop timer", 3, ops)
<1>1. /\ <<"read binding", "write file">> \in Follows /\ <<"test timer", "cancel timer">> \in Follows
      /\ <<"cancel timer", "drop timer">> \in Follows
  BY DEF Follows
<1>2. "read binding" \in ops /\ "write file" \in ops
  BY DEF Saves
<1>3. "test timer" \in ops /\ "cancel timer" \in ops /\ "drop timer" \in ops
  BY DEF Clearing
<1>4. Chain(<<"read binding", "write file">>, "read binding", "write file", 2, ops)
  BY <1>1, <1>2, Chain2
<1>5. Chain(<<"test timer", "cancel timer", "drop timer">>, "test timer", "drop timer", 3, ops)
  BY <1>1, <1>3, Chain3
<1> QED BY <1>4, <1>5 DEF Save, ClearTimer

\* The steps of methods that arm no timer.
Harmless ==
  {"before bind", "set binding", "set home", "to home", "read binding", "write file", "after bind",
   "before unbind", "test timer", "cancel timer", "drop timer", "drop binding", "drop home",
   "to unbound", "after unbind", "remove file", "if home", "remember target", "to pending",
   "if pending", "keep home", "bind target", "to away", "read home", "restore", "if away",
   "if has home", "write home"}

\* Each method but approve_switch with a time to live.
LEMMA MethodChains ==
  /\ Chain(Bind, "before bind", "after bind", 7, Harmless)
  /\ Chain(Unbind, "before unbind", "after unbind", 10, Harmless)
  /\ Chain(RequestSwitch, "if home", "to pending", 3, Harmless)
  /\ Chain(ApproveForever, "if pending", "drop timer", 9, Harmless)
  /\ Chain(RejectSwitch, "if pending", "write file", 6, Harmless)
  /\ Chain(RevertToHome, "test timer", "write file", 10, Harmless)
  /\ Chain(Clear, "test timer", "remove file", 7, Harmless)
  /\ Chain(Unbind \o Bind, "before unbind", "after bind", 17, Harmless)
<1> DEFINE C(q, a, z, n) == Chain(q, a, z, n, Harmless)
<1>0. ASSUME NEW p, NEW q, NEW a, NEW b, NEW c, NEW d, NEW m \in Nat, NEW n \in Nat,
             C(p, a, b, m), C(q, c, d, n), <<b, c>> \in Follows
      PROVE  C(p \o q, a, d, m + n)
  BY <1>0, Join
<1>1. C(Save, "read binding", "write file", 2) /\ C(ClearTimer, "test timer", "drop timer", 3)
  <2>1. Saves \subseteq Harmless /\ Clearing \subseteq Harmless
    BY DEF Saves, Clearing, Harmless
  <2> QED BY <2>1, Parts
<1>2. C(Bind, "before bind", "after bind", 7)
  <2>1. C(<<"before bind", "set binding", "set home", "to home">>, "before bind", "to home", 4)
    <3>1. "before bind" \in Harmless /\ "set binding" \in Harmless /\ "set home" \in Harmless /\ "to home" \in Harmless
      BY DEF Harmless
    <3>2. <<"before bind", "set binding">> \in Follows /\ <<"set binding", "set home">> \in Follows /\ <<"set home", "to home">> \in Follows
      BY DEF Follows
    <3> QED BY <3>1, <3>2, Chain4
  <2>2. C(<<"after bind">>, "after bind", "after bind", 1)
    <3>1. "after bind" \in Harmless
      BY DEF Harmless
    <3> QED BY <3>1, Chain1
  <2> HIDE DEF C
  <2>3. C(<<"before bind", "set binding", "set home", "to home">> \o Save, "before bind", "write file", 6)
    <3>1. <<"to home", "read binding">> \in Follows /\ 4 + 2 = 6
      BY DEF Follows
    <3> QED BY <1>0, <1>1, <2>1, <3>1
  <2>4. C((<<"before bind", "set binding", "set home", "to home">> \o Save) \o <<"after bind">>,
          "before bind", "after bind", 7)
    <3>1. <<"write file", "after bind">> \in Follows /\ 6 + 1 = 7
      BY DEF Follows
    <3> QED BY <1>0, <2>2, <2>3, <3>1
  <2> QED BY <2>4 DEF Bind
<1>3. C(Unbind, "before unbind", "after unbind", 10)
  <2>1. C(<<"before unbind">>, "before unbind", "before unbind", 1)
    <3>1. "before unbind" \in Harmless
      BY DEF Harmless
    <3> QED BY <3>1, Chain1
  <2>2. C(<<"drop binding", "drop home", "to unbound">>, "drop binding", "to unbound", 3)
    <3>1. "drop binding" \in Harmless /\ "drop home" \in Harmless /\ "to unbound" \in Harmless
      BY DEF Harmless
    <3>2. <<"drop binding", "drop home">> \in Follows /\ <<"drop home", "to unbound">> \in Follows
      BY DEF Follows
    <3> QED BY <3>1, <3>2, Chain3
  <2>3. C(<<"after unbind">>, "after unbind", "after unbind", 1)
    <3>1. "after unbind" \in Harmless
      BY DEF Harmless
    <3> QED BY <3>1, Chain1
  <2> HIDE DEF C
  <2>4. C(<<"before unbind">> \o ClearTimer, "before unbind", "drop timer", 4)
    <3>1. <<"before unbind", "test timer">> \in Follows /\ 1 + 3 = 4
      BY DEF Follows
    <3> QED BY <1>0, <1>1, <2>1, <3>1
  <2>5. C((<<"before unbind">> \o ClearTimer) \o <<"drop binding", "drop home", "to unbound">>,
          "before unbind", "to unbound", 7)
    <3>1. <<"drop timer", "drop binding">> \in Follows /\ 4 + 3 = 7
      BY DEF Follows
    <3> QED BY <1>0, <2>2, <2>4, <3>1
  <2>6. C(((<<"before unbind">> \o ClearTimer) \o <<"drop binding", "drop home", "to unbound">>) \o Save,
          "before unbind", "write file", 9)
    <3>1. <<"to unbound", "read binding">> \in Follows /\ 7 + 2 = 9
      BY DEF Follows
    <3> QED BY <1>0, <1>1, <2>5, <3>1
  <2>7. C((((<<"before unbind">> \o ClearTimer) \o <<"drop binding", "drop home", "to unbound">>) \o Save)
            \o <<"after unbind">>, "before unbind", "after unbind", 10)
    <3>1. <<"write file", "after unbind">> \in Follows /\ 9 + 1 = 10
      BY DEF Follows
    <3> QED BY <1>0, <2>3, <2>6, <3>1
  <2> QED BY <2>7 DEF Unbind
<1>4. C(RequestSwitch, "if home", "to pending", 3)
  <2>1. "if home" \in Harmless /\ "remember target" \in Harmless /\ "to pending" \in Harmless
    BY DEF Harmless
  <2>2. <<"if home", "remember target">> \in Follows /\ <<"remember target", "to pending">> \in Follows
    BY DEF Follows
  <2> QED BY <2>1, <2>2, Chain3 DEF RequestSwitch
<1>5. C(ApproveForever, "if pending", "drop timer", 9)
  <2>1. C(SwitchAway, "if pending", "to away", 4)
    <3>1. "if pending" \in Harmless /\ "keep home" \in Harmless /\ "bind target" \in Harmless /\ "to away" \in Harmless
      BY DEF Harmless
    <3>2. <<"if pending", "keep home">> \in Follows /\ <<"keep home", "bind target">> \in Follows /\ <<"bind target", "to away">> \in Follows
      BY DEF Follows
    <3> QED BY <3>1, <3>2, Chain4 DEF SwitchAway
  <2> HIDE DEF C
  <2>2. C(SwitchAway \o Save, "if pending", "write file", 6)
    <3>1. <<"to away", "read binding">> \in Follows /\ 4 + 2 = 6
      BY DEF Follows
    <3> QED BY <1>0, <1>1, <2>1, <3>1
  <2>3. C((SwitchAway \o Save) \o ClearTimer, "if pending", "drop timer", 9)
    <3>1. <<"write file", "test timer">> \in Follows /\ 6 + 3 = 9
      BY DEF Follows
    <3> QED BY <1>0, <1>1, <2>2, <3>1
  <2> QED BY <2>3 DEF ApproveForever
<1>6. C(RejectSwitch, "if pending", "write file", 6)
  <2>1. C(<<"if pending", "read home", "restore", "to home">>, "if pending", "to home", 4)
    <3>1. "if pending" \in Harmless /\ "read home" \in Harmless /\ "restore" \in Harmless /\ "to home" \in Harmless
      BY DEF Harmless
    <3>2. <<"if pending", "read home">> \in Follows /\ <<"read home", "restore">> \in Follows /\ <<"restore", "to home">> \in Follows
      BY DEF Follows
    <3> QED BY <3>1, <3>2, Chain4
  <2> HIDE DEF C
  <2>2. C(<<"if pending", "read home", "restore", "to home">> \o Save, "if pending", "write file", 6)
    <3>1. <<"to home", "read binding">> \in Follows /\ 4 + 2 = 6
      BY DEF Follows
    <3> QED BY <1>0, <1>1, <2>1, <3>1
  <2> QED BY <2>2 DEF RejectSwitch
<1>7. C(RevertToHome, "test timer", "write file", 10)
  <2>1. C(<<"if away", "if has home", "read home", "write home", "to home">>, "if away", "to home", 5)
    <3>1. "if away" \in Harmless /\ "if has home" \in Harmless /\ "read home" \in Harmless /\ "write home" \in Harmless /\ "to home" \in Harmless
      BY DEF Harmless
    <3>2. <<"if away", "if has home">> \in Follows /\ <<"if has home", "read home">> \in Follows /\ <<"read home", "write home">> \in Follows /\ <<"write home", "to home">> \in Follows
      BY DEF Follows
    <3> QED BY <3>1, <3>2, Chain5
  <2> HIDE DEF C
  <2>2. C(ClearTimer \o <<"if away", "if has home", "read home", "write home", "to home">>,
          "test timer", "to home", 8)
    <3>1. <<"drop timer", "if away">> \in Follows /\ 3 + 5 = 8
      BY DEF Follows
    <3> QED BY <1>0, <1>1, <2>1, <3>1
  <2>3. C((ClearTimer \o <<"if away", "if has home", "read home", "write home", "to home">>) \o Save,
          "test timer", "write file", 10)
    <3>1. <<"to home", "read binding">> \in Follows /\ 8 + 2 = 10
      BY DEF Follows
    <3> QED BY <1>0, <1>1, <2>2, <3>1
  <2> QED BY <2>3 DEF RevertToHome
<1>8. C(Clear, "test timer", "remove file", 7)
  <2>1. C(<<"drop binding", "drop home", "to unbound", "remove file">>, "drop binding", "remove file", 4)
    <3>1. "drop binding" \in Harmless /\ "drop home" \in Harmless /\ "to unbound" \in Harmless /\ "remove file" \in Harmless
      BY DEF Harmless
    <3>2. <<"drop binding", "drop home">> \in Follows /\ <<"drop home", "to unbound">> \in Follows /\ <<"to unbound", "remove file">> \in Follows
      BY DEF Follows
    <3> QED BY <3>1, <3>2, Chain4
  <2> HIDE DEF C
  <2>2. C(ClearTimer \o <<"drop binding", "drop home", "to unbound", "remove file">>,
          "test timer", "remove file", 7)
    <3>1. <<"drop timer", "drop binding">> \in Follows /\ 3 + 4 = 7
      BY DEF Follows
    <3> QED BY <1>0, <1>1, <2>1, <3>1
  <2> QED BY <2>2 DEF Clear
<1>9. C(Unbind \o Bind, "before unbind", "after bind", 17)
  <2>1. <<"after unbind", "before bind">> \in Follows /\ 10 + 7 = 17
    BY DEF Follows
  <2> HIDE DEF C
  <2> QED BY <1>0, <1>2, <1>3, <2>1
<1> QED BY <1>2, <1>3, <1>4, <1>5, <1>6, <1>7, <1>8, <1>9

\* approve_switch with a time to live.
LEMMA ApproveChain == Chain(ApproveSwitch, "if pending", "start timer", 11, Approving)
<1> DEFINE C(q, a, z, n) == Chain(q, a, z, n, Approving)
<1>0. ASSUME NEW p, NEW q, NEW a, NEW b, NEW c, NEW d, NEW m \in Nat, NEW n \in Nat,
             C(p, a, b, m), C(q, c, d, n), <<b, c>> \in Follows
      PROVE  C(p \o q, a, d, m + n)
  BY <1>0, Join
<1>1. C(Save, "read binding", "write file", 2) /\ C(ClearTimer, "test timer", "drop timer", 3)
  <2>1. Saves \subseteq Approving /\ Clearing \subseteq Approving
    BY DEF Approving, Saves, Clearing, Arming, Switching
  <2> QED BY <2>1, Parts
<1>2. C(SwitchAway, "if pending", "to away", 4)
  <2>1. "if pending" \in Approving /\ "keep home" \in Approving /\ "bind target" \in Approving /\ "to away" \in Approving
    BY DEF Approving, Switching, Arming
  <2>2. <<"if pending", "keep home">> \in Follows /\ <<"keep home", "bind target">> \in Follows /\ <<"bind target", "to away">> \in Follows
    BY DEF Follows
  <2> QED BY <2>1, <2>2, Chain4 DEF SwitchAway
<1>3. C(StartTimer, "new timer", "start timer", 2)
  <2>1. "new timer" \in Approving /\ "start timer" \in Approving
    BY DEF Approving, Switching, Arming
  <2>2. <<"new timer", "start timer">> \in Follows
    BY DEF Follows
  <2> QED BY <2>1, <2>2, Chain2 DEF StartTimer
<1> HIDE DEF C
<1>4. C(SwitchAway \o Save, "if pending", "write file", 6)
  <2>1. <<"to away", "read binding">> \in Follows /\ 4 + 2 = 6
    BY DEF Follows
  <2> QED BY <1>0, <1>1, <1>2, <2>1
<1>5. C((SwitchAway \o Save) \o ClearTimer, "if pending", "drop timer", 9)
  <2>1. <<"write file", "test timer">> \in Follows /\ 6 + 3 = 9
    BY DEF Follows
  <2> QED BY <1>0, <1>1, <1>4, <2>1
<1>6. C(((SwitchAway \o Save) \o ClearTimer) \o StartTimer, "if pending", "start timer", 11)
  <2>1. <<"drop timer", "new timer">> \in Follows /\ 9 + 2 = 11
    BY DEF Follows
  <2> QED BY <1>0, <1>3, <1>5, <2>1
<1> QED BY <1>6 DEF ApproveSwitch, C

Ops == Harmless \cup Approving

\* What revert_to_home has still to do: the last two steps save, and the one before them says
\* that the agent is home.
Reverting(op, left) ==
  /\ op \in Saves <=> left <= 1
  /\ op = "to home" <=> left = 2
  /\ op \in Clearing \cup {"if away", "if has home", "read home", "write home", "to home"} \cup Saves
Reverts(q) == \A i \in 1..Len(q) : Reverting(q[i], Len(q) - i)

\* One part after another, step by step.
Joined(S, z, x, y, m, n) ==
  /\ z \in Seq(S) /\ Len(z) = m + n
  /\ \A k \in 1..(m + n) : z[k] = IF k <= m THEN x[k] ELSE y[k - m]
LEMMA Concat ==
  ASSUME NEW S, NEW x \in Seq(S), NEW y \in Seq(S), NEW m \in Nat, NEW n \in Nat, Len(x) = m, Len(y) = n
  PROVE  Joined(S, x \o y, x, y, m, n)
<1>1. /\ x \o y \in Seq(S) /\ Len(x \o y) = Len(x) + Len(y)
      /\ \A k \in 1..(Len(x) + Len(y)) : (x \o y)[k] = IF k <= Len(x) THEN x[k] ELSE y[k - Len(x)]
  BY ConcatProperties
<1> QED BY <1>1 DEF Joined

\* Three parts of three, five and two steps.
LEMMA Ten ==
  ASSUME NEW a, NEW b, NEW c, NEW d, NEW e, NEW f, NEW g, NEW h, NEW i, NEW j,
         Reverting(a, 9), Reverting(b, 8), Reverting(c, 7), Reverting(d, 6), Reverting(e, 5),
         Reverting(f, 4), Reverting(g, 3), Reverting(h, 2), Reverting(i, 1), Reverting(j, 0)
  PROVE  Reverts((<<a, b, c>> \o <<d, e, f, g, h>>) \o <<i, j>>)
<1>1. PICK S : S = {a, b, c, d, e, f, g, h, i, j}
  OBVIOUS
<1>2. PICK x : x = <<a, b, c>>
  OBVIOUS
<1>3. PICK y : y = <<d, e, f, g, h>>
  OBVIOUS
<1>4. PICK z : z = <<i, j>>
  OBVIOUS
<1>5. x \in Seq(S) /\ Len(x) = 3 /\ x[1] = a /\ x[2] = b /\ x[3] = c
  BY <1>1, <1>2
<1>6. y \in Seq(S) /\ Len(y) = 5 /\ y[1] = d /\ y[2] = e /\ y[3] = f /\ y[4] = g /\ y[5] = h
  BY <1>1, <1>3
<1>7. z \in Seq(S) /\ Len(z) = 2 /\ z[1] = i /\ z[2] = j
  BY <1>1, <1>4
<1>8. PICK p : p = x \o y
  OBVIOUS
<1>9. PICK q : q = p \o z
  OBVIOUS
<1>10. p \in Seq(S) /\ Len(p) = 8 /\ (\A k \in 1..3 : p[k] = x[k]) /\ \A k \in 1..5 : p[3 + k] = y[k]
  <2>1. x \in Seq(S) /\ Len(x) = 3 /\ y \in Seq(S) /\ Len(y) = 5
    BY <1>5, <1>6
  <2>2. PICK m \in Nat, n \in Nat : m = 3 /\ n = 5 /\ Len(x) = m /\ Len(y) = n
    BY <2>1
  <2>3. Joined(S, p, x, y, m, n)
    <3>1. m \in Nat /\ n \in Nat /\ x \in Seq(S) /\ y \in Seq(S) /\ Len(x) = m /\ Len(y) = n
      BY <2>1, <2>2
    <3> QED BY <1>8, <3>1, Concat
  <2>4. ASSUME NEW k \in 1..3 PROVE p[k] = x[k]
    <3>1. k \in 1..(m + n) /\ k <= m
      BY <2>2
    <3> QED BY <2>3, <3>1 DEF Joined
  <2>5. ASSUME NEW k \in 1..5 PROVE p[3 + k] = y[k]
    <3>1. 3 + k \in 1..(m + n) /\ ~(3 + k <= m) /\ (3 + k) - m = k
      BY <2>2
    <3> QED BY <2>3, <3>1 DEF Joined
  <2>6. Len(p) = 8
    BY <2>2, <2>3 DEF Joined
  <2> QED BY <2>3, <2>4, <2>5, <2>6 DEF Joined
<1>11. Len(q) = 10 /\ (\A k \in 1..8 : q[k] = p[k]) /\ \A k \in 1..2 : q[8 + k] = z[k]
  <2>1. p \in Seq(S) /\ Len(p) = 8 /\ z \in Seq(S) /\ Len(z) = 2
    BY <1>7, <1>10
  <2>2. PICK m \in Nat, n \in Nat : m = 8 /\ n = 2 /\ Len(p) = m /\ Len(z) = n
    BY <2>1
  <2>3. Joined(S, q, p, z, m, n)
    <3>1. m \in Nat /\ n \in Nat /\ p \in Seq(S) /\ z \in Seq(S) /\ Len(p) = m /\ Len(z) = n
      BY <2>1, <2>2
    <3> QED BY <1>9, <3>1, Concat
  <2>4. ASSUME NEW k \in 1..8 PROVE q[k] = p[k]
    <3>1. k \in 1..(m + n) /\ k <= m
      BY <2>2
    <3> QED BY <2>3, <3>1 DEF Joined
  <2>5. ASSUME NEW k \in 1..2 PROVE q[8 + k] = z[k]
    <3>1. 8 + k \in 1..(m + n) /\ ~(8 + k <= m) /\ (8 + k) - m = k
      BY <2>2
    <3> QED BY <2>3, <3>1 DEF Joined
  <2>6. Len(q) = 10
    BY <2>2, <2>3 DEF Joined
  <2> QED BY <2>3, <2>4, <2>5, <2>6 DEF Joined
<1>12. /\ q[1] = a /\ q[2] = b /\ q[3] = c /\ q[4] = d /\ q[5] = e /\ q[6] = f /\ q[7] = g /\ q[8] = h
       /\ q[9] = i /\ q[10] = j
  <2>1. p[1] = a /\ p[2] = b /\ p[3] = c
    <3>1. p[1] = x[1] /\ p[2] = x[2] /\ p[3] = x[3]
      BY <1>10
    <3> QED BY <1>5, <3>1
  <2>2. p[3 + 1] = d /\ p[3 + 2] = e /\ p[3 + 3] = f /\ p[3 + 4] = g /\ p[3 + 5] = h
    <3>1. p[3 + 1] = y[1] /\ p[3 + 2] = y[2] /\ p[3 + 3] = y[3] /\ p[3 + 4] = y[4] /\ p[3 + 5] = y[5]
      BY <1>10
    <3> QED BY <1>6, <3>1
  <2>3. q[8 + 1] = i /\ q[8 + 2] = j
    <3>1. q[8 + 1] = z[1] /\ q[8 + 2] = z[2]
      BY <1>11
    <3> QED BY <1>7, <3>1
  <2>4. q[1] = p[1] /\ q[2] = p[2] /\ q[3] = p[3] /\ q[4] = p[3 + 1] /\ q[5] = p[3 + 2]
    BY <1>11
  <2>5. q[6] = p[3 + 3] /\ q[7] = p[3 + 4] /\ q[8] = p[3 + 5]
    BY <1>11
  <2> QED BY <2>1, <2>2, <2>3, <2>4, <2>5
<1>13. ASSUME NEW k \in 1..10 PROVE Reverting(q[k], 10 - k)
  <2>1. k = 1 \/ k = 2 \/ k = 3 \/ k = 4 \/ k = 5 \/ k = 6 \/ k = 7 \/ k = 8 \/ k = 9 \/ k = 10
    OBVIOUS
  <2> QED BY <1>12, <2>1
<1> QED BY <1>2, <1>3, <1>4, <1>8, <1>9, <1>11, <1>13 DEF Reverts

\* The whole of it.
LEMMA RevertsHome == Reverts(RevertToHome)
<1>1. /\ Reverting("test timer", 9) /\ Reverting("cancel timer", 8) /\ Reverting("drop timer", 7)
      /\ Reverting("if away", 6) /\ Reverting("if has home", 5) /\ Reverting("read home", 4)
      /\ Reverting("write home", 3) /\ Reverting("to home", 2) /\ Reverting("read binding", 1)
      /\ Reverting("write file", 0)
  BY DEF Reverting, Saves, Clearing
<1>2. Reverts((<<"test timer", "cancel timer", "drop timer">>
               \o <<"if away", "if has home", "read home", "write home", "to home">>)
              \o <<"read binding", "write file">>)
  BY <1>1, Ten
<1> QED BY <1>2 DEF RevertToHome, ClearTimer, Save

\* The steps of which a place in a method is spoken of.
OpTest == "test timer"
OpCancel == "cancel timer"
OpDrop == "drop timer"
OpNew == "new timer"
OpStart == "start timer"
OpAway == "to away"

\* What comes after them.
LEMMA After ==
  /\ \A x : <<OpTest, x>> \in Follows => x = OpCancel
  /\ \A x : <<OpCancel, x>> \in Follows => x = OpDrop
  /\ \A x : <<OpNew, x>> \in Follows => x = OpStart
  /\ \A x : <<OpStart, x>> \notin Follows
  /\ \A x, y : <<x, y>> \in Follows /\ x \in Switching /\ y \in Approving /\ y \notin Switching => x = OpAway
  /\ OpTest \notin Switching /\ OpCancel \notin Switching /\ OpDrop \notin Switching
  /\ OpStart \notin Switching /\ OpStart \notin Harmless /\ OpStart # OpNew /\ OpNew \notin Harmless
<1>1. \A x : <<OpTest, x>> \in Follows => x = OpCancel
  BY DEF Follows, OpTest, OpCancel
<1>2. \A x : <<OpCancel, x>> \in Follows => x = OpDrop
  BY DEF Follows, OpCancel, OpDrop
<1>3. \A x : <<OpNew, x>> \in Follows => x = OpStart
  BY DEF Follows, OpNew, OpStart
<1>4. \A x : <<OpStart, x>> \notin Follows
  BY DEF Follows, OpStart
<1>5. ASSUME NEW x, NEW y, <<x, y>> \in Follows, x \in Switching, y \in Approving, y \notin Switching
      PROVE  x = OpAway
  <2>1. x \in {"if pending", "keep home", "bind target", "to away"}
    BY <1>5 DEF Switching
  <2>2. y \notin {"keep home", "read home", "bind target", "to away"}
    BY <1>5 DEF Approving, Switching, Saves, Clearing, Arming
  <2> QED BY <1>5, <2>1, <2>2 DEF Follows, OpAway
<1>6. /\ OpTest \notin Switching /\ OpCancel \notin Switching /\ OpDrop \notin Switching
      /\ OpStart \notin Switching /\ OpStart \notin Harmless /\ OpStart # OpNew /\ OpNew \notin Harmless
  BY DEF OpTest, OpCancel, OpDrop, OpStart, OpNew, Switching, Harmless
<1> QED BY <1>1, <1>2, <1>3, <1>4, <1>5, <1>6

\* The steps that end a method.
Ends == {"after bind", "after unbind", "to pending", "drop timer", "write file", "remove file", "start timer"}
EndsWell(q) == q # <<>> => q[Len(q)] \in Ends

\* What approve_switch has still to do before it starts the timer.
Arms(q) == q \in Seq(Approving) /\ Len(q) > 0 /\ q[Len(q)] = OpStart

\* What is left of a method after a step: nothing, or what comes after one or after three steps.
RestOf(q, r, prev) ==
  \/ r = <<>>
  \/ \E d \in {1, 3} :
       /\ Len(r) = Len(q) - d /\ Len(r) > 0 /\ \A i \in 1..Len(r) : r[i] = q[i + d]
       /\ <<prev, r[1]>> \in Follows
       /\ d = 1 => prev = q[1]
       /\ d = 3 => prev = OpDrop /\ q[1] = OpTest

\* After one step.
LEMMA RestOne ==
  ASSUME NEW ops, NEW q \in Seq(ops), q # <<>>, Flows(q)
  PROVE  Tail(q) \in Seq(ops) /\ RestOf(q, Tail(q), Head(q))
<1>1. PICK r : r = Tail(q)
  OBVIOUS
<1>2. r \in Seq(ops) /\ Len(r) = Len(q) - 1 /\ \A i \in 1..Len(r) : r[i] = q[i + 1]
  BY <1>1, HeadTailProperties
<1>3. Head(q) = q[1] /\ Len(q) > 0
  OBVIOUS
<1>4. CASE Len(r) = 0
  BY <1>1, <1>2, <1>4, EmptySeq DEF RestOf
<1>5. CASE Len(r) > 0
  <2>1. r[1] = q[1 + 1] /\ 1 \in 1..(Len(q) - 1)
    BY <1>2, <1>5
  <2>2. <<q[1], r[1]>> \in Follows
    BY <2>1 DEF Flows
  <2>3. \E d \in {1, 3} :
          /\ Len(r) = Len(q) - d /\ Len(r) > 0 /\ \A i \in 1..Len(r) : r[i] = q[i + d]
          /\ <<q[1], r[1]>> \in Follows
          /\ d = 1 => q[1] = q[1]
          /\ d = 3 => q[1] = OpDrop /\ q[1] = OpTest
    <3>1. 1 \in {1, 3}
      OBVIOUS
    <3>2. Len(r) = Len(q) - 1 /\ Len(r) > 0 /\ \A i \in 1..Len(r) : r[i] = q[i + 1]
      BY <1>2, <1>5
    <3> WITNESS 1 \in {1, 3}
    <3> QED BY <2>2, <3>2
  <2> QED BY <1>1, <1>2, <1>3, <2>3 DEF RestOf
<1> QED BY <1>2, <1>4, <1>5

\* After the three of a timer to clear, when there is none.
LEMMA RestThree ==
  ASSUME NEW ops, NEW q \in Seq(ops), q # <<>>, Flows(q), Head(q) = OpTest
  PROVE  /\ SubSeq(q, 4, Len(q)) \in Seq(ops)
         /\ RestOf(q, SubSeq(q, 4, Len(q)), OpDrop)
<1>1. PICK r : r = SubSeq(q, 4, Len(q))
  OBVIOUS
<1>2. PICK n \in Nat : n = Len(q)
  OBVIOUS
<1>3. /\ r \in Seq(ops) /\ Len(r) = IF 4 <= n THEN n - 4 + 1 ELSE 0
      /\ \A i \in 1..(n - 4 + 1) : r[i] = q[4 + i - 1]
  <2>1. \A i \in 4..n : q[i] \in ops
    BY <1>2
  <2> QED BY <1>1, <1>2, <2>1, SubSeqProperties
<1>4. CASE n < 4
  <2>1. Len(r) = 0
    BY <1>2, <1>3, <1>4
  <2> QED BY <1>1, <1>3, <2>1, EmptySeq DEF RestOf
<1>5. CASE n >= 4
  <2>1. Len(r) = n - 3 /\ Len(r) > 0 /\ \A i \in 1..Len(r) : r[i] = q[i + 3]
    <3>1. Len(r) = n - 3
      BY <1>2, <1>3, <1>5
    <3>2. \A i \in 1..(n - 3) : i \in 1..(n - 4 + 1) /\ 4 + i - 1 = i + 3
      BY <1>2, <1>5
    <3> QED BY <1>2, <1>3, <1>5, <3>1, <3>2
  <2>2. q[1] = OpTest
    OBVIOUS
  <2>3. <<q[1], q[1 + 1]>> \in Follows /\ <<q[2], q[2 + 1]>> \in Follows /\ <<q[3], q[3 + 1]>> \in Follows
    <3>1. 1 \in 1..(Len(q) - 1) /\ 2 \in 1..(Len(q) - 1) /\ 3 \in 1..(Len(q) - 1)
      BY <1>2, <1>5
    <3> QED BY <3>1 DEF Flows
  <2>4. q[2] = OpCancel /\ q[3] = OpDrop
    BY <2>2, <2>3, After
  <2>5. r[1] = q[4]
    BY <1>2, <2>1
  <2>6. <<OpDrop, r[1]>> \in Follows
    BY <2>3, <2>4, <2>5
  <2>7. RestOf(q, r, OpDrop)
    <3>1. Len(r) = Len(q) - 3
      BY <1>2, <2>1
    <3>2. q[1] = OpTest
      BY <2>2
    <3> QED BY <2>1, <2>6, <3>1, <3>2 DEF RestOf
  <2> QED BY <1>1, <1>3, <2>7
<1> QED BY <1>1, <1>2, <1>3, <1>4, <1>5

\* What is left of a method is in order, and arms or reverts as the method did.
LEMMA RestKeeps ==
  ASSUME NEW q \in Seq(Ops), NEW r \in Seq(Ops), NEW prev, Flows(q), RestOf(q, r, prev)
  PROVE  /\ Flows(r) /\ Len(r) <= Len(q)
         /\ q \in Seq(Harmless) => r \in Seq(Harmless)
         /\ Arms(q) => r = <<>> \/ Arms(r)
         /\ Reverts(q) => Reverts(r)
         /\ EndsWell(q) => EndsWell(r)
<1>1. CASE r = <<>>
  <2>1. Len(r) = 0 /\ r \in Seq(Harmless)
    BY <1>1
  <2> QED BY <1>1, <2>1 DEF Flows, Reverts, EndsWell
<1>2. CASE r # <<>>
  <2>1. PICK d \in {1, 3} :
          /\ Len(r) = Len(q) - d /\ Len(r) > 0 /\ \A i \in 1..Len(r) : r[i] = q[i + d]
          /\ <<prev, r[1]>> \in Follows
    BY <1>2 DEF RestOf
  <2>2. Flows(r)
    <3> SUFFICES ASSUME NEW i \in 1..(Len(r) - 1) PROVE <<r[i], r[i + 1]>> \in Follows
      BY DEF Flows
    <3>1. i + d \in 1..(Len(q) - 1) /\ i \in 1..Len(r) /\ i + 1 \in 1..Len(r) /\ (i + 1) + d = (i + d) + 1
      BY <2>1
    <3> QED BY <2>1, <3>1 DEF Flows
  <2>3. \A i \in 1..Len(r) : i + d \in 1..Len(q)
    BY <2>1
  <2>4. \A ops : q \in Seq(ops) => r \in Seq(ops)
    <3> SUFFICES ASSUME NEW ops, q \in Seq(ops) PROVE r \in Seq(ops)
      OBVIOUS
    <3>1. \A i \in 1..Len(r) : r[i] \in ops
      BY <2>1, <2>3
    <3> QED BY <3>1
  <2>5. Len(r) \in 1..Len(r) /\ Len(r) + d = Len(q)
    BY <2>1
  <2>6. Arms(q) => Arms(r)
    BY <2>1, <2>4, <2>5 DEF Arms
  <2>7. ASSUME Reverts(q) PROVE Reverts(r)
    <3> SUFFICES ASSUME NEW i \in 1..Len(r) PROVE Reverting(r[i], Len(r) - i)
      BY DEF Reverts
    <3>1. Len(q) - (i + d) = Len(r) - i
      BY <2>1
    <3> QED BY <2>1, <2>3, <2>7, <3>1 DEF Reverts
  <2>8. EndsWell(q) => EndsWell(r)
    <3>1. r[Len(r)] = q[Len(q)] /\ q # <<>>
      BY <2>1, <2>5
    <3> QED BY <3>1 DEF EndsWell
  <2> QED BY <2>1, <2>2, <2>4, <2>6, <2>7, <2>8
<1> QED BY <1>1, <1>2

\* A method that arms a timer has switched when it has no more of the switch to do.
LEMMA SwitchedAway ==
  ASSUME NEW q \in Seq(Ops), NEW r \in Seq(Ops), NEW prev, Flows(q), RestOf(q, r, prev), Arms(q), r # <<>>,
         \E i \in 1..Len(q) : q[i] \in Switching,
         \A i \in 1..Len(r) : r[i] \notin Switching
  PROVE  q[1] = OpAway
<1>1. PICK d \in {1, 3} :
        /\ Len(r) = Len(q) - d /\ Len(r) > 0 /\ \A i \in 1..Len(r) : r[i] = q[i + d]
        /\ <<prev, r[1]>> \in Follows
        /\ d = 1 => prev = q[1]
        /\ d = 3 => prev = OpDrop /\ q[1] = OpTest
  BY DEF RestOf
<1>2. PICK i \in 1..Len(q) : q[i] \in Switching
  OBVIOUS
<1>3. i <= d
  <2> SUFFICES ASSUME i > d PROVE FALSE
    BY <1>1
  <2>1. i - d \in 1..Len(r) /\ (i - d) + d = i
    BY <1>1
  <2>2. r[i - d] = q[i]
    BY <1>1, <2>1
  <2> QED BY <1>2, <2>1, <2>2
<1>4. CASE d = 1
  <2>0. i = 1
    BY <1>2, <1>3, <1>4
  <2>1. q[1] \in Switching /\ <<q[1], r[1]>> \in Follows
    BY <1>1, <1>2, <1>4, <2>0
  <2>2. r[1] \notin Switching /\ r[1] \in Approving
    <3>1. 1 \in 1..Len(r) /\ r[1] = q[1 + d] /\ 1 + d \in 1..Len(q)
      BY <1>1
    <3> QED BY <3>1 DEF Arms
  <2> QED BY <2>1, <2>2, After
<1>5. CASE d = 3
  <2>1. q[1] = OpTest /\ Len(q) > 3
    BY <1>1, <1>5
  <2>2. <<q[1], q[1 + 1]>> \in Follows /\ <<q[2], q[2 + 1]>> \in Follows
    <3>1. 1 \in 1..(Len(q) - 1) /\ 2 \in 1..(Len(q) - 1)
      BY <2>1
    <3> QED BY <3>1 DEF Flows
  <2>3. q[2] = OpCancel /\ q[3] = OpDrop
    BY <2>1, <2>2, After
  <2>4. i = 1 \/ i = 2 \/ i = 3
    BY <1>3, <1>5
  <2> QED BY <1>2, <2>1, <2>3, <2>4, After
<1> QED BY <1>4, <1>5

(* What each step finds and leaves *)

Away == "BOUND_NON_HOME"
AtHome == "BOUND_HOME"
Pending == "SWITCH_PENDING"
States == {"UNBOUND", "BOUND_HOME", "SWITCH_PENDING", "BOUND_NON_HOME", "BIND_FAILED"}

\* The state agrees with the bindings.
Agrees ==
  /\ state = Away => binding = pending /\ home \in Homes
  /\ state \in {AtHome, Pending} => binding = home /\ home \in Homes

\* The steps before which it does, and that need no more.
Plain == {"before bind", "set binding", "read binding", "write file", "after bind", "before unbind",
          "test timer", "cancel timer", "drop timer", "drop binding", "after unbind", "remove file",
          "if home", "if pending", "if away", "new timer", "start timer"}

\* What a thread that comes to a step finds, with what it has read.
Pre(op, h) ==
  /\ op \in Plain => Agrees
  /\ op = "set home" => binding \in Homes
  /\ op = "to home" => binding = home /\ home \in Homes
  /\ op = "if has home" => Agrees /\ state = Away
  /\ op = "read home" => Agrees /\ state \in {Away, Pending}
  /\ op \in {"write home", "restore"} => h = home /\ home \in Homes
  /\ op = "remember target" => Agrees /\ state = AtHome
  /\ op = "to pending" => Agrees /\ state = AtHome /\ pending \in Targets
  /\ op \in {"keep home", "bind target"} => Agrees /\ state = Pending
  /\ op = "to away" => binding = pending /\ home \in Homes

\* The steps that change neither the bindings nor, unless a hook raises, the state.
Tests == {"if home", "if away", "if pending", "if has home"}
Hooks == {"before bind", "after bind", "before unbind", "after unbind"}
Marks == {"to home", "to away", "to pending", "to unbound"}
Still == Hooks \cup Tests \cup Saves \cup Clearing \cup Arming \cup {"remove file"}
Kept == binding' = binding /\ home' = home /\ pending' = pending

\* What a step of a thread does to what they share, and to what it has read.
Does(t, op) ==
  /\ op \in Still => Kept /\ state' \in {state, "BIND_FAILED"}
  /\ op \notin Hooks \cup Marks => state' = state
  /\ op = "to home" => Kept /\ state' = AtHome
  /\ op = "to away" => Kept /\ state' = Away
  /\ op = "to pending" => Kept /\ state' = Pending
  /\ op = "to unbound" => Kept /\ state' = "UNBOUND"
  /\ op \in {"read home"} => Kept /\ state' = state /\ held'[t] = home
  /\ op = "set binding" => binding' \in Homes
  /\ op = "set home" => home' = binding /\ binding' = binding
  /\ op = "keep home" => /\ state' = state /\ binding' = binding /\ pending' = pending
                         /\ home' = IF home = NoTree THEN binding ELSE home
  /\ op = "remember target" => state' = state /\ binding' = binding /\ home' = home /\ pending' \in Targets
  /\ op = "bind target" => binding' = pending /\ pending' = pending /\ home' = home
  /\ op = "write home" => binding' = held[t] /\ home' = home
  /\ op = "restore" => home' = home /\ binding' = IF held[t] = NoTree THEN binding ELSE held[t]
  /\ op \in {"drop binding", "drop home"} => state' = state
  /\ op \notin {"read home", "read binding"} => held' = held

\* What the class keeps of the file, the timers, and the history.
LEMMA Done ==
  ASSUME held \in [Threads -> Trees], NEW t \in Threads, Step(t)
  PROVE  /\ todo[t] # <<>> /\ Head(todo[t]) \in Ops /\ Does(t, Head(todo[t]))
         /\ \A u \in Threads : u # t => held'[u] = held[u]
<1>1. PICK op : op = Head(todo[t])
  OBVIOUS
<1> DEFINE Result == /\ todo[t] # <<>> /\ op \in Ops /\ Does(t, op)
                     /\ \A u \in Threads : u # t => held'[u] = held[u]
<1>2. CASE Control(t)
  <2>1. Kept /\ held' = held
    BY <1>2 DEF Control, Kept
  <2>2. CASE Hook(t)
    <3>1. todo[t] # <<>> /\ op \in Hooks /\ state' \in {state, "BIND_FAILED"}
      BY <1>1, <2>2 DEF Hook, At, Hooks
    <3>2. op \in Ops /\ op \in Still
      BY <3>1 DEF Ops, Harmless, Still, Hooks
    <3>3. Does(t, op)
      BY <2>1, <3>1, <3>2 DEF Does, Hooks
    <3> QED BY <1>1, <2>1, <3>1, <3>2, <3>3
  <2>3. CASE Test(t)
    <3>1. todo[t] # <<>> /\ op \in Tests /\ state' = state
      BY <1>1, <2>3 DEF Test, At, Tests
    <3>2. op \in Ops /\ op \in Still
      BY <3>1 DEF Ops, Harmless, Still, Tests
    <3>3. Does(t, op)
      BY <2>1, <3>1, <3>2 DEF Does, Tests
    <3> QED BY <1>1, <2>1, <3>1, <3>2, <3>3
  <2>4. CASE SetState(t)
    <3>1. /\ todo[t] # <<>>
          /\ \/ op = "to home" /\ state' = AtHome
             \/ op = "to away" /\ state' = Away
             \/ op = "to pending" /\ state' = Pending
             \/ op = "to unbound" /\ state' = "UNBOUND"
      BY <1>1, <2>4 DEF SetState, At, AtHome, Away, Pending
    <3>2. op \in Ops /\ op \notin Still /\ op \in Marks
      BY <3>1 DEF Ops, Harmless, Still, Hooks, Tests, Saves, Clearing, Arming, Marks
    <3>3. Does(t, op)
      BY <2>1, <3>1, <3>2 DEF Does
    <3> QED BY <1>1, <2>1, <3>1, <3>2, <3>3
  <2> QED BY <1>2, <2>2, <2>3, <2>4 DEF Control
<1>3. CASE SetBinding(t)
  <2>1. /\ todo[t] # <<>> /\ state' = state
        /\ op \in {"set binding", "set home", "keep home", "remember target", "bind target", "read home",
                   "write home", "restore", "drop binding", "drop home"}
    BY <1>1, <1>3 DEF SetBinding, At
  <2>2. op \in Ops /\ op \notin Still
    BY <2>1 DEF Ops, Harmless, Still, Hooks, Tests, Saves, Clearing, Arming
  <2>3. /\ op = "set binding" => binding' \in Homes
        /\ op = "set home" => home' = binding /\ binding' = binding
        /\ op = "keep home" => /\ binding' = binding /\ pending' = pending
                               /\ home' = IF home = NoTree THEN binding ELSE home
        /\ op = "remember target" => binding' = binding /\ home' = home /\ pending' \in Targets
        /\ op = "bind target" => binding' = pending /\ pending' = pending /\ home' = home
    BY <1>1, <1>3 DEF SetBinding, At
  <2>4. /\ op = "write home" => binding' = held[t] /\ home' = home
        /\ op = "restore" => home' = home /\ binding' = IF held[t] = NoTree THEN binding ELSE held[t]
        /\ op = "read home" => Kept /\ held' = [held EXCEPT ![t] = home]
        /\ op # "read home" => held' = held
    BY <1>1, <1>3 DEF SetBinding, At, Kept
  <2>5. /\ op = "read home" => held'[t] = home
        /\ \A u \in Threads : u # t => held'[u] = held[u]
    BY <2>4
  <2>6. Does(t, op)
    BY <2>1, <2>2, <2>3, <2>4, <2>5 DEF Does
  <2> QED BY <1>1, <2>1, <2>2, <2>5, <2>6
<1>4. CASE SaveStep(t)
  <2>1. Kept /\ state' = state
    BY <1>4 DEF SaveStep, Kept
  <2>2. todo[t] # <<>> /\ op \in Saves \cup {"remove file"}
    BY <1>1, <1>4 DEF SaveStep, Saving, At, Saves
  <2>3. op \in Ops /\ op \in Still
    BY <2>2 DEF Ops, Harmless, Still, Saves
  <2>4. IF op = "read binding" THEN held' = [held EXCEPT ![t] = binding] ELSE held' = held
    BY <1>1, <1>4 DEF SaveStep, Saving, At
  <2>5. \A u \in Threads : u # t => held'[u] = held[u]
    BY <2>4
  <2>6. Does(t, op)
    BY <2>1, <2>2, <2>3, <2>4 DEF Does, Saves
  <2> QED BY <1>1, <2>2, <2>3, <2>5, <2>6
<1>5. CASE TimerStep(t)
  <2>1. Kept /\ state' = state /\ held' = held
    BY <1>5 DEF TimerStep, Kept
  <2>2. todo[t] # <<>> /\ op \in Clearing \cup Arming
    BY <1>1, <1>5 DEF TimerStep, At, Clearing, Arming
  <2>3. op \in Ops /\ op \in Still
    BY <2>2 DEF Ops, Harmless, Approving, Still, Clearing, Arming
  <2>4. Does(t, op)
    BY <2>1, <2>2, <2>3 DEF Does, Clearing, Arming
  <2> QED BY <1>1, <2>1, <2>2, <2>3, <2>4
<1> QED BY <1>1, <1>2, <1>3, <1>4, <1>5 DEF Step

\* A thread that goes on finds at its next step what that step needs.
LEMMA Onward ==
  ASSUME NEW t \in Threads, NEW op \in Ops, NEW nx \in Ops, <<op, nx>> \in Follows,
         Pre(op, held[t]), Does(t, op), op \in Tests => Passes(op), NoTree \notin Homes
  PROVE  Pre(nx, held[t])'
<1> USE DEF Away, AtHome, Pending
<1>1. CASE op \in Still \ Tests
  <2>1. nx \in Plain
    BY <1>1 DEF Follows, Still, Hooks, Tests, Saves, Clearing, Arming, Plain
  <2>2. op \in Plain
    BY <1>1 DEF Still, Hooks, Tests, Saves, Clearing, Arming, Plain
  <2>3. Agrees /\ Kept /\ state' \in {state, "BIND_FAILED"}
    BY <1>1, <2>2 DEF Pre, Does
  <2>4. Agrees'
    BY <2>3 DEF Agrees, Kept
  <2> QED BY <2>1, <2>4 DEF Pre, Plain
<1>2. CASE op = "set binding"
  <2>1. nx = "set home"
    BY <1>2 DEF Follows
  <2> QED BY <1>2, <2>1 DEF Pre, Does, Plain
<1>3. CASE op = "set home"
  <2>1. nx = "to home"
    BY <1>3 DEF Follows
  <2> QED BY <1>3, <2>1 DEF Pre, Does, Plain
<1>4. CASE op = "to home"
  <2>1. nx = "read binding"
    BY <1>4 DEF Follows
  <2>2. Agrees'
    BY <1>4 DEF Pre, Does, Agrees, Kept
  <2> QED BY <2>1, <2>2 DEF Pre, Plain
<1>5. CASE op = "to unbound"
  <2>1. nx \in {"read binding", "remove file"}
    BY <1>5 DEF Follows
  <2>2. Agrees'
    BY <1>5 DEF Does, Agrees
  <2> QED BY <2>1, <2>2 DEF Pre, Plain
<1>6. CASE op \in {"drop binding", "drop home"}
  <2>1. nx \in {"drop home", "to unbound"}
    BY <1>6 DEF Follows
  <2> QED BY <2>1 DEF Pre, Plain
<1>7. CASE op = "if home"
  <2>1. nx = "remember target"
    BY <1>7 DEF Follows
  <2>2. Agrees /\ state = AtHome /\ Kept /\ state' = state
    <3>1. op \in Still /\ op \notin Hooks \cup Marks /\ op \in Tests
      BY <1>7 DEF Still, Tests, Hooks, Marks
    <3>2. Agrees /\ state = AtHome
      BY <1>7, <3>1 DEF Pre, Plain, Passes
    <3> QED BY <3>1, <3>2 DEF Does
  <2>3. Agrees' /\ state' = AtHome
    BY <2>2 DEF Agrees, Kept
  <2> QED BY <2>1, <2>3 DEF Pre, Plain
<1>8. CASE op = "remember target"
  <2>1. nx = "to pending"
    BY <1>8 DEF Follows
  <2>2. Agrees /\ state = AtHome /\ pending' \in Targets /\ state' = state /\ binding' = binding /\ home' = home
    BY <1>8 DEF Pre, Does
  <2>3. Agrees' /\ state' = AtHome
    BY <2>2 DEF Agrees
  <2> QED BY <2>1, <2>2, <2>3 DEF Pre, Plain
<1>9. CASE op = "if pending"
  <2>1. nx \in {"keep home", "read home"}
    BY <1>9 DEF Follows
  <2>2. Agrees /\ state = Pending /\ Kept /\ state' = state
    <3>1. op \in Still /\ op \notin Hooks \cup Marks /\ op \in Tests
      BY <1>9 DEF Still, Tests, Hooks, Marks
    <3>2. Agrees /\ state = Pending
      BY <1>9, <3>1 DEF Pre, Plain, Passes
    <3> QED BY <3>1, <3>2 DEF Does
  <2>3. Agrees' /\ state' = Pending
    BY <2>2 DEF Agrees, Kept
  <2> QED BY <2>1, <2>3 DEF Pre, Plain
<1>10. CASE op = "keep home"
  <2>1. nx = "bind target"
    BY <1>10 DEF Follows
  <2>2. /\ Agrees /\ state = Pending /\ state' = state /\ binding' = binding /\ pending' = pending
        /\ home' = IF home = NoTree THEN binding ELSE home
    BY <1>10 DEF Pre, Does
  <2>3. Agrees' /\ state' = Pending
    BY <2>2 DEF Agrees
  <2> QED BY <2>1, <2>3 DEF Pre, Plain
<1>11. CASE op = "bind target"
  <2>1. nx = "to away"
    BY <1>11 DEF Follows
  <2>2. Agrees /\ state = Pending /\ binding' = pending /\ pending' = pending /\ home' = home
    BY <1>11 DEF Pre, Does
  <2>3. binding' = pending' /\ home' \in Homes
    BY <2>2 DEF Agrees
  <2> QED BY <2>1, <2>3 DEF Pre, Plain
<1>12. CASE op = "to away"
  <2>1. nx = "read binding"
    BY <1>12 DEF Follows
  <2>2. Agrees'
    BY <1>12 DEF Pre, Does, Agrees, Kept
  <2> QED BY <2>1, <2>2 DEF Pre, Plain
<1>13. CASE op \in {"if away", "if has home"}
  <2>1. nx \in {"if has home", "read home"}
    BY <1>13 DEF Follows
  <2>2. Agrees /\ state = Away /\ Kept /\ state' = state
    <3>1. op \in Still /\ op \notin Hooks \cup Marks /\ op \in Tests
      BY <1>13 DEF Still, Tests, Hooks, Marks
    <3>2. Agrees /\ state = Away
      BY <1>13, <3>1 DEF Pre, Plain, Passes
    <3> QED BY <3>1, <3>2 DEF Does
  <2>3. Agrees' /\ state' = Away
    BY <2>2 DEF Agrees, Kept
  <2> QED BY <2>1, <2>3 DEF Pre, Plain
<1>14. CASE op = "read home"
  <2>1. nx \in {"restore", "write home"}
    BY <1>14 DEF Follows
  <2>2. Agrees /\ state \in {Away, Pending} /\ Kept /\ held'[t] = home
    BY <1>14 DEF Pre, Does
  <2>3. held'[t] = home' /\ home' \in Homes
    BY <2>2 DEF Agrees, Kept
  <2> QED BY <2>1, <2>3 DEF Pre, Plain
<1>15. CASE op \in {"write home", "restore"}
  <2>1. nx = "to home"
    BY <1>15 DEF Follows
  <2>2. /\ held[t] = home /\ home \in Homes /\ home' = home
        /\ binding' = IF op = "restore" /\ held[t] = NoTree THEN binding ELSE held[t]
    BY <1>15 DEF Pre, Does
  <2>3. binding' = home' /\ home' \in Homes
    BY <2>2
  <2> QED BY <2>1, <2>3 DEF Pre, Plain
<1>16. \/ op \in Still \ Tests \/ op = "set binding" \/ op = "set home" \/ op = "to home"
       \/ op = "to unbound" \/ op \in {"drop binding", "drop home"} \/ op = "if home"
       \/ op = "remember target" \/ op = "if pending" \/ op = "keep home" \/ op = "bind target"
       \/ op = "to away" \/ op \in {"if away", "if has home"} \/ op = "read home"
       \/ op \in {"write home", "restore"} \/ op = "to pending"
  BY DEF Ops, Harmless, Approving, Still, Tests, Hooks, Saves, Clearing, Arming, Switching
<1>17. op # "to pending"
  BY DEF Follows
<1> QED BY <1>1, <1>2, <1>3, <1>4, <1>5, <1>6, <1>7, <1>8, <1>9, <1>10, <1>11, <1>12, <1>13, <1>14,
           <1>15, <1>16, <1>17

\* A thread whose method ends leaves the state and the bindings in agreement.
LEMMA Ended ==
  ASSUME NEW t \in Threads, NEW op \in Ends \cup Hooks \cup Tests \cup Clearing, Pre(op, held[t]), Does(t, op)
  PROVE  Agrees'
<1> USE DEF Away, AtHome, Pending
<1>1. CASE op = "to pending"
  <2>1. Agrees /\ state = AtHome /\ Kept /\ state' = Pending
    BY <1>1 DEF Pre, Does
  <2> QED BY <2>1 DEF Agrees, Kept
<1>2. CASE op # "to pending"
  <2>1. op \in Still /\ op \in Plain \cup {"if has home"}
    BY <1>2 DEF Ends, Still, Plain, Hooks, Tests, Saves, Clearing, Arming
  <2>2. Agrees /\ Kept /\ state' \in {state, "BIND_FAILED"}
    BY <2>1 DEF Pre, Does
  <2> QED BY <2>2 DEF Agrees, Kept
<1> QED BY <1>1, <1>2

(* How the threads go on *)

\* A thread returns, goes on with its next step, or passes over a timer that is not there.
Returns(t, r) == r = <<>> /\ Head(todo[t]) \in Hooks \cup Tests \cup Clearing
Proceeds(t, r) == r = Tail(todo[t]) /\ (Head(todo[t]) \in Tests => Passes(Head(todo[t])))
Skips(t, r) == r = SubSeq(todo[t], 4, Len(todo[t])) /\ Head(todo[t]) = OpTest

\* Every step does one of these.
LEMMA Turns ==
  ASSUME NEW t \in Threads, Step(t)
  PROVE  \E r : todo' = [todo EXCEPT ![t] = r] /\ (Returns(t, r) \/ Proceeds(t, r) \/ Skips(t, r))
<1>1. PICK op : op = Head(todo[t])
  OBVIOUS
<1>2. CASE Return(t) /\ op \in Hooks \cup Tests \cup Clearing
  BY <1>1, <1>2 DEF Return, Goto, Returns
<1>3. CASE Proceed(t) /\ (op \in Tests => Passes(op))
  BY <1>1, <1>3 DEF Proceed, Goto, Proceeds
<1>4. CASE Goto(t, SubSeq(todo[t], 4, Len(todo[t]))) /\ op = "test timer"
  BY <1>1, <1>4 DEF Goto, Skips, OpTest
<1>5. \/ Return(t) /\ op \in Hooks \cup Tests \cup Clearing
      \/ Proceed(t) /\ (op \in Tests => Passes(op))
      \/ Goto(t, SubSeq(todo[t], 4, Len(todo[t]))) /\ op = "test timer"
  <2>1. CASE Hook(t)
    BY <1>1, <2>1 DEF Hook, At, Hooks, Tests
  <2>2. CASE Test(t)
    BY <1>1, <2>2 DEF Test, At, Tests
  <2>3. CASE SetState(t)
    BY <1>1, <2>3 DEF SetState, At, Tests
  <2>4. CASE SetBinding(t)
    BY <1>1, <2>4 DEF SetBinding, At, Tests
  <2>5. CASE SaveStep(t)
    BY <1>1, <2>5 DEF SaveStep, Saving, At, Tests
  <2>6. CASE TimerStep(t)
    <3>1. op \in Clearing \cup Arming /\ op \notin Tests
      BY <1>1, <2>6 DEF TimerStep, At, Clearing, Arming, Tests
    <3>2. \/ Return(t) /\ op = "cancel timer"
          \/ Proceed(t)
          \/ Goto(t, SubSeq(todo[t], 4, Len(todo[t]))) /\ op = "test timer"
      BY <1>1, <2>6 DEF TimerStep, At
    <3> QED BY <3>1, <3>2 DEF Clearing
  <2> QED BY <2>1, <2>2, <2>3, <2>4, <2>5, <2>6 DEF Step, Control
<1> QED BY <1>2, <1>3, <1>4, <1>5

\* What each thread has still to do: steps of the class in their order, to the end of a method.
TodoInv ==
  /\ todo \in [Threads -> Seq(Ops)]
  /\ \A t \in Threads : Flows(todo[t]) /\ Len(todo[t]) <= 17 /\ EndsWell(todo[t])
  /\ \A k \in Timers : Reverts(todo[k]) /\ (todo[k] # <<>> => clock[k] = "fired")
  /\ todo[Main] \in Seq(Harmless) \/ Arms(todo[Main])

\* What a thread needs before it goes on.
Ready(t) == IF todo[t] = <<>> THEN Agrees ELSE Pre(Head(todo[t]), held[t])

\* What is left after a step.
LEMMA StepRest ==
  ASSUME TodoInv, NEW t \in Threads, todo[t] # <<>>, NEW r, todo' = [todo EXCEPT ![t] = r],
         Returns(t, r) \/ Proceeds(t, r) \/ Skips(t, r)
  PROVE  r \in Seq(Ops) /\ todo'[t] = r /\ \E prev : RestOf(todo[t], r, prev)
<1>1. todo[t] \in Seq(Ops) /\ Flows(todo[t]) /\ todo'[t] = r
  BY DEF TodoInv
<1>2. CASE Returns(t, r)
  <2>1. r = <<>> /\ r \in Seq(Ops)
    BY <1>2 DEF Returns
  <2> QED BY <1>1, <2>1 DEF RestOf
<1>3. CASE Proceeds(t, r)
  <2>1. r \in Seq(Ops) /\ RestOf(todo[t], r, Head(todo[t]))
    BY <1>1, <1>3, RestOne DEF Proceeds
  <2> QED BY <1>1, <2>1
<1>4. CASE Skips(t, r)
  <2>1. r \in Seq(Ops) /\ RestOf(todo[t], r, OpDrop)
    BY <1>1, <1>4, RestThree DEF Skips
  <2> QED BY <1>1, <2>1
<1> QED BY <1>2, <1>3, <1>4

\* A thread that is ready is ready after its step.
LEMMA StepReady ==
  ASSUME held \in [Threads -> Trees], TodoInv, NEW t \in Threads, Step(t), Ready(t)
  PROVE  Ready(t)'
<1>1. PICK op : op = Head(todo[t])
  OBVIOUS
<1>2. todo[t] # <<>> /\ op \in Ops /\ Does(t, op)
  BY <1>1, Done
<1>3. Pre(op, held[t])
  BY <1>1, <1>2 DEF Ready
<1>4. PICK r : todo' = [todo EXCEPT ![t] = r] /\ (Returns(t, r) \/ Proceeds(t, r) \/ Skips(t, r))
  BY Turns
<1>5. todo'[t] = r /\ r \in Seq(Ops)
  BY <1>2, <1>4, StepRest
<1>6. todo[t] \in Seq(Ops) /\ Flows(todo[t]) /\ EndsWell(todo[t]) /\ NoTree \notin Homes
  BY WorktreeAssumption DEF TodoInv
<1>7. ASSUME r = <<>>, Agrees' PROVE Ready(t)'
  BY <1>5, <1>7 DEF Ready
<1>8. ASSUME r # <<>>, Pre(r[1], held[t])' PROVE Ready(t)'
  <2>1. todo'[t] # <<>> /\ Head(todo'[t]) = r[1]
    BY <1>5, <1>8
  <2> QED BY <1>8, <2>1 DEF Ready, Pre
<1>9. r # <<>> => r[1] \in Ops
  BY <1>5
<1>10. CASE Returns(t, r)
  <2>1. r = <<>> /\ op \in Hooks \cup Tests \cup Clearing
    BY <1>1, <1>10 DEF Returns
  <2>2. Agrees'
    BY <1>2, <1>3, <2>1, Ended
  <2> QED BY <1>7, <2>1, <2>2
<1>11. CASE Proceeds(t, r)
  <2>1. RestOf(todo[t], r, op) /\ r = Tail(todo[t]) /\ (op \in Tests => Passes(op))
    BY <1>1, <1>2, <1>6, <1>11, RestOne DEF Proceeds
  <2>2. CASE r = <<>>
    <3>1. Len(todo[t]) = 1
      <4>1. Len(Tail(todo[t])) = Len(todo[t]) - 1
        BY <1>2, <1>6, HeadTailProperties
      <4>2. Len(r) = 0
        BY <2>2
      <4>3. Len(r) = Len(todo[t]) - 1 /\ Len(todo[t]) \in Nat
        BY <1>6, <2>1, <4>1
      <4> QED BY <4>2, <4>3
    <3>2. op \in Ends
      BY <1>1, <1>2, <1>6, <3>1 DEF EndsWell
    <3>3. Agrees'
      BY <1>2, <1>3, <3>2, Ended
    <3> QED BY <1>7, <2>2, <3>3
  <2>3. CASE r # <<>>
    <3>1. <<op, r[1]>> \in Follows
      BY <2>1, <2>3 DEF RestOf
    <3>2. Pre(r[1], held[t])'
      <4>1. PICK nx \in Ops : nx = r[1]
        BY <1>9, <2>3
      <4>2. Pre(nx, held[t])'
        BY <1>2, <1>3, <1>6, <2>1, <3>1, <4>1, Onward
      <4> QED BY <4>1, <4>2 DEF Pre
    <3> QED BY <1>8, <2>3, <3>2
  <2> QED BY <2>2, <2>3
<1>12. CASE Skips(t, r)
  <2>1. RestOf(todo[t], r, OpDrop) /\ op = OpTest
    BY <1>1, <1>2, <1>6, <1>12, RestThree DEF Skips
  <2>2. Agrees'
    <3>1. op \in Ends \cup Hooks \cup Tests \cup Clearing
      BY <2>1 DEF Clearing, OpTest
    <3> QED BY <1>2, <1>3, <3>1, Ended
  <2>3. CASE r # <<>>
    <3>1. PICK nx : nx = r[1]
      OBVIOUS
    <3>2. <<OpDrop, nx>> \in Follows
      BY <2>1, <2>3, <3>1 DEF RestOf
    <3>3. nx \in {"drop binding", "new timer", "if away"}
      BY <3>2 DEF Follows, OpDrop
    <3>4. Pre(nx, held[t])'
      BY <2>2, <3>3 DEF Pre, Plain
    <3>5. Pre(r[1], held[t])'
      BY <3>1, <3>4 DEF Pre
    <3> QED BY <1>8, <2>3, <3>5
  <2> QED BY <1>7, <2>2, <2>3
<1> QED BY <1>4, <1>10, <1>11, <1>12

\* What is left stays in order.
LEMMA TodoStep ==
  ASSUME TodoInv, NEW t \in Threads, todo[t] # <<>>, NEW r \in Seq(Ops), NEW prev, RestOf(todo[t], r, prev),
         todo' = [todo EXCEPT ![t] = r], \A k \in Timers : clock[k] = "fired" => clock'[k] = "fired"
  PROVE  TodoInv'
<1>1. todo[t] \in Seq(Ops) /\ Flows(todo[t]) /\ Len(todo[t]) <= 17 /\ EndsWell(todo[t])
  BY DEF TodoInv
<1>2. /\ Flows(r) /\ Len(r) <= Len(todo[t])
      /\ todo[t] \in Seq(Harmless) => r \in Seq(Harmless)
      /\ Arms(todo[t]) => r = <<>> \/ Arms(r)
      /\ Reverts(todo[t]) => Reverts(r)
      /\ EndsWell(todo[t]) => EndsWell(r)
  BY <1>1, RestKeeps
<1>3. Len(r) <= 17
  BY <1>1, <1>2
<1>4. /\ todo'[t] = r /\ \A u \in Threads : u # t => todo'[u] = todo[u]
      /\ todo' \in [Threads -> Seq(Ops)]
  BY DEF TodoInv
<1>5. ASSUME NEW u \in Threads PROVE Flows(todo'[u]) /\ Len(todo'[u]) <= 17 /\ EndsWell(todo'[u])
  BY <1>1, <1>2, <1>3, <1>4 DEF TodoInv
<1>6. ASSUME NEW k \in Timers PROVE Reverts(todo'[k]) /\ (todo'[k] # <<>> => clock'[k] = "fired")
  <2>1. k \in Threads /\ Reverts(todo[k]) /\ (todo[k] # <<>> => clock[k] = "fired")
    BY DEF Threads, TodoInv
  <2> QED BY <1>2, <1>4, <2>1
<1>7. todo'[Main] \in Seq(Harmless) \/ Arms(todo'[Main])
  <2>1. Main \in Threads /\ <<>> \in Seq(Harmless)
    BY DEF Threads
  <2>2. todo[Main] \in Seq(Harmless) \/ Arms(todo[Main])
    BY DEF TodoInv
  <2> QED BY <1>2, <1>4, <2>1, <2>2
<1>8. /\ \A u \in Threads : Flows(todo'[u]) /\ Len(todo'[u]) <= 17 /\ EndsWell(todo'[u])
      /\ \A k \in Timers : Reverts(todo'[k]) /\ (todo'[k] # <<>> => clock'[k] = "fired")
  BY <1>5, <1>6
<1> HIDE DEF Flows, EndsWell, Reverts, Arms
<1> QED BY <1>4, <1>7, <1>8 DEF TodoInv

Clocks == {"unused", "new", "armed", "cancelled", "fired"}

\* The values of what the threads share.
TypeInv ==
  /\ binding \in Trees /\ home \in Trees /\ disk \in Trees /\ pending \in Trees
  /\ held \in [Threads -> Trees] /\ state \in States /\ clock \in [Timers -> Clocks]
  /\ timer \in Timers \cup {NoTimer} /\ crashes \in 0..MaxCrashes /\ freed \in BOOLEAN
  /\ state = Pending => pending # NoTree
  /\ timer # NoTimer => clock[timer] # "unused"

\* What a step makes of the timers.
Ticks(t, op) ==
  /\ \A k \in Timers :
       /\ clock'[k] = "armed" =>
            clock[k] = "armed" \/ (op = OpStart /\ k = timer /\ clock[k] = "new")
       /\ clock[k] = "fired" => clock'[k] = "fired"
       /\ clock[k] = "unused" /\ op # OpNew => clock'[k] = "unused"
  /\ op \in Saves => clock' = clock

\* No timer is NoTimer.
LEMMA NoTimerZero == 0 \notin Timers
<1>1. MaxTimers \in Nat
  BY WorktreeAssumption
<1> QED BY <1>1 DEF Timers

\* A step keeps the values.
LEMMA ValuesStep ==
  ASSUME TypeInv, NEW t \in Threads, Step(t),
         Head(todo[t]) = "to pending" => pending \in Targets,
         Head(todo[t]) = OpNew => \E k \in Timers : clock[k] = "unused"
  PROVE  TypeInv' /\ Ticks(t, Head(todo[t]))
<1>1. PICK op : op = Head(todo[t])
  OBVIOUS
<1>2. Homes \subseteq Trees /\ Targets \subseteq Trees /\ NoTree \in Trees /\ NoTree \notin Targets /\ 0 \notin Timers
  <2>1. NoTree \notin Targets
    BY WorktreeAssumption
  <2>2. 0 \notin Timers
    BY NoTimerZero
  <2>3. Homes \subseteq Trees /\ Targets \subseteq Trees /\ NoTree \in Trees
    BY DEF Trees
  <2> QED BY <2>1, <2>2, <2>3
<1>3. CASE Control(t)
  <2>1. UNCHANGED <<binding, home, timer, disk, pending, clock, held, crashes>>
    BY <1>3 DEF Control
  <2>2. /\ state' \in States /\ freed' \in BOOLEAN /\ (state' = Pending => pending # NoTree)
    <3>1. CASE Hook(t)
      BY <3>1 DEF Hook, TypeInv, States, Pending
    <3>2. CASE Test(t)
      BY <3>2 DEF Test, TypeInv
    <3>3. CASE SetState(t)
      BY <1>2, <3>3 DEF SetState, At, TypeInv, States, Pending
    <3> QED BY <1>3, <3>1, <3>2, <3>3 DEF Control
  <2>3. Ticks(t, op)
    BY <2>1 DEF Ticks
  <2> QED BY <1>1, <2>1, <2>2, <2>3 DEF TypeInv
<1>4. CASE SetBinding(t)
  <2>1. UNCHANGED <<state, timer, disk, clock, freed, crashes>>
    BY <1>4 DEF SetBinding
  <2>2. held[t] \in Trees
    BY DEF TypeInv
  <2>3. binding' \in Trees /\ home' \in Trees /\ pending' \in Trees /\ held' \in [Threads -> Trees]
    BY <1>2, <1>4, <2>2 DEF SetBinding, TypeInv
  <2>4. pending # NoTree => pending' # NoTree
    BY <1>2, <1>4 DEF SetBinding
  <2>5. Ticks(t, op)
    BY <2>1 DEF Ticks
  <2> QED BY <1>1, <2>1, <2>3, <2>4, <2>5 DEF TypeInv
<1>5. CASE SaveStep(t)
  <2>1. UNCHANGED <<binding, home, state, timer, pending, clock, crashes>>
    BY <1>5 DEF SaveStep
  <2>2. SaveOutcomes(t) \subseteq Trees
    BY <1>2 DEF SaveOutcomes, TypeInv
  <2>3. disk' \in Trees /\ held' \in [Threads -> Trees] /\ freed' \in BOOLEAN
    BY <1>2, <1>5, <2>2 DEF SaveStep, TypeInv
  <2>4. Ticks(t, op)
    BY <2>1 DEF Ticks
  <2> QED BY <1>1, <2>1, <2>3, <2>4 DEF TypeInv
<1>6. CASE TimerStep(t)
  <2>1. UNCHANGED <<binding, home, state, disk, pending, held, freed, crashes>>
    BY <1>6 DEF TimerStep
  <2>2. op \in Clearing \cup Arming /\ op \notin Saves
    BY <1>1, <1>6 DEF TimerStep, At, Clearing, Arming, Saves
  <2>3. clock \in [Timers -> Clocks] /\ timer \in Timers \cup {0} /\ (timer # 0 => clock[timer] # "unused")
    BY DEF TypeInv, NoTimer
  <2>4. CASE op = OpNew
    <3>1. timer' = CHOOSE k \in Timers : clock[k] = "unused"
      BY <1>1, <1>6, <2>4 DEF TimerStep, At, OpNew
    <3>2. timer' \in Timers /\ clock[timer'] = "unused"
      BY <1>1, <2>4, <3>1
    <3>3. clock' = [clock EXCEPT ![timer'] = "new"]
      BY <1>1, <1>6, <2>4 DEF TimerStep, At, OpNew
    <3>4. clock' \in [Timers -> Clocks] /\ clock'[timer'] = "new"
      BY <2>3, <3>2, <3>3 DEF Clocks
    <3>5. Ticks(t, op)
      BY <2>2, <2>3, <2>4, <3>2, <3>3, After DEF Ticks
    <3> QED BY <1>1, <2>1, <3>2, <3>4, <3>5 DEF TypeInv
  <2>5. CASE op # OpNew
    <3>1. timer' \in {timer, 0}
      BY <1>1, <1>6, <2>5 DEF TimerStep, At, NoTimer, OpNew, OpStart
    <3>2. \/ clock' = clock
          \/ timer # 0 /\ clock' = [clock EXCEPT ![timer] = IF clock[timer] = "fired" THEN clock[timer] ELSE "cancelled"]
          \/ /\ op = OpStart /\ timer # 0 /\ clock[timer] = "new"
             /\ clock' = [clock EXCEPT ![timer] = "armed"]
      BY <1>1, <1>6, <2>5 DEF TimerStep, At, NoTimer, OpNew, OpStart
    <3>3. clock' \in [Timers -> Clocks] /\ (timer # 0 => clock'[timer] # "unused")
      BY <2>3, <3>2 DEF Clocks
    <3>4. Ticks(t, op)
      BY <2>2, <2>3, <3>2 DEF Ticks
    <3> QED BY <1>1, <2>1, <2>3, <3>1, <3>3, <3>4 DEF TypeInv, NoTimer
  <2> QED BY <2>4, <2>5
<1> QED BY <1>3, <1>4, <1>5, <1>6 DEF Step

\* A thread is as ready as it was when nothing it looks at has changed.
LEMMA SameReady ==
  ASSUME NEW t \in Threads, todo'[t] = todo[t], held'[t] = held[t],
         binding' = binding, home' = home, state' = state, pending' = pending
  PROVE  Ready(t)' <=> Ready(t)
BY DEF Ready, Pre, Agrees

(* The timer that may take the agent back *)

\* A timer that runs, or whose thread has not yet said that the agent is home.
Live(k) == clock[k] = "armed" \/ Len(todo[k]) > 2

\* The agent's thread does nothing but ask meanwhile.
Asking == {"if home", "if pending"}
Waits == todo[Main] = <<>> \/ Head(todo[Main]) \in Asking

\* One timer is live at most. The agent is away then, and only the timer's thread changes that;
\* otherwise only the agent's does.
CtlInv ==
  /\ \A j, k \in Timers : Live(j) /\ Live(k) => j = k
  /\ \A k \in Timers : Live(k) => state = Away /\ home \in Homes /\ Ready(k) /\ Waits
  /\ (\A k \in Timers : ~Live(k)) => Ready(Main)

\* A timer is made by a method that has switched away, and there is one left to make.
Switches(q) == \E i \in 1..Len(q) : q[i] \in Switching
AwayInv ==
  Arms(todo[Main]) =>
    /\ Switches(todo[Main]) \/ state = Away
    /\ Len(todo[Main]) >= 2 => \E k \in Timers : clock[k] = "unused"

WorkInv == TypeInv /\ TodoInv /\ CtlInv /\ AwayInv

\* What needs no agreement: a method that makes a timer finds one to make, and a request
\* has its target when it says that it is pending. It holds whatever the agent calls.
Spared == Arms(todo[Main]) /\ Len(todo[Main]) >= 2 => \E k \in Timers : clock[k] = "unused"
Targeting == todo[Main] # <<>> /\ Head(todo[Main]) = "to pending" => pending \in Targets
ValuesInv == TypeInv /\ TodoInv /\ Spared /\ Targeting /\ raced \in BOOLEAN

\* The whole of it: the agreement holds until a method races with a timer.
SafeInv == ValuesInv /\ (~raced => WorkInv)

\* A method that has ended, or not begun.
LEMMA Idle ==
  /\ <<>> \in Seq(Ops) /\ <<>> \in Seq(Harmless) /\ Len(<<>>) = 0
  /\ Flows(<<>>) /\ EndsWell(<<>>) /\ Reverts(<<>>) /\ ~Arms(<<>>)
BY DEF Flows, EndsWell, Reverts, Arms

\* A method's next step.
LEMMA First ==
  ASSUME NEW S, NEW q \in Seq(S), q # <<>>
  PROVE  Head(q) = q[1]
OBVIOUS

\* A method with ten steps to do, with several, and with any.
LEMMA Long ==
  ASSUME NEW S, NEW q \in Seq(S), Len(q) = 10
  PROVE  Len(q) > 2 /\ Len(q) <= 17 /\ q # <<>> /\ Head(q) = q[1]
OBVIOUS
LEMMA Several ==
  ASSUME NEW S, NEW q \in Seq(S), Len(q) > 0, Len(q) # 1
  PROVE  Len(q) >= 2
<1>1. PICK n \in Nat : n = Len(q)
  OBVIOUS
<1>2. n > 0 /\ n # 1
  BY <1>1
<1>3. n >= 2
  BY <1>2
<1> QED BY <1>1, <1>3

\* Before a revert gives the agent its home, it has not touched state.
LEMMA Early ==
  ASSUME NEW op, NEW n \in Nat, n > 2, Reverting(op, n)
  PROVE  op \in Clearing \cup {"if away", "if has home", "read home", "write home"}
<1>1. ~(n <= 1) /\ n # 2
  OBVIOUS
<1>2. op \notin Saves /\ op # "to home"
  BY <1>1 DEF Reverting
<1> QED BY <1>2 DEF Reverting

\* The process has just begun, or begun again.
Idling == todo = [t \in Threads |-> <<>>] /\ state = "UNBOUND" /\ \A k \in Timers : clock[k] # "armed"
Controlled == TodoInv /\ CtlInv /\ AwayInv
LEMMA Starts == Idling => Controlled
<1> SUFFICES ASSUME Idling PROVE Controlled
  OBVIOUS
<1>1. Main \in Threads /\ \A k \in Timers : k \in Threads
  BY DEF Threads
<1>2. \A t \in Threads : todo[t] = <<>>
  BY DEF Idling
<1>3. todo \in [Threads -> Seq(Ops)]
  BY Idle DEF Idling
<1>4. TodoInv
  <2> HIDE DEF Flows, EndsWell, Reverts, Arms
  <2>1. \A t \in Threads : Flows(todo[t]) /\ Len(todo[t]) <= 17 /\ EndsWell(todo[t])
    BY <1>2, Idle
  <2>2. \A k \in Timers : Reverts(todo[k]) /\ todo[k] = <<>>
    BY <1>1, <1>2, Idle
  <2> QED BY <1>1, <1>2, <1>3, <2>1, <2>2, Idle DEF TodoInv
<1>5. \A k \in Timers : ~Live(k)
  BY <1>1, <1>2, Idle DEF Live, Idling
<1>6. Ready(Main)
  BY <1>1, <1>2 DEF Ready, Agrees, Away, AtHome, Pending, Idling
<1> QED BY <1>1, <1>2, <1>4, <1>5, <1>6, Idle DEF CtlInv, AwayInv, Controlled

\* The process begins.
LEMMA InitWork == Init => SafeInv
<1> SUFFICES ASSUME Init PROVE SafeInv
  OBVIOUS
<1>1. TypeInv
  <2>1. NoTree \in Trees /\ 0 \in 0..MaxCrashes
    BY WorktreeAssumption DEF Trees
  <2>2. held \in [Threads -> Trees] /\ clock \in [Timers -> Clocks]
    BY <2>1 DEF Init, Clocks
  <2>3. state \in States /\ state # Pending
    BY DEF Init, States, Pending
  <2> QED BY <2>1, <2>2, <2>3 DEF Init, TypeInv, NoTimer
<1>2. Idling
  BY DEF Init, Idling
<1>3. Controlled /\ Spared /\ Targeting
  BY <1>2, Starts, Idle DEF Idling, Spared, Targeting, Threads
<1> QED BY <1>1, <1>3 DEF Init, SafeInv, ValuesInv, WorkInv, Controlled

\* It dies and begins again.
LEMMA CrashMoves == TypeInv /\ Crash => SafeInv'
<1> SUFFICES ASSUME TypeInv, Crash PROVE SafeInv'
  OBVIOUS
<1>1. NoTree \in Trees /\ MaxCrashes \in Nat
  BY WorktreeAssumption DEF Trees
<1>2. TypeInv'
  <2>1. crashes' \in 0..MaxCrashes
    BY <1>1 DEF TypeInv, Crash
  <2>2. held' \in [Threads -> Trees] /\ clock' \in [Timers -> Clocks]
    BY <1>1 DEF Crash, Clocks
  <2>3. state' \in States /\ state' # Pending
    BY DEF Crash, States, Pending
  <2> QED BY <1>1, <2>1, <2>2, <2>3 DEF TypeInv, Crash, NoTimer
<1>3. Idling'
  BY DEF Crash, Idling
<1>4. Idling' => Controlled'
  BY Starts, PTL
<1>5. Spared' /\ Targeting'
  BY <1>3, Idle DEF Idling, Spared, Targeting, Threads
<1> QED BY <1>2, <1>3, <1>4, <1>5 DEF Crash, SafeInv, ValuesInv, WorkInv, Controlled

\* The method a call begins.
Begun(m) == IF m = "switch" /\ binding = NoTree THEN Bind ELSE Methods[m]

\* It begins with a step that needs no more than agreement, a request with a question.
LEMMA NewMethod ==
  ASSUME NEW m \in DOMAIN Methods
  PROVE  \E ops \in {Harmless, Approving}, a \in Plain, z \in Ends, n \in 1..17 :
           /\ Chain(Begun(m), a, z, n, ops) /\ (m \in Calm => a \in Asking)
           /\ ops = Approving => m = "approve" /\ a \in Switching
<1> DEFINE Good(q, a, z, n, ops) ==
      /\ Chain(q, a, z, n, ops) /\ (m \in Calm => a \in Asking)
      /\ ops = Approving => m = "approve" /\ a \in Switching
<1>0. ASSUME NEW a \in Plain, NEW z \in Ends, NEW n \in 1..17, Chain(Begun(m), a, z, n, Harmless),
             m \notin Calm \/ a \in Asking
      PROVE  \E ops \in {Harmless, Approving}, b \in Plain, e \in Ends, k \in 1..17 : Good(Begun(m), b, e, k, ops)
  <2>1. Harmless # Approving
    <3>1. "new timer" \in Approving /\ "new timer" \notin Harmless
      BY DEF Harmless, Approving, Arming
    <3> QED BY <3>1
  <2>2. Good(Begun(m), a, z, n, Harmless)
    BY <1>0, <2>1
  <2> QED BY <2>2
<1>1. CASE m = "bind" \/ (m = "switch" /\ binding = NoTree)
  <2>1. Begun(m) = Bind
    BY <1>1 DEF Begun, Methods
  <2>2. "before bind" \in Plain /\ "after bind" \in Ends /\ 7 \in 1..17 /\ m \notin Calm
    BY <1>1 DEF Plain, Ends, Calm
  <2>3. Chain(Begun(m), "before bind", "after bind", 7, Harmless)
    BY <2>1, MethodChains
  <2> QED BY <1>0, <2>2, <2>3
<1>2. CASE m = "unbind"
  <2>1. Begun(m) = Unbind
    BY <1>2 DEF Begun, Methods
  <2>2. "before unbind" \in Plain /\ "after unbind" \in Ends /\ 10 \in 1..17 /\ m \notin Calm
    BY <1>2 DEF Plain, Ends, Calm
  <2>3. Chain(Begun(m), "before unbind", "after unbind", 10, Harmless)
    BY <2>1, MethodChains
  <2> QED BY <1>0, <2>2, <2>3
<1>3. CASE m = "request"
  <2>1. Begun(m) = RequestSwitch
    BY <1>3 DEF Begun, Methods
  <2>2. "if home" \in Plain /\ "to pending" \in Ends /\ 3 \in 1..17 /\ "if home" \in Asking
    BY DEF Plain, Ends, Asking
  <2>3. Chain(Begun(m), "if home", "to pending", 3, Harmless)
    BY <2>1, MethodChains
  <2> QED BY <1>0, <2>2, <2>3
<1>4. CASE m = "approve"
  <2>1. Begun(m) = ApproveSwitch
    BY <1>4 DEF Begun, Methods
  <2>2. "if pending" \in Plain /\ "start timer" \in Ends /\ 11 \in 1..17 /\ "if pending" \in Asking
    BY DEF Plain, Ends, Asking
  <2>3. Chain(Begun(m), "if pending", "start timer", 11, Approving)
    BY <2>1, ApproveChain
  <2>4. "if pending" \in Switching
    BY DEF Switching
  <2>5. Good(Begun(m), "if pending", "start timer", 11, Approving)
    BY <1>4, <2>2, <2>3, <2>4
  <2> QED BY <2>2, <2>5
<1>5. CASE m = "forever"
  <2>1. Begun(m) = ApproveForever
    BY <1>5 DEF Begun, Methods
  <2>2. "if pending" \in Plain /\ "drop timer" \in Ends /\ 9 \in 1..17 /\ "if pending" \in Asking
    BY DEF Plain, Ends, Asking
  <2>3. Chain(Begun(m), "if pending", "drop timer", 9, Harmless)
    BY <2>1, MethodChains
  <2> QED BY <1>0, <2>2, <2>3
<1>6. CASE m = "reject"
  <2>1. Begun(m) = RejectSwitch
    BY <1>6 DEF Begun, Methods
  <2>2. "if pending" \in Plain /\ "write file" \in Ends /\ 6 \in 1..17 /\ "if pending" \in Asking
    BY DEF Plain, Ends, Asking
  <2>3. Chain(Begun(m), "if pending", "write file", 6, Harmless)
    BY <2>1, MethodChains
  <2> QED BY <1>0, <2>2, <2>3
<1>7. CASE m = "revert"
  <2>1. Begun(m) = RevertToHome
    BY <1>7 DEF Begun, Methods
  <2>2. "test timer" \in Plain /\ "write file" \in Ends /\ 10 \in 1..17 /\ m \notin Calm
    BY <1>7 DEF Plain, Ends, Calm
  <2>3. Chain(Begun(m), "test timer", "write file", 10, Harmless)
    BY <2>1, MethodChains
  <2> QED BY <1>0, <2>2, <2>3
<1>8. CASE m = "clear"
  <2>1. Begun(m) = Clear
    BY <1>8 DEF Begun, Methods
  <2>2. "test timer" \in Plain /\ "remove file" \in Ends /\ 7 \in 1..17 /\ m \notin Calm
    BY <1>8 DEF Plain, Ends, Calm
  <2>3. Chain(Begun(m), "test timer", "remove file", 7, Harmless)
    BY <2>1, MethodChains
  <2> QED BY <1>0, <2>2, <2>3
<1>9. CASE m = "switch" /\ binding # NoTree
  <2>1. Begun(m) = Unbind \o Bind
    BY <1>9 DEF Begun, Methods
  <2>2. "before unbind" \in Plain /\ "after bind" \in Ends /\ 17 \in 1..17 /\ m \notin Calm
    BY <1>9 DEF Plain, Ends, Calm
  <2>3. Chain(Begun(m), "before unbind", "after bind", 17, Harmless)
    BY <2>1, MethodChains
  <2> QED BY <1>0, <2>2, <2>3
<1> QED BY <1>1, <1>2, <1>3, <1>4, <1>5, <1>6, <1>7, <1>8, <1>9 DEF Methods

\* The agent's thread calls a method, any one.
LEMMA CallValues ==
  ASSUME ValuesInv, NEW m \in DOMAIN Methods, Call(m)
  PROVE  ValuesInv'
<1>1. PICK q : q = Begun(m)
  OBVIOUS
<1>2. PICK ops \in {Harmless, Approving}, a \in Plain, z \in Ends, n \in 1..17 :
        /\ Chain(q, a, z, n, ops) /\ (m \in Calm => a \in Asking)
        /\ ops = Approving => m = "approve" /\ a \in Switching
  BY <1>1, NewMethod
<1>3. /\ q \in Seq(ops) /\ Len(q) = n /\ q # <<>> /\ q[1] = a /\ Head(q) = a /\ q[Len(q)] = z /\ Flows(q)
  BY <1>2 DEF Chain
<1>4. q \in Seq(Ops)
  <2>1. ops \subseteq Ops
    BY <1>2 DEF Ops
  <2> QED BY <1>3, <2>1
<1>5. /\ todo' = [todo EXCEPT ![Main] = q] /\ todo[Main] = <<>>
      /\ UNCHANGED <<binding, home, state, timer, disk, pending, clock, held, crashes>>
      /\ freed' \in BOOLEAN /\ raced' \in BOOLEAN
  BY <1>1 DEF Call, Begun, ValuesInv, TypeInv
<1>6. /\ Main \in Threads /\ todo'[Main] = q /\ todo' \in [Threads -> Seq(Ops)]
      /\ \A t \in Threads : t # Main => todo'[t] = todo[t]
      /\ \A k \in Timers : k \in Threads /\ k # Main
  BY <1>4, <1>5, WorktreeAssumption DEF ValuesInv, TodoInv, Threads
<1>7. TypeInv'
  BY <1>5 DEF ValuesInv, TypeInv
<1>8. q \in Seq(Harmless) \/ Arms(q)
  <2>1. CASE ops = Harmless
    BY <1>3, <2>1
  <2>2. CASE ops = Approving
    <3>1. Chain(ApproveSwitch, "if pending", "start timer", 11, Approving) /\ m = "approve"
      BY <1>2, <2>2, ApproveChain
    <3>2. q = ApproveSwitch
      BY <1>1, <3>1 DEF Begun, Methods
    <3> QED BY <3>1, <3>2 DEF Arms, Chain, OpStart
  <2> QED BY <1>2, <2>1, <2>2
<1>9. TodoInv'
  <2>1. EndsWell(q) /\ Len(q) <= 17
    BY <1>2, <1>3 DEF EndsWell
  <2> HIDE DEF Flows, EndsWell, Reverts, Arms
  <2>2. \A t \in Threads : Flows(todo'[t]) /\ Len(todo'[t]) <= 17 /\ EndsWell(todo'[t])
    BY <1>3, <1>6, <2>1 DEF ValuesInv, TodoInv
  <2>3. \A k \in Timers : Reverts(todo'[k]) /\ (todo'[k] # <<>> => clock'[k] = "fired")
    BY <1>5, <1>6 DEF ValuesInv, TodoInv
  <2> QED BY <1>6, <1>8, <2>2, <2>3 DEF TodoInv
<1>10. Spared'
  <2> SUFFICES ASSUME Arms(q) PROVE \E k \in Timers : clock[k] = "unused"
    BY <1>5, <1>6 DEF Spared
  <2>1. ops = Approving
    <3> SUFFICES ASSUME ops = Harmless PROVE FALSE
      BY <1>2
    <3>1. OpStart \in Harmless
      BY <1>3 DEF Arms
    <3> QED BY <3>1, After
  <2> QED BY <1>2, <2>1 DEF Call
<1>11. Targeting'
  BY <1>2, <1>3, <1>6 DEF Targeting, Plain
<1> QED BY <1>5, <1>7, <1>9, <1>10, <1>11 DEF ValuesInv

\* It calls one that only asks, or no timer is live.
LEMMA CallMoves ==
  ASSUME WorkInv, ValuesInv', ~raced', NEW m \in DOMAIN Methods, Call(m)
  PROVE  WorkInv'
<1>1. PICK q : q = Begun(m)
  OBVIOUS
<1>2. PICK ops \in {Harmless, Approving}, a \in Plain, z \in Ends, n \in 1..17 :
        /\ Chain(q, a, z, n, ops) /\ (m \in Calm => a \in Asking)
        /\ ops = Approving => m = "approve" /\ a \in Switching
  BY <1>1, NewMethod
<1>3. /\ q \in Seq(ops) /\ Len(q) = n /\ q # <<>> /\ q[1] = a /\ Head(q) = a /\ q[Len(q)] = z /\ Flows(q)
  BY <1>2 DEF Chain
<1>4. q \in Seq(Ops)
  <2>1. ops \subseteq Ops
    BY <1>2 DEF Ops
  <2> QED BY <1>3, <2>1
<1>5. /\ todo' = [todo EXCEPT ![Main] = q] /\ todo[Main] = <<>>
      /\ UNCHANGED <<binding, home, state, timer, disk, pending, clock, held, crashes>>
  BY <1>1 DEF Call, Begun
<1>6. /\ Main \in Threads /\ todo'[Main] = q /\ todo' \in [Threads -> Seq(Ops)]
      /\ \A t \in Threads : t # Main => todo'[t] = todo[t]
      /\ \A k \in Timers : k \in Threads /\ k # Main
  BY <1>4, <1>5, WorktreeAssumption DEF WorkInv, TodoInv, Threads
<1>7. TypeInv' /\ TodoInv'
  BY DEF ValuesInv
<1>10. \A k \in Timers : Live(k)' <=> Live(k)
  BY <1>5, <1>6 DEF Live
<1>11. \A k \in Timers : Ready(k)' <=> Ready(k)
  BY <1>5, <1>6, SameReady
<1>12. ASSUME NEW k \in Timers, Live(k) PROVE Waits'
  <2>1. TimerLive
    <3>1. Len(todo[k]) > 2 => todo[k] # <<>>
      BY Idle
    <3> QED BY <1>12, <3>1 DEF Live, TimerLive
  <2>2. m \in Calm
    BY <2>1 DEF Call
  <2> QED BY <1>2, <1>3, <1>6, <2>2 DEF Waits
<1>13. ASSUME \A k \in Timers : ~Live(k) PROVE Ready(Main)'
  <2>1. Agrees
    BY <1>5, <1>13 DEF WorkInv, CtlInv, Ready
  <2>2. Agrees'
    BY <1>5, <2>1 DEF Agrees
  <2> QED BY <1>2, <1>3, <1>6, <2>2 DEF Ready, Pre, Plain
<1>14. CtlInv'
  <2>1. \A j, k \in Timers : Live(j)' /\ Live(k)' => j = k
    BY <1>10 DEF WorkInv, CtlInv
  <2>2. ASSUME NEW k \in Timers, Live(k)' PROVE (state = Away /\ home \in Homes /\ Ready(k) /\ Waits)'
    BY <1>5, <1>10, <1>11, <1>12, <2>2 DEF WorkInv, CtlInv, Away
  <2> HIDE DEF Live, Ready, Waits
  <2> QED BY <1>10, <1>13, <2>1, <2>2 DEF CtlInv
<1>15. AwayInv'
  <2> SUFFICES ASSUME Arms(q)
               PROVE  Switches(q) /\ \E k \in Timers : clock[k] = "unused"
    BY <1>5, <1>6 DEF AwayInv
  <2>1. ops = Approving
    <3> SUFFICES ASSUME ops = Harmless PROVE FALSE
      BY <1>2
    <3>1. OpStart \in Harmless
      BY <1>3 DEF Arms
    <3> QED BY <3>1, After
  <2>2. q[1] \in Switching /\ 1 \in 1..Len(q)
    BY <1>2, <1>3, <2>1
  <2>3. \E k \in Timers : clock[k] = "unused"
    BY <1>2, <2>1 DEF Call
  <2> QED BY <2>2, <2>3 DEF Switches
<1> QED BY <1>7, <1>14, <1>15 DEF WorkInv

\* A timer fires and begins to take the agent home.
LEMMA FireValues ==
  ASSUME ValuesInv, NEW k \in Timers, Fire(k)
  PROVE  ValuesInv'
<1>1. PICK q : q = RevertToHome
  OBVIOUS
<1>2. /\ q \in Seq(Harmless) /\ Len(q) = 10 /\ q # <<>> /\ Head(q) \in Plain /\ q[Len(q)] \in Ends
      /\ Flows(q) /\ Reverts(q)
  <2>1. PICK a \in Plain, z \in Ends : Chain(q, a, z, 10, Harmless)
    <3>1. "test timer" \in Plain /\ "write file" \in Ends
      BY DEF Plain, Ends
    <3> QED BY <1>1, <3>1, MethodChains
  <2>2. q \in Seq(Harmless) /\ Len(q) = 10 /\ q[1] = a /\ q[Len(q)] = z /\ Flows(q)
    BY <2>1 DEF Chain
  <2>3. q[1] \in Plain /\ q[Len(q)] \in Ends
    BY <2>1, <2>2
  <2>4. q # <<>> /\ Head(q) = q[1]
    BY <2>2, Long
  <2>5. Reverts(q)
    BY <1>1, RevertsHome
  <2> HIDE DEF Flows, Reverts, Plain, Ends
  <2> QED BY <2>2, <2>3, <2>4, <2>5
<1>3. q \in Seq(Ops)
  BY <1>2 DEF Ops
<1>4. /\ clock[k] = "armed" /\ clock' = [clock EXCEPT ![k] = "fired"] /\ todo' = [todo EXCEPT ![k] = q]
      /\ UNCHANGED <<binding, home, state, timer, disk, pending, held, freed, raced, crashes>>
  BY <1>1 DEF Fire
<1>5. /\ Main \in Threads /\ Main # k /\ k \in Threads /\ \A j \in Timers : j \in Threads /\ j # Main
  BY WorktreeAssumption DEF Threads
<1>6. /\ todo'[k] = q /\ todo' \in [Threads -> Seq(Ops)] /\ \A t \in Threads : t # k => todo'[t] = todo[t]
      /\ clock'[k] = "fired" /\ clock' \in [Timers -> Clocks] /\ \A j \in Timers : j # k => clock'[j] = clock[j]
  BY <1>3, <1>4, <1>5 DEF ValuesInv, TodoInv, TypeInv, Clocks
<1>7. TypeInv'
  <2>1. timer # NoTimer => clock'[timer] # "unused"
    BY <1>6 DEF ValuesInv, TypeInv
  <2> QED BY <1>4, <1>6, <2>1 DEF ValuesInv, TypeInv
<1>8. TodoInv'
  <2>1. EndsWell(q)
    BY <1>2 DEF EndsWell
  <2> HIDE DEF Flows, EndsWell, Reverts, Arms
  <2>2. \A t \in Threads : Flows(todo'[t]) /\ Len(todo'[t]) <= 17 /\ EndsWell(todo'[t])
    <3>1. TAKE t \in Threads
    <3>2. CASE t = k
      <4>1. Len(q) <= 17
        BY <1>2
      <4>2. todo'[t] = q
        BY <1>6, <3>2
      <4> QED BY <1>2, <2>1, <4>1, <4>2
    <3>3. CASE t # k
      <4>1. todo'[t] = todo[t]
        BY <1>6, <3>3
      <4> QED BY <4>1 DEF ValuesInv, TodoInv
    <3> QED BY <3>2, <3>3
  <2>3. \A j \in Timers : Reverts(todo'[j]) /\ (todo'[j] # <<>> => clock'[j] = "fired")
    BY <1>2, <1>5, <1>6 DEF ValuesInv, TodoInv
  <2>4. todo'[Main] \in Seq(Harmless) \/ Arms(todo'[Main])
    BY <1>5, <1>6 DEF ValuesInv, TodoInv
  <2> QED BY <1>6, <2>2, <2>3, <2>4 DEF TodoInv
<1>9. Spared' /\ Targeting'
  <2>1. todo'[Main] = todo[Main] /\ pending' = pending
    BY <1>4, <1>5, <1>6
  <2>2. \A j \in Timers : clock[j] = "unused" => clock'[j] = "unused"
    BY <1>4, <1>6
  <2> QED BY <2>1, <2>2 DEF ValuesInv, Spared, Targeting
<1> QED BY <1>4, <1>7, <1>8, <1>9 DEF ValuesInv

\* It is the one that is live.
LEMMA FireMoves ==
  ASSUME WorkInv, ValuesInv', NEW k \in Timers, Fire(k)
  PROVE  WorkInv'
<1>1. PICK q : q = RevertToHome
  OBVIOUS
<1>2. /\ q \in Seq(Harmless) /\ Len(q) = 10 /\ q # <<>> /\ Head(q) \in Plain /\ q[Len(q)] \in Ends
      /\ Flows(q) /\ Reverts(q)
  <2>1. PICK a \in Plain, z \in Ends : Chain(q, a, z, 10, Harmless)
    <3>1. "test timer" \in Plain /\ "write file" \in Ends
      BY DEF Plain, Ends
    <3> QED BY <1>1, <3>1, MethodChains
  <2>2. q \in Seq(Harmless) /\ Len(q) = 10 /\ q[1] = a /\ q[Len(q)] = z /\ Flows(q)
    BY <2>1 DEF Chain
  <2>3. q[1] \in Plain /\ q[Len(q)] \in Ends
    BY <2>1, <2>2
  <2>4. q # <<>> /\ Head(q) = q[1]
    BY <2>2, Long
  <2>5. Reverts(q)
    BY <1>1, RevertsHome
  <2> HIDE DEF Flows, Reverts, Plain, Ends
  <2> QED BY <2>2, <2>3, <2>4, <2>5
<1>3. q \in Seq(Ops)
  BY <1>2 DEF Ops
<1>4. /\ clock[k] = "armed" /\ clock' = [clock EXCEPT ![k] = "fired"] /\ todo' = [todo EXCEPT ![k] = q]
      /\ UNCHANGED <<binding, home, state, timer, disk, pending, held, freed, crashes>>
  BY <1>1 DEF Fire
<1>5. /\ Main \in Threads /\ Main # k /\ k \in Threads /\ \A j \in Timers : j \in Threads /\ j # Main
  BY WorktreeAssumption DEF Threads
<1>6. /\ todo'[k] = q /\ todo' \in [Threads -> Seq(Ops)] /\ \A t \in Threads : t # k => todo'[t] = todo[t]
      /\ clock'[k] = "fired" /\ clock' \in [Timers -> Clocks] /\ \A j \in Timers : j # k => clock'[j] = clock[j]
  BY <1>3, <1>4, <1>5 DEF WorkInv, TodoInv, TypeInv, Clocks
<1>7. TypeInv' /\ TodoInv'
  BY DEF ValuesInv
<1>9. Live(k) /\ todo[k] = <<>>
  BY <1>4 DEF Live, WorkInv, TodoInv
<1>10. state = Away /\ home \in Homes /\ Ready(k) /\ Waits /\ \A j \in Timers : Live(j) => j = k
  BY <1>9 DEF WorkInv, CtlInv
<1>11. CtlInv'
  <2>1. Live(k)' /\ \A j \in Timers : Live(j)' => j = k
    <3>1. Len(todo'[k]) > 2
      <4>1. Len(q) > 2
        BY <1>2, Long
      <4> QED BY <4>1, <1>6
    <3>2. ASSUME NEW j \in Timers, j # k PROVE todo'[j] = todo[j] /\ clock'[j] = clock[j]
      BY <1>5, <1>6, <3>2
    <3> QED BY <1>10, <3>1, <3>2 DEF Live
  <2>2. Ready(k)'
    <3>1. Agrees
      BY <1>9, <1>10 DEF Ready
    <3>2. Agrees'
      BY <1>4, <3>1 DEF Agrees
    <3>3. PICK op \in Plain : op = Head(q)
      BY <1>2
    <3>4. Pre(op, held[k])'
      BY <3>2, <3>3 DEF Pre, Plain
    <3>5. todo'[k] # <<>> /\ Head(todo'[k]) = op
      BY <1>2, <1>6, <3>3
    <3> QED BY <3>4, <3>5 DEF Ready, Pre
  <2>3. (state = Away /\ home \in Homes /\ Waits)'
    BY <1>4, <1>5, <1>6, <1>10 DEF Waits, Away
  <2> HIDE DEF Live, Ready, Waits
  <2> QED BY <2>1, <2>2, <2>3 DEF CtlInv
<1>12. AwayInv'
  <2>1. todo'[Main] = todo[Main] /\ state' = state
    BY <1>4, <1>5, <1>6
  <2>2. \A j \in Timers : clock[j] = "unused" => clock'[j] = "unused"
    BY <1>4, <1>6
  <2> QED BY <2>1, <2>2 DEF WorkInv, AwayInv
<1> QED BY <1>7, <1>11, <1>12 DEF WorkInv

\* What stays with the agent's thread while a timer is live: it asks, and is told no.
LEMMA AskingEnds ==
  ASSUME NEW t \in Threads, Step(t), Head(todo[t]) \in Asking, state = Away
  PROVE  /\ Returns(t, <<>>) /\ todo' = [todo EXCEPT ![t] = <<>>]
         /\ UNCHANGED <<binding, home, state, timer, disk, pending, clock, held, freed, crashes>>
<1>1. PICK op \in Asking : op = Head(todo[t])
  OBVIOUS
<1>2. ~Hook(t) /\ ~SetState(t) /\ ~SetBinding(t) /\ ~SaveStep(t) /\ ~TimerStep(t)
  <2>1. ~Hook(t) /\ ~SetState(t)
    BY <1>1 DEF Hook, SetState, At, Asking
  <2>2. ~SetBinding(t)
    BY <1>1 DEF SetBinding, At, Asking
  <2>3. ~SaveStep(t) /\ ~TimerStep(t)
    BY <1>1 DEF SaveStep, Saving, TimerStep, At, Asking
  <2> QED BY <2>1, <2>2, <2>3
<1>3. Test(t) /\ UNCHANGED <<binding, home, timer, disk, pending, clock, held, crashes>>
  BY <1>2 DEF Step, Control
<1>4. ~Passes(op)
  BY <1>1 DEF Passes, Asking, Away
<1>5. Return(t) /\ UNCHANGED <<state, freed>>
  BY <1>1, <1>3, <1>4 DEF Test, At
<1> QED BY <1>1, <1>3, <1>5 DEF Return, Goto, Returns, Asking, Tests

\* The agent's thread while a timer is live.
LEMMA MainWaits ==
  ASSUME WorkInv, ValuesInv', Step(Main), \E k \in Timers : Live(k)
  PROVE  WorkInv'
<1>1. /\ Main \in Threads /\ \A k \in Timers : k \in Threads /\ k # Main
  BY WorktreeAssumption DEF Threads
<1>2. held \in [Threads -> Trees]
  BY DEF WorkInv, TypeInv
<1>3. todo[Main] # <<>>
  BY <1>1, <1>2, Done
<1>4. state = Away /\ Head(todo[Main]) \in Asking
  BY <1>3 DEF WorkInv, CtlInv, Waits
<1>5. /\ Returns(Main, <<>>) /\ todo' = [todo EXCEPT ![Main] = <<>>]
      /\ UNCHANGED <<binding, home, state, timer, disk, pending, clock, held, freed, crashes>>
  BY <1>1, <1>4, AskingEnds
<1>6. TypeInv' /\ TodoInv'
  BY DEF ValuesInv
<1>7. todo'[Main] = <<>> /\ \A t \in Threads : t # Main => todo'[t] = todo[t]
  BY <1>1, <1>5 DEF WorkInv, TodoInv
<1>9. \A k \in Timers : (Live(k)' <=> Live(k)) /\ (Ready(k)' <=> Ready(k))
  <2>1. \A k \in Timers : Live(k)' <=> Live(k)
    BY <1>1, <1>5, <1>7 DEF Live
  <2>2. \A k \in Timers : Ready(k)' <=> Ready(k)
    BY <1>1, <1>5, <1>7, SameReady
  <2> QED BY <2>1, <2>2
<1>10. CtlInv'
  <2>1. Waits'
    BY <1>7 DEF Waits
  <2>2. ~(\A k \in Timers : ~Live(k)')
    BY <1>9
  <2>3. \A j, k \in Timers : Live(j)' /\ Live(k)' => j = k
    BY <1>9 DEF WorkInv, CtlInv
  <2>4. ASSUME NEW k \in Timers, Live(k)' PROVE (state = Away /\ home \in Homes /\ Ready(k) /\ Waits)'
    BY <1>5, <1>9, <2>1, <2>4 DEF WorkInv, CtlInv, Away
  <2> HIDE DEF Live, Ready, Waits
  <2> QED BY <2>2, <2>3, <2>4 DEF CtlInv
<1>11. AwayInv'
  BY <1>7, Idle DEF AwayInv
<1> QED BY <1>6, <1>10, <1>11 DEF WorkInv

\* What arms a timer after a step armed it before.
LEMMA ArmsBefore ==
  ASSUME NEW q \in Seq(Ops), Flows(q), q \in Seq(Harmless) \/ Arms(q), NEW r \in Seq(Ops), NEW prev,
         RestOf(q, r, prev), Arms(r)
  PROVE  Arms(q)
<1> SUFFICES ASSUME q \in Seq(Harmless) PROVE FALSE
  OBVIOUS
<1>1. r \in Seq(Harmless)
  BY RestKeeps
<1>2. OpStart \in Harmless
  BY <1>1 DEF Arms
<1> QED BY <1>2, After

\* The last step of a method that arms a timer.
LEMMA LastStep ==
  ASSUME NEW q \in Seq(Ops), Flows(q), q # <<>>, q[1] = OpStart
  PROVE  Len(q) = 1
<1> SUFFICES ASSUME Len(q) > 1 PROVE FALSE
  OBVIOUS
<1>1. 1 \in 1..(Len(q) - 1)
  OBVIOUS
<1>2. <<q[1], q[1 + 1]>> \in Follows
  BY <1>1 DEF Flows
<1> QED BY <1>2, After

\* A thread's step, whatever the others are doing.
LEMMA StepValues ==
  ASSUME ValuesInv, NEW t \in Threads, Step(t)
  PROVE  ValuesInv' /\ Ticks(t, Head(todo[t]))
<1>1. /\ Main \in Threads /\ \A k \in Timers : k \in Threads /\ k # Main
      /\ t # Main => t \in Timers
  BY WorktreeAssumption DEF Threads
<1>2. held \in [Threads -> Trees] /\ TodoInv /\ TypeInv /\ Spared /\ Targeting
  BY DEF ValuesInv, TypeInv
<1>3. PICK q : q = todo[t]
  OBVIOUS
<1>4. PICK op : op = Head(q) /\ q # <<>> /\ op \in Ops /\ Does(t, op)
  BY <1>1, <1>2, <1>3, Done
<1>5. q \in Seq(Ops) /\ Flows(q) /\ q[1] = op /\ Len(q) > 0
  BY <1>1, <1>2, <1>3, <1>4 DEF TodoInv
<1>6. PICK r : todo' = [todo EXCEPT ![t] = r] /\ (Returns(t, r) \/ Proceeds(t, r) \/ Skips(t, r))
  BY <1>1, Turns
<1>7. r \in Seq(Ops) /\ todo'[t] = r /\ \E prev : RestOf(q, r, prev)
  BY <1>1, <1>2, <1>3, <1>4, <1>6, StepRest
<1>8. PICK prev : RestOf(q, r, prev)
  BY <1>7
<1>9. \A u \in Threads : u # t => todo'[u] = todo[u]
  BY <1>2, <1>6 DEF TodoInv
<1>10. ASSUME t # Main PROVE TypeInv' /\ Spared' /\ Targeting' /\ Ticks(t, op)
  <2>1. 1 \in 1..Len(q) /\ Reverts(q) /\ Len(q) - 1 \in Nat
    BY <1>1, <1>2, <1>3, <1>5, <1>10 DEF TodoInv
  <2>2. op \in Clearing \cup {"if away", "if has home", "read home", "write home", "to home"} \cup Saves
    BY <1>5, <2>1 DEF Reverts, Reverting
  <2>3. op # "to pending" /\ op # OpNew /\ op # "remember target"
    BY <2>2 DEF Clearing, Saves, OpNew
  <2>4. TypeInv' /\ Ticks(t, op)
    BY <1>1, <1>2, <1>3, <1>4, <2>3, ValuesStep
  <2>5. pending' = pending
    BY <1>3, <1>4, <2>3 DEF Step, Control, SetBinding, SaveStep, TimerStep, At
  <2>6. todo'[Main] = todo[Main]
    BY <1>1, <1>9, <1>10
  <2>7. Spared' /\ Targeting'
    BY <1>2, <2>3, <2>4, <2>5, <2>6 DEF Spared, Targeting, Ticks
  <2> QED BY <2>4, <2>7
<1>11. ASSUME t = Main PROVE TypeInv' /\ Spared' /\ Targeting' /\ Ticks(t, op)
  <2>1. q \in Seq(Harmless) \/ Arms(q)
    BY <1>2, <1>3, <1>11 DEF TodoInv
  <2>2. op = OpNew => \E k \in Timers : clock[k] = "unused"
    <3> SUFFICES ASSUME op = OpNew PROVE \E k \in Timers : clock[k] = "unused"
      OBVIOUS
    <3>1. Arms(q)
      <4> SUFFICES ASSUME q \in Seq(Harmless) PROVE FALSE
        BY <2>1
      <4>1. op \in Harmless
        BY <1>5
      <4> QED BY <4>1, After
    <3>2. Len(q) >= 2
      <4> SUFFICES ASSUME Len(q) = 1 PROVE FALSE
        BY <1>5, Several
      <4>1. op = OpStart
        BY <1>5, <3>1 DEF Arms
      <4> QED BY <4>1, After
    <3> QED BY <1>2, <1>3, <1>11, <3>1, <3>2 DEF Spared
  <2>3. op = "to pending" => pending \in Targets
    BY <1>2, <1>3, <1>4, <1>11 DEF Targeting
  <2>4. TypeInv' /\ Ticks(t, op)
    BY <1>1, <1>2, <1>3, <1>4, <2>2, <2>3, ValuesStep
  <2>5. ASSUME Arms(r), Len(r) >= 2 PROVE \E k \in Timers : clock'[k] = "unused"
    <3>1. Arms(q)
      BY <1>5, <1>7, <1>8, <2>1, <2>5, ArmsBefore
    <3>2. PICK d \in {1, 3} :
            /\ Len(r) = Len(q) - d /\ <<prev, r[1]>> \in Follows
            /\ d = 1 => prev = q[1]
            /\ d = 3 => q[1] = OpTest
      BY <1>8, <2>5, Idle DEF RestOf
    <3>3. PICK k \in Timers : clock[k] = "unused"
      <4>1. Len(q) >= 2
        <5>1. Len(q) \in Nat /\ Len(r) \in Nat
          BY <1>5, <1>7
        <5> QED BY <2>5, <3>2, <5>1
      <4> QED BY <1>2, <1>3, <1>11, <3>1, <4>1 DEF Spared
    <3>4. op # OpNew
      <4> SUFFICES ASSUME op = OpNew PROVE FALSE
        OBVIOUS
      <4>1. <<OpNew, r[1]>> \in Follows
        <5>1. OpNew # OpTest
          BY DEF OpNew, OpTest
        <5> QED BY <1>5, <3>2, <5>1
      <4>2. r[1] = OpStart
        BY <4>1, After
      <4>3. Flows(r) /\ r # <<>>
        BY <1>5, <1>7, <1>8, <2>5, Idle, RestKeeps
      <4>4. Len(r) = 1
        BY <1>7, <4>2, <4>3, LastStep
      <4> QED BY <2>5, <4>4
    <3> QED BY <2>4, <3>3, <3>4 DEF Ticks
  <2>6. ASSUME r # <<>>, Head(r) = "to pending" PROVE pending' \in Targets
    <3>1. r[1] = "to pending"
      BY <1>7, <2>6, First
    <3>2. <<prev, r[1]>> \in Follows /\ (prev = q[1] \/ prev = OpDrop)
      BY <1>8, <2>6 DEF RestOf
    <3>3. prev = "remember target"
      BY <3>1, <3>2 DEF Follows
    <3>4. op = "remember target"
      BY <1>5, <3>2, <3>3 DEF OpDrop
    <3> QED BY <1>4, <3>4 DEF Does
  <2>7. Spared' /\ Targeting'
    BY <1>7, <1>11, <2>5, <2>6 DEF Spared, Targeting
  <2> QED BY <2>4, <2>7
<1>12. TypeInv' /\ Spared' /\ Targeting' /\ Ticks(t, op)
  BY <1>10, <1>11
<1>13. TodoInv'
  BY <1>1, <1>2, <1>3, <1>4, <1>6, <1>7, <1>8, <1>12, TodoStep DEF Ticks
<1>14. raced' = raced
  BY DEF Step, Control, SetBinding, SaveStep, TimerStep
<1> QED BY <1>3, <1>4, <1>12, <1>13, <1>14 DEF ValuesInv

\* The agent's thread while no timer is live.
LEMMA MainMoves ==
  ASSUME WorkInv, ValuesInv, Step(Main), \A k \in Timers : ~Live(k)
  PROVE  WorkInv'
<1>1. /\ Main \in Threads /\ \A k \in Timers : k \in Threads /\ k # Main
  BY WorktreeAssumption DEF Threads
<1>2. held \in [Threads -> Trees] /\ Ready(Main) /\ TodoInv /\ AwayInv /\ TypeInv
  BY DEF WorkInv, TypeInv, CtlInv
<1>3. PICK q : q = todo[Main]
  OBVIOUS
<1>4. PICK op : op = Head(q) /\ q # <<>> /\ op \in Ops /\ Does(Main, op)
  BY <1>1, <1>2, <1>3, Done
<1>5. /\ q \in Seq(Ops) /\ Flows(q) /\ q[1] = op /\ Len(q) > 0 /\ (q \in Seq(Harmless) \/ Arms(q))
  BY <1>1, <1>2, <1>3, <1>4 DEF TodoInv
<1>6. PICK r : todo' = [todo EXCEPT ![Main] = r] /\ (Returns(Main, r) \/ Proceeds(Main, r) \/ Skips(Main, r))
  BY <1>1, Turns
<1>7. r \in Seq(Ops) /\ todo'[Main] = r /\ \E prev : RestOf(q, r, prev)
  BY <1>1, <1>2, <1>3, <1>4, <1>6, StepRest
<1>8. PICK prev : RestOf(q, r, prev)
  BY <1>7
<1>9. Pre(op, held[Main])
  BY <1>2, <1>3, <1>4 DEF Ready
<1>10. op \in {OpNew, OpStart} => Arms(q)
  <2> SUFFICES ASSUME q \in Seq(Harmless) PROVE op \notin {OpNew, OpStart}
    BY <1>5
  <2>1. op \in Harmless
    BY <1>5
  <2> QED BY <2>1, After
<1>12. TypeInv' /\ Ticks(Main, op)
  BY <1>1, <1>3, <1>4, StepValues DEF ValuesInv
<1>13. TodoInv'
  BY <1>1, StepValues DEF ValuesInv
<1>14. Ready(Main)'
  BY <1>1, <1>2, StepReady
<1>15. \A k \in Timers : todo'[k] = todo[k]
  BY <1>1, <1>2, <1>6 DEF TodoInv
<1>16. ASSUME NEW k \in Timers, Live(k)' PROVE op = OpStart /\ k = timer /\ clock[k] = "new"
  <2>1. clock'[k] = "armed" /\ clock[k] # "armed"
    BY <1>15, <1>16 DEF Live
  <2> QED BY <2>1, <1>12 DEF Ticks
<1>17. op = OpStart => r = <<>> /\ Len(q) = 1
  <2> SUFFICES ASSUME op = OpStart PROVE r = <<>> /\ Len(q) = 1
    OBVIOUS
  <2>1. Len(q) = 1
    BY <1>4, <1>5, LastStep
  <2>2. r = <<>>
    <3> SUFFICES ASSUME r # <<>> PROVE FALSE
      OBVIOUS
    <3>1. PICK d \in {1, 3} : Len(r) = Len(q) - d /\ Len(r) > 0
      BY <1>8 DEF RestOf
    <3> QED BY <2>1, <3>1
  <2> QED BY <2>1, <2>2
<1>18. ASSUME NEW k \in Timers, Live(k)' PROVE (state = Away /\ home \in Homes /\ Ready(k) /\ Waits)'
  <2>1. op = OpStart /\ clock[k] = "new" /\ r = <<>> /\ Len(q) = 1
    BY <1>16, <1>17, <1>18
  <2>2. state = Away
    <3>1. Arms(q) /\ \A i \in 1..Len(q) : q[i] = OpStart
      <4>1. \A i \in 1..Len(q) : i = 1
        BY <2>1
      <4> QED BY <1>5, <1>10, <2>1, <4>1
    <3>2. ~Switches(q)
      BY <3>1, After DEF Switches
    <3> QED BY <1>2, <1>3, <3>1, <3>2 DEF AwayInv
  <2>3. Agrees /\ Kept /\ state' = state
    <3>1. op \in Still /\ op \notin Hooks \cup Marks /\ op \in Plain
      BY <2>1 DEF Still, Arming, Hooks, Marks, Plain, OpStart
    <3> QED BY <1>4, <1>9, <3>1 DEF Does, Pre
  <2>4. Agrees' /\ state' = Away /\ home' \in Homes
    BY <2>2, <2>3 DEF Agrees, Kept, Away
  <2>5. todo'[k] = <<>> /\ todo'[Main] = <<>>
    BY <1>2, <1>7, <1>15, <2>1 DEF TodoInv
  <2>6. Ready(k)' /\ Waits'
    BY <2>4, <2>5 DEF Ready, Waits
  <2> QED BY <2>4, <2>6 DEF Away
<1>19. CtlInv'
  <2>1. \A j, k \in Timers : Live(j)' /\ Live(k)' => j = k
    BY <1>16
  <2> HIDE DEF Live, Ready, Waits
  <2> QED BY <1>14, <1>18, <2>1 DEF CtlInv
<1>20. ASSUME Arms(r) PROVE Switches(r) \/ state' = Away
  <2>1. r # <<>>
    BY <1>20, Idle
  <2>2. Arms(q)
    BY <1>20, ArmsBefore, <1>5, <1>7, <1>8
  <2>3. CASE Switches(q) /\ ~Switches(r)
    <3>1. q[1] = OpAway
      BY <1>5, <1>7, <1>8, <2>1, <2>2, <2>3, SwitchedAway DEF Switches
    <3>2. op = OpAway
      BY <1>5, <3>1
    <3> QED BY <1>4, <3>2 DEF Does, OpAway
  <2>4. CASE ~Switches(q)
    <3>1. state = Away
      BY <1>2, <1>3, <2>2, <2>4 DEF AwayInv
    <3>2. op \in Approving /\ op \notin Switching
      <4>1. q \in Seq(Approving) /\ 1 \in 1..Len(q)
        BY <1>5, <2>2 DEF Arms
      <4>2. q[1] \in Approving
        BY <4>1
      <4> QED BY <1>5, <2>4, <4>1, <4>2 DEF Switches
    <3>3. op \notin Hooks \cup Marks
      BY <3>2 DEF Approving, Switching, Saves, Clearing, Arming, Hooks, Marks
    <3> QED BY <1>4, <3>1, <3>3 DEF Does, Away
  <2> QED BY <2>3, <2>4
<1>21. ASSUME Arms(r), Len(r) >= 2 PROVE \E k \in Timers : clock'[k] = "unused"
  BY <1>1, <1>7, <1>21, StepValues DEF ValuesInv, Spared
<1>22. AwayInv'
  BY <1>7, <1>20, <1>21 DEF AwayInv
<1> QED BY <1>12, <1>13, <1>19, <1>22 DEF WorkInv

\* The one question that a method which arms a timer asks.
LEMMA AskingSwitches == \A x : x \in Asking /\ x \in Approving => x \in Switching
BY DEF Asking, Approving, Switching, Saves, Clearing, Arming

\* The thread of a timer that is live.
LEMMA LiveMoves ==
  ASSUME WorkInv, ValuesInv, NEW k \in Timers, Step(k), Live(k)
  PROVE  WorkInv'
<1>1. Main \in Threads /\ k # Main /\ k \in Threads /\ \A j \in Timers : j \in Threads /\ j # Main
  BY WorktreeAssumption DEF Threads
<1>2. /\ held \in [Threads -> Trees] /\ TodoInv /\ AwayInv /\ TypeInv
      /\ state = Away /\ home \in Homes /\ Ready(k) /\ Waits /\ \A j \in Timers : Live(j) => j = k
  BY DEF WorkInv, TypeInv, CtlInv
<1>3. PICK q : q = todo[k]
  OBVIOUS
<1>4. PICK op : op = Head(q) /\ q # <<>> /\ op \in Ops /\ Does(k, op)
  BY <1>1, <1>2, <1>3, Done
<1>5. q \in Seq(Ops) /\ Flows(q) /\ q[1] = op /\ Len(q) > 0 /\ Reverts(q) /\ clock[k] = "fired"
  BY <1>1, <1>2, <1>3, <1>4 DEF TodoInv
<1>6. PICK r : todo' = [todo EXCEPT ![k] = r] /\ (Returns(k, r) \/ Proceeds(k, r) \/ Skips(k, r))
  BY <1>1, Turns
<1>7. r \in Seq(Ops) /\ todo'[k] = r /\ \E prev : RestOf(q, r, prev)
  BY <1>1, <1>2, <1>3, <1>4, <1>6, StepRest
<1>8. PICK prev : RestOf(q, r, prev)
  BY <1>7
<1>9. PICK n \in Nat : n = Len(q) - 1 /\ Reverting(op, n)
  <2>1. 1 \in 1..Len(q) /\ Len(q) - 1 \in Nat
    BY <1>5
  <2> QED BY <1>5, <2>1 DEF Reverts
<1>10. op # "to pending" /\ op # OpNew /\ op # OpStart
  BY <1>9 DEF Reverting, Clearing, Saves, OpNew, OpStart
<1>11. TypeInv' /\ TodoInv' /\ Ticks(k, op)
  BY <1>1, <1>3, <1>4, StepValues DEF ValuesInv
<1>12. TodoInv'
  BY <1>11
<1>13. Ready(k)'
  BY <1>1, <1>2, StepReady
<1>14. todo'[Main] = todo[Main] /\ \A j \in Timers : j # k => todo'[j] = todo[j]
  BY <1>1, <1>2, <1>6 DEF TodoInv
<1>15. \A j \in Timers : Live(j)' => j = k
  BY <1>2, <1>10, <1>11, <1>14 DEF Live, Ticks
<1>16. Waits'
  BY <1>2, <1>14 DEF Waits
<1>17. ASSUME Live(k)' PROVE state' = Away /\ home' \in Homes
  <2>1. clock'[k] # "armed"
    BY <1>5, <1>10, <1>11 DEF Ticks
  <2>2. Len(r) > 2
    BY <1>7, <1>17, <2>1 DEF Live
  <2>3. Len(q) > Len(r)
    <3>1. Len(r) # 0
      BY <2>2
    <3>2. r # <<>>
      BY <3>1, Idle
    <3>3. PICK d \in {1, 3} : Len(r) = Len(q) - d
      BY <1>8, <3>2 DEF RestOf
    <3> QED BY <1>5, <1>7, <3>3
  <2>4. op \in Clearing \cup {"if away", "if has home", "read home", "write home"}
    <3>1. n > 2
      BY <1>5, <1>7, <1>9, <2>2, <2>3
    <3> QED BY <1>9, <3>1, Early
  <2>5. op \notin Hooks \cup Marks
    BY <2>4 DEF Clearing, Hooks, Marks
  <2>6. state' = state
    BY <1>4, <2>5 DEF Does
  <2>7. home' = home
    BY <1>4, <2>4 DEF Does, Still, Tests, Kept
  <2> QED BY <1>2, <2>6, <2>7
<1>18. ASSUME ~Live(k)' PROVE Ready(Main)'
  <2>1. Agrees'
    <3>1. CASE r = <<>>
      BY <1>7, <1>13, <3>1 DEF Ready
    <3>2. CASE r # <<>>
      <4>1. Len(r) <= 2 /\ Reverts(r) /\ 1 \in 1..Len(r) /\ Head(r) = r[1]
        BY <1>1, <1>7, <1>12, <1>18, <3>2 DEF Live, TodoInv
      <4>2. r[1] \in Saves
        <5>1. PICK left : left = Len(r) - 1 /\ left <= 1
          BY <1>7, <4>1
        <5>2. Reverting(r[1], left)
          BY <4>1, <5>1 DEF Reverts
        <5> QED BY <5>1, <5>2 DEF Reverting
      <4>3. Head(r) \in Plain
        BY <4>1, <4>2 DEF Saves, Plain
      <4> QED BY <1>7, <1>13, <3>2, <4>3 DEF Ready, Pre
    <3> QED BY <3>1, <3>2
  <2>2. CASE todo[Main] = <<>>
    BY <1>14, <2>1, <2>2 DEF Ready
  <2>3. CASE todo[Main] # <<>>
    <3>1. Head(todo[Main]) \in Asking
      BY <1>2, <2>3 DEF Waits
    <3> QED BY <1>14, <2>1, <2>3, <3>1 DEF Ready, Pre, Plain, Asking
  <2> QED BY <2>2, <2>3
<1>19. CtlInv'
  <2>1. ASSUME NEW j \in Timers, Live(j)' PROVE (state = Away /\ home \in Homes /\ Ready(j) /\ Waits)'
    <3>1. j = k
      BY <1>15, <2>1
    <3>2. Live(k)' /\ (Ready(j)' <=> Ready(k)')
      BY <2>1, <3>1
    <3> QED BY <1>13, <1>16, <1>17, <3>2 DEF Away
  <2>2. (\A j \in Timers : ~Live(j)') => Ready(Main)'
    BY <1>18
  <2>3. \A i, j \in Timers : Live(i)' /\ Live(j)' => i = j
    BY <1>15
  <2> HIDE DEF Live, Ready, Waits
  <2> QED BY <2>1, <2>2, <2>3 DEF CtlInv
<1>20. AwayInv'
  <2> SUFFICES ASSUME Arms(todo[Main])
               PROVE  /\ Switches(todo[Main])
                      /\ Len(todo[Main]) >= 2 => \E j \in Timers : clock'[j] = "unused"
    BY <1>14 DEF AwayInv
  <2>1. Switches(todo[Main])
    <3>1. todo[Main] # <<>> /\ todo[Main] \in Seq(Approving) /\ 1 \in 1..Len(todo[Main])
      <4>1. todo[Main] \in Seq(Approving) /\ Len(todo[Main]) > 0
        BY DEF Arms
      <4> QED BY <4>1
    <3>2. todo[Main][1] \in Asking /\ todo[Main][1] \in Approving
      BY <1>2, <3>1 DEF Waits
    <3>3. todo[Main][1] \in Switching
      BY <3>2, AskingSwitches
    <3> QED BY <3>1, <3>3 DEF Switches
  <2>2. Len(todo[Main]) >= 2 => \E j \in Timers : clock[j] = "unused"
    BY <1>2 DEF AwayInv
  <2> QED BY <1>10, <1>11, <2>1, <2>2 DEF Ticks
<1> QED BY <1>11, <1>12, <1>19, <1>20 DEF WorkInv

\* The thread of one that only has to save.
LEMMA SaverMoves ==
  ASSUME WorkInv, ValuesInv, NEW k \in Timers, Step(k), ~Live(k)
  PROVE  WorkInv'
<1>1. Main \in Threads /\ k # Main /\ k \in Threads /\ \A j \in Timers : j \in Threads /\ j # Main
  BY WorktreeAssumption DEF Threads
<1>2. held \in [Threads -> Trees] /\ TodoInv /\ AwayInv /\ TypeInv /\ CtlInv
  BY DEF WorkInv, TypeInv
<1>3. PICK q : q = todo[k]
  OBVIOUS
<1>4. PICK op : op = Head(q) /\ q # <<>> /\ op \in Ops /\ Does(k, op)
  BY <1>1, <1>2, <1>3, Done
<1>5. q \in Seq(Ops) /\ q[1] = op /\ Len(q) > 0 /\ Reverts(q)
  BY <1>1, <1>2, <1>3, <1>4 DEF TodoInv
<1>6. PICK r : todo' = [todo EXCEPT ![k] = r] /\ (Returns(k, r) \/ Proceeds(k, r) \/ Skips(k, r))
  BY <1>1, Turns
<1>7. r \in Seq(Ops) /\ todo'[k] = r /\ \E prev : RestOf(q, r, prev)
  BY <1>1, <1>2, <1>3, <1>4, <1>6, StepRest
<1>8. PICK prev : RestOf(q, r, prev)
  BY <1>7
<1>9. op \in Saves
  <2>1. 1 \in 1..Len(q) /\ Len(q) - 1 <= 1
    BY <1>3, <1>5 DEF Live
  <2>2. PICK left : left = Len(q) - 1 /\ left <= 1
    BY <2>1
  <2>3. Reverting(op, left)
    BY <1>5, <2>1, <2>2 DEF Reverts
  <2> QED BY <2>2, <2>3 DEF Reverting
<1>10. op # "to pending" /\ op # OpNew /\ op \in Still /\ op \notin Hooks \cup Marks
  BY <1>9 DEF Saves, Still, Hooks, Marks, OpNew
<1>11. TypeInv' /\ TodoInv' /\ Ticks(k, op)
  BY <1>1, <1>3, <1>4, StepValues DEF ValuesInv
<1>12. clock' = clock /\ Kept /\ state' = state
  BY <1>4, <1>9, <1>10, <1>11 DEF Ticks, Does
<1>13. \A t \in Threads : t # k => held'[t] = held[t]
  BY <1>1, <1>2, Done
<1>14. TodoInv'
  BY <1>11
<1>15. \A t \in Threads : t # k => todo'[t] = todo[t]
  BY <1>2, <1>6 DEF TodoInv
<1>16. ~Live(k)'
  <2>1. r = <<>> \/ Len(r) < Len(q)
    <3> SUFFICES ASSUME r # <<>> PROVE Len(r) < Len(q)
      OBVIOUS
    <3>1. PICK d \in {1, 3} : Len(r) = Len(q) - d
      BY <1>8 DEF RestOf
    <3> QED BY <1>5, <1>7, <3>1
  <2>2. Len(r) <= 2
    BY <1>3, <1>5, <1>7, <2>1, Idle DEF Live
  <2> QED BY <1>7, <1>12, <2>2 DEF Live
<1>17. \A j \in Timers : Live(j)' <=> Live(j)
  BY <1>1, <1>12, <1>15, <1>16 DEF Live
<1>18. ASSUME NEW t \in Threads, t # k PROVE Ready(t)' <=> Ready(t)
  BY <1>12, <1>13, <1>15, <1>18 DEF Ready, Pre, Agrees, Kept
<1>19. CtlInv'
  <2>1. Waits' <=> Waits
    BY <1>1, <1>15 DEF Waits
  <2>2. ASSUME NEW j \in Timers, Live(j)' PROVE (state = Away /\ home \in Homes /\ Ready(j) /\ Waits)'
    <3>1. Live(j) /\ j # k
      BY <1>17, <2>2
    <3>2. state = Away /\ home \in Homes /\ Ready(j) /\ Waits
      BY <1>2, <3>1 DEF CtlInv
    <3> QED BY <1>1, <1>12, <1>18, <2>1, <3>1, <3>2 DEF Kept, Away
  <2>3. (\A j \in Timers : ~Live(j)') => Ready(Main)'
    BY <1>1, <1>2, <1>17, <1>18 DEF CtlInv
  <2>4. \A i, j \in Timers : Live(i)' /\ Live(j)' => i = j
    BY <1>2, <1>17 DEF CtlInv
  <2> HIDE DEF Live, Ready, Waits
  <2> QED BY <2>2, <2>3, <2>4 DEF CtlInv
<1>20. AwayInv'
  BY <1>1, <1>2, <1>12, <1>15 DEF AwayInv
<1> QED BY <1>11, <1>14, <1>19, <1>20 DEF WorkInv

\* Nothing happens.
LEMMA WorkRests == SafeInv /\ UNCHANGED vars => SafeInv'
<1> SUFFICES ASSUME SafeInv, UNCHANGED vars PROVE SafeInv'
  OBVIOUS
<1>1. UNCHANGED <<binding, home, state, timer, disk, pending, clock, todo, held, freed, raced,
                  crashes>>
  BY DEF vars
<1>2. ValuesInv'
  BY <1>1 DEF SafeInv, ValuesInv, TypeInv, TodoInv, Spared, Targeting
<1>3. CtlInv => CtlInv'
  <2>1. (Waits' <=> Waits) /\ \A t \in Threads : Ready(t)' <=> Ready(t)
    BY <1>1 DEF Waits, Ready, Pre, Agrees
  <2>2. \A k \in Timers : Live(k)' <=> Live(k)
    BY <1>1 DEF Live
  <2>3. Main \in Threads /\ Timers \subseteq Threads
    BY DEF Threads
  <2> HIDE DEF Live, Ready, Waits
  <2> QED BY <1>1, <2>1, <2>2, <2>3 DEF CtlInv, Away
<1>4. AwayInv => AwayInv'
  BY <1>1 DEF AwayInv, Switches
<1> QED BY <1>1, <1>2, <1>3, <1>4 DEF SafeInv, WorkInv, ValuesInv

\* Every step keeps it.
LEMMA SafeStep == SafeInv /\ [Next]_vars => SafeInv'
<1> SUFFICES ASSUME SafeInv, [Next]_vars PROVE SafeInv'
  OBVIOUS
<1>0. ValuesInv /\ (~raced => WorkInv)
  BY DEF SafeInv
<1>1. ASSUME NEW m \in DOMAIN Methods, Call(m) PROVE SafeInv'
  <2>1. ValuesInv'
    BY <1>0, <1>1, CallValues
  <2>2. ASSUME ~raced' PROVE WorkInv'
    <3>1. ~raced
      BY <1>1, <2>2 DEF Call
    <3> QED BY <1>0, <1>1, <2>1, <2>2, <3>1, CallMoves
  <2> QED BY <2>1, <2>2 DEF SafeInv
<1>2. ASSUME NEW k \in Timers, Fire(k) PROVE SafeInv'
  <2>1. ValuesInv'
    BY <1>0, <1>2, FireValues
  <2>2. raced' = raced
    BY <1>2 DEF Fire
  <2> QED BY <1>0, <1>2, <2>1, <2>2, FireMoves DEF SafeInv
<1>3. ASSUME NEW t \in Threads, Step(t) PROVE SafeInv'
  <2>1. ValuesInv'
    BY <1>0, <1>3, StepValues
  <2>2. raced' = raced
    BY <1>3 DEF Step, Control, SetBinding, SaveStep, TimerStep
  <2>3. ASSUME WorkInv PROVE WorkInv'
    <3>1. CASE t = Main
      BY <1>0, <1>3, <2>1, <2>3, <3>1, MainWaits, MainMoves
    <3>2. CASE t \in Timers
      BY <1>0, <1>3, <2>3, <3>2, LiveMoves, SaverMoves
    <3> QED BY <3>1, <3>2 DEF Threads
  <2> QED BY <1>0, <2>1, <2>2, <2>3 DEF SafeInv
<1>4. CASE Crash
  BY <1>0, <1>4, CrashMoves DEF ValuesInv
<1>5. CASE UNCHANGED vars
  BY <1>5, WorkRests
<1> QED BY <1>1, <1>2, <1>3, <1>4, <1>5 DEF Next

\* Whatever the agent calls while its timers run: every variable has its type, the rest of a
\* method is never longer than the longest method, a request that awaits approval has a target,
\* and only a timer that was created can be cleared.
THEOREM WorktreeTypes == Spec => []TypeOK
<1>1. SafeInv => TypeOK
  <2>1. Len(Unbind) + Len(Bind) = 17
    <3>1. Len(Unbind) = 10 /\ Len(Bind) = 7
      BY MethodChains DEF Chain
    <3> QED BY <3>1
  <2> QED BY <2>1 DEF SafeInv, ValuesInv, TypeInv, TodoInv, TypeOK, States, Clocks, Pending
<1> QED BY <1>1, SafeStep, InitWork, PTL DEF Spec

\* Between calls the state machine agrees with the bindings, although the timer reverts in a
\* thread of its own, in every behaviour up to the first bind, unbind, clear or revert that
\* the agent calls while a timer is live, and again from the next start.
THEOREM StateMatches == Spec => []StateMatchesBinding
<1>1. SafeInv => StateMatchesBinding
  <2> SUFFICES ASSUME WorkInv, Quiet PROVE Agrees
    BY DEF SafeInv, StateMatchesBinding, StateAgrees, Agrees, Away, AtHome, Pending
  <2>1. \A t \in Threads : todo[t] = <<>>
    BY DEF Quiet
  <2>2. PICK t \in Threads : Ready(t)
    BY DEF WorkInv, CtlInv, Threads
  <2> QED BY <2>1, <2>2 DEF Ready
<1> QED BY <1>1, SafeStep, InitWork, PTL DEF Spec
===============================================================================
