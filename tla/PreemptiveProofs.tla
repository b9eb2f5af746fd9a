-------------------------- MODULE PreemptiveProofs --------------------------
(***************************************************************************)
(* The registers survive forced context switches, for any threads, any     *)
(* time slices and any depth of nested calls (module Preemptive).          *)
(***************************************************************************)
EXTENDS Preemptive, FiniteSetTheorems, SequenceTheorems, TLAPS

Places == {"none", "set", "use", "fork", "on", "push", "mark", "test", "clear", "off",
           "switch", "tick", "ask", "unmark", "pop", "return"}
Frames == [ret : Places, reg : Threads \cup {Junk}]

Types ==
    /\ pc \in [Threads -> Places]
    /\ stack \in [Threads -> Seq(Frames)]
    /\ ready \in Seq(Threads)
    /\ current \in Threads
    /\ reg \in Threads \cup {Junk}

\* Where thread t is in its n-th call of ContextSwitch (0: in its own code); all
\* but the innermost are interrupted, and their place is a return address.
At(t, n) == IF n = Len(stack[t]) THEN pc[t] ELSE stack[t][n + 1].ret

\* What t computed is in the register whenever the n-th call runs: it has not yet
\* pushed it or has taken it back, and so have the calls before it.
Carries(t, n) == At(t, 0) = "use" /\ \A m \in 1 .. n : At(t, m) \in {"push", "return"}

\* From the push to the return the value is in the frame.
Saved == \A t \in Threads : \A n \in 1 .. Len(stack[t]) :
    Carries(t, n - 1) /\ At(t, n) # "push" => stack[t][n].reg = t

\* The steps of ContextSwitch before and after Yield are taken inside a call, a
\* thread's own ones outside.
Inside == {"push", "mark", "test", "clear", "ask", "unmark", "pop", "return"}
Outside == {"none", "set", "use", "fork"}
Base == \A t \in Threads : /\ At(t, 0) \notin Inside
                           /\ \A n \in 1 .. Len(stack[t]) : At(t, n) \notin Outside

InRegister == Carries(current, Len(stack[current])) => reg = current

\* Threads that do not run are where Switch left them, and are ready once.
Others ==
    /\ \A t \in Threads : t # current => pc[t] \in {"none", "on"}
    /\ \A i \in 1 .. Len(ready) : ready[i] # current /\ pc[ready[i]] = "on"
    /\ \A i, j \in 1 .. Len(ready) : ready[i] = ready[j] => i = j

\* inContextSwitch tells where the running thread is, and no call was interrupted
\* there.
Marked ==
    /\ inContextSwitch \in BOOLEAN
    /\ pc[current] \in Deciding <=> inContextSwitch
    /\ \A t \in Threads : \A n \in 1 .. Len(stack[t]) : stack[t][n].ret \notin Deciding

IInv == Types /\ Base /\ Saved /\ InRegister /\ Others /\ Marked

-----------------------------------------------------------------------------
\* Instructions that stay within a call move threads to other places of their
\* innermost calls; what the frames hold is as good as before.
LEMMA MoveLemma ==
  ASSUME IInv, pc' \in [Threads -> Places], UNCHANGED stack,
         \A t \in Threads : pc'[t] # pc[t] =>
             /\ pc[t] # "push"
             /\ pc'[t] \notin IF Len(stack[t]) = 0 THEN Inside ELSE Outside
  PROVE  Saved' /\ Base'
<1> USE DEF IInv, Types
<1>2. \A t \in Threads : Len(stack[t]) \in Nat
  OBVIOUS
<1>3. ASSUME NEW t \in Threads, NEW n \in 0 .. Len(stack[t]) - 1 PROVE At(t, n)' = At(t, n)
  BY <1>2, <1>3 DEF At
<1>4. Saved'
  <2> SUFFICES ASSUME NEW t \in Threads, NEW n \in 1 .. Len(stack[t]),
                      Carries(t, n - 1)', At(t, n)' # "push"
               PROVE  stack[t][n].reg = t
    BY DEF Saved
  <2>1. \A m \in 0 .. n - 1 : At(t, m)' = At(t, m)
    BY <1>2, <1>3
  <2>2. Carries(t, n - 1)
    BY <1>2, <2>1 DEF Carries
  <2>3. At(t, n) # "push"
    <3>1. CASE n < Len(stack[t])
      BY <1>2, <1>3, <3>1
    <3>2. CASE n = Len(stack[t])
      BY <3>2 DEF At
    <3> QED BY <1>2, <3>1, <3>2
  <2> QED BY <2>2, <2>3 DEF Saved
<1>5. Base'
  <2> SUFFICES ASSUME NEW t \in Threads
               PROVE  /\ At(t, 0)' \notin Inside
                      /\ \A n \in 1 .. Len(stack[t]) : At(t, n)' \notin Outside
    BY DEF Base
  <2>1. CASE Len(stack[t]) = 0
    BY <2>1 DEF At, Base
  <2>2. CASE Len(stack[t]) > 0
    <3>1. At(t, 0)' \notin Inside /\ \A n \in 1 .. Len(stack[t]) - 1 : At(t, n)' \notin Outside
      <4>1. At(t, 0)' = At(t, 0) /\ \A n \in 1 .. Len(stack[t]) - 1 : At(t, n)' = At(t, n)
        BY <1>2, <1>3, <2>2
      <4>2. \A n \in 1 .. Len(stack[t]) - 1 : n \in 1 .. Len(stack[t])
        BY <1>2
      <4> QED BY <4>1, <4>2 DEF Base
    <3>2. At(t, Len(stack[t])) = pc[t] /\ At(t, Len(stack[t]))' = pc'[t]
      BY DEF At
    <3>3. pc[t] \notin Outside
      BY <1>2, <2>2, <3>2 DEF Base
    <3>4. \A n \in 1 .. Len(stack[t]) : n = Len(stack[t]) \/ n \in 1 .. Len(stack[t]) - 1
      BY <1>2
    <3>5. ASSUME NEW n \in 1 .. Len(stack[t]), n = Len(stack[t]) PROVE At(t, n)' = pc'[t]
      BY <3>5 DEF At
    <3> QED BY <2>2, <3>1, <3>3, <3>4, <3>5
  <2> QED BY <1>2, <2>1, <2>2
<1> QED BY <1>4, <1>5

\* The same of one instruction of the running thread, which goes on running.
LEMMA StepMove ==
  ASSUME IInv, NEW b \in Places,
         pc' = [pc EXCEPT ![current] = b], pc[current] # "push",
         pc[current] \in Inside \/ b \notin Inside \/ stack[current] # <<>>,
         pc[current] \in Outside \/ b \notin Outside \/ stack[current] = <<>>,
         UNCHANGED <<stack, ready, current>>,
         reg' \in Threads \cup {Junk},
         inContextSwitch' \in BOOLEAN, b \in Deciding <=> inContextSwitch'
  PROVE  Types' /\ Base' /\ Saved' /\ Others' /\ Marked'
<1>1. Types'
  BY DEF IInv, Types
<1>2. b \notin IF Len(stack[current]) = 0 THEN Inside ELSE Outside
  <2>1. stack[current] # <<>> => Len(stack[current]) # 0
    BY DEF IInv, Types
  <2>2. pc[current] \in Inside => Len(stack[current]) # 0
    BY DEF IInv, Types, Base, At
  <2>3. pc[current] \in Outside => Len(stack[current]) = 0
    <3>1. Len(stack[current]) \in Nat /\ At(current, Len(stack[current])) = pc[current]
      BY DEF IInv, Types, At
    <3> QED BY <3>1 DEF IInv, Types, Base
  <2>4. stack[current] = <<>> => Len(stack[current]) = 0
    OBVIOUS
  <2> QED BY <2>1, <2>2, <2>3, <2>4
<1>3. Saved' /\ Base'
  <2>1. \A t \in Threads : pc'[t] # pc[t] => t = current /\ pc'[t] = b
    BY DEF IInv, Types
  <2>2. pc' \in [Threads -> Places]
    BY <1>1 DEF Types
  <2> QED BY <1>2, <2>1, <2>2, MoveLemma
<1>4. Others'
  BY DEF IInv, Types, Others
<1>5. Marked'
  BY DEF IInv, Types, Marked
<1> QED BY <1>1, <1>3, <1>4, <1>5

\* The same when the next place needs nothing in the register.
LEMMA PlainMove ==
  ASSUME IInv, NEW b \in Places \ {"use", "push", "return"},
         pc' = [pc EXCEPT ![current] = b], pc[current] # "push",
         pc[current] \in Inside \/ b \notin Inside \/ stack[current] # <<>>,
         pc[current] \in Outside \/ b \notin Outside \/ stack[current] = <<>>,
         UNCHANGED <<stack, ready, current>>,
         reg' \in Threads \cup {Junk},
         inContextSwitch' \in BOOLEAN, b \in Deciding <=> inContextSwitch'
  PROVE  IInv'
<1>1. Types' /\ Base' /\ Saved' /\ Others' /\ Marked'
  BY StepMove, Zenon
<1>2. pc'[current'] = b /\ current' \in Threads /\ stack'[current'] \in Seq(Frames)
  BY DEF IInv, Types
<1>3. ~Carries(current, Len(stack[current]))'
  <2>1. Len(stack'[current']) \in Nat /\ At(current, Len(stack[current]))' = b
    BY <1>2 DEF At
  <2> QED BY <2>1 DEF Carries
<1> QED BY <1>1, <1>3 DEF IInv, InRegister

\* SetUp leaves one thread with an empty stack.
LEMMA InitLemma == FirstAssumption /\ Init => IInv
<1> SUFFICES ASSUME FirstAssumption, Init PROVE IInv
  OBVIOUS
<1>1. Types
  BY DEF Init, Types, Places, FirstAssumption
<1>2. \A t \in Threads : Len(stack[t]) = 0 /\ pc[t] \in {"set", "none"}
  BY DEF Init
<1>3. Len(ready) = 0 /\ \A t \in Threads : t # current => pc[t] = "none"
  BY DEF Init
<1>8. inContextSwitch \in BOOLEAN /\ ~inContextSwitch
  BY Zenon DEF Init
<1>4. Base /\ InRegister
  BY <1>1, <1>2 DEF Base, InRegister, At, Carries, Inside, Types
<1>5. Saved
  BY <1>2 DEF Saved
<1>6. Others
  BY <1>3 DEF Others
<1>7. Marked
  <2>1. pc[current] \notin Deciding
    BY <1>1, <1>2 DEF Deciding, Types
  <2>2. \A t \in Threads : \A n \in 1 .. Len(stack[t]) : stack[t][n].ret \notin Deciding
    BY <1>2
  <2> QED BY <1>8, <2>1, <2>2 DEF Marked
<1> QED BY <1>1, <1>4, <1>5, <1>6, <1>7 DEF IInv

\* push saves the register in the frame of the innermost call (preemptive.cc:109).
LEMMA PushLemma == IInv /\ Push => IInv'
<1> SUFFICES ASSUME IInv, Push PROVE IInv'
  OBVIOUS
<1> DEFINE L == Len(stack[current])
<1>1. /\ pc[current] = "push" /\ pc' = [pc EXCEPT ![current] = "mark"]
      /\ stack' = [stack EXCEPT ![current][L].reg = reg]
      /\ UNCHANGED <<ready, current, reg, inContextSwitch>>
  BY DEF Push, Step
<1>2. /\ \A t \in Threads : stack[t] \in Seq(Frames) /\ Len(stack[t]) \in Nat
      /\ current \in Threads /\ reg \in Threads \cup {Junk} /\ pc \in [Threads -> Places]
      /\ stack \in [Threads -> Seq(Frames)]
  BY DEF IInv, Types
<1>3. L \in Nat \ {0}
  BY <1>1, <1>2 DEF IInv, Base, At, Inside
<1>4. /\ stack' = [stack EXCEPT ![current] = [stack[current] EXCEPT ![L] = [stack[current][L] EXCEPT !.reg = reg]]]
  BY <1>1
<1> DEFINE F == [stack[current][L] EXCEPT !.reg = reg]
<1>5. stack[current][L] \in Frames
  BY <1>2, <1>3
<1>6. F \in Frames /\ F.reg = reg /\ F.ret = stack[current][L].ret
  BY <1>2, <1>5, Zenon DEF Frames
<1> HIDE DEF F
<1>7. /\ stack' \in [Threads -> Seq(Frames)]
      /\ \A t \in Threads : Len(stack'[t]) = Len(stack[t])
      /\ \A t \in Threads : \A n \in 1 .. Len(stack[t]) :
             /\ stack'[t][n].ret = stack[t][n].ret
             /\ t # current \/ n # L => stack'[t][n] = stack[t][n]
      /\ stack'[current][L].reg = reg
  <2>1. [stack[current] EXCEPT ![L] = F] \in Seq(Frames) /\ Len([stack[current] EXCEPT ![L] = F]) = L
    BY <1>2, <1>3, <1>6
  <2>2. stack' = [stack EXCEPT ![current] = [stack[current] EXCEPT ![L] = F]]
    BY <1>4 DEF F
  <2> QED BY <1>2, <1>3, <1>6, <2>1, <2>2
<1>8. ASSUME NEW t \in Threads, NEW n \in 0 .. Len(stack[t]), t # current \/ n # L
      PROVE  At(t, n)' = At(t, n)
  <2>1. CASE n = Len(stack[t])
    BY <1>1, <1>2, <1>7, <1>8, <2>1 DEF At
  <2>2. CASE n + 1 \in 1 .. Len(stack[t])
    <3>1. n # Len(stack[t]) /\ n # Len(stack'[t])
      BY <1>2, <1>7, <2>2
    <3> QED BY <1>7, <2>2, <3>1 DEF At
  <2> QED BY <1>2, <2>1, <2>2
<1>9. Types'
  BY <1>1, <1>2, <1>7 DEF IInv, Types, Places
<1>10. Base'
  <2>1. \A t \in Threads : At(t, 0)' = At(t, 0)
    BY <1>2, <1>3, <1>8
  <2>2. ASSUME NEW t \in Threads, NEW n \in 1 .. Len(stack[t]) PROVE At(t, n)' \notin Outside
    <3>1. CASE t = current /\ n = L
      BY <1>1, <1>2, <1>7, <3>1 DEF At, Outside
    <3>2. CASE t # current \/ n # L
      <4>1. n \in 0 .. Len(stack[t])
        OBVIOUS
      <4> QED BY <1>8, <3>2, <4>1 DEF IInv, Base
    <3> QED BY <3>1, <3>2
  <2> QED BY <1>7, <2>1, <2>2 DEF IInv, Base
<1>11. Saved'
  <2> SUFFICES ASSUME NEW t \in Threads, NEW n \in 1 .. Len(stack[t]),
                      Carries(t, n - 1)', At(t, n)' # "push"
               PROVE  stack'[t][n].reg = t
    BY <1>7 DEF Saved
  <2>1. \A m \in 0 .. n - 1 : At(t, m)' = At(t, m)
    BY <1>2, <1>8
  <2>2. Carries(t, n - 1)
    BY <1>2, <2>1 DEF Carries
  <2>3. CASE t # current \/ n # L
    BY <1>2, <1>7, <1>8, <2>2, <2>3 DEF IInv, Saved
  <2>4. CASE t = current /\ n = L
    <3>1. At(current, L) = "push"
      BY <1>1 DEF At
    <3>2. Carries(current, L)
      BY <1>3, <2>2, <2>4, <3>1 DEF Carries
    <3> QED BY <1>7, <2>4, <3>2 DEF IInv, InRegister
  <2> QED BY <2>3, <2>4
<1>12. InRegister'
  <2>1. At(current, Len(stack[current]))' = "mark" /\ Len(stack'[current']) = L
    BY <1>1, <1>2, <1>7 DEF At
  <2> QED BY <1>3, <2>1 DEF InRegister, Carries
<1>13. Others'
  BY <1>1, <1>2 DEF IInv, Types, Others
<1>14. Marked'
  BY <1>1, <1>2, <1>7 DEF IInv, Marked, Deciding
<1> QED BY <1>9, <1>10, <1>11, <1>12, <1>13, <1>14 DEF IInv

\* ret takes the innermost call off; its caller goes on where it was interrupted.
LEMMA ReturnLemma == IInv /\ Return => IInv'
<1> SUFFICES ASSUME IInv, Return PROVE IInv'
  OBVIOUS
<1>0. PICK c \in Threads, k \in Nat : c = current /\ c = current' /\ k = Len(stack[c])
  BY DEF IInv, Types, Return, Step
<1> DEFINE S == SubSeq(stack[c], 1, k - 1)
<1>1. /\ pc[c] = "return" /\ pc' = [pc EXCEPT ![c] = stack[c][k].ret]
      /\ stack' = [stack EXCEPT ![c] = S]
      /\ k > 0
      /\ UNCHANGED <<ready, current, reg, inContextSwitch>>
  BY <1>0 DEF Return, Step, Top
<1>2. /\ \A t \in Threads : stack[t] \in Seq(Frames) /\ Len(stack[t]) \in Nat
      /\ pc \in [Threads -> Places] /\ stack \in [Threads -> Seq(Frames)]
  BY DEF IInv, Types
<1>3. k \in Nat \ {0} /\ stack[c][k] \in Frames
  BY <1>0, <1>1, <1>2
<1>4. S \in Seq(Frames) /\ Len(S) = k - 1 /\ \A n \in 1 .. k - 1 : S[n] = stack[c][n]
  BY <1>0, <1>2, <1>3, SubSeqProperties
<1> HIDE DEF S
<1>5. /\ stack' \in [Threads -> Seq(Frames)]
      /\ Len(stack'[c]) = k - 1
      /\ \A t \in Threads : t # c => stack'[t] = stack[t] /\ pc'[t] = pc[t]
      /\ \A n \in 1 .. k - 1 : stack'[c][n] = stack[c][n]
  BY <1>0, <1>1, <1>2, <1>4
<1>6. ASSUME NEW t \in Threads, t # c, NEW n \in 0 .. Len(stack[t])
      PROVE  At(t, n)' = At(t, n)
  BY <1>0, <1>5, <1>6 DEF At
<1>7. ASSUME NEW n \in 0 .. k - 1 PROVE At(c, n)' = At(c, n)
  <2>1. CASE n = k - 1
    <3>1. n + 1 = k /\ n # k
      BY <1>0, <1>3, <2>1
    <3> QED BY <1>0, <1>1, <1>2, <1>5, <2>1, <3>1 DEF At
  <2>2. CASE n # k - 1
    <3>1. n + 1 \in 1 .. k - 1 /\ n # k
      BY <1>0, <1>3, <1>7, <2>2
    <3> QED BY <1>0, <1>1, <1>5, <2>2, <3>1 DEF At
  <2> QED BY <2>1, <2>2
<1>8. Types'
  BY <1>0, <1>1, <1>2, <1>3, <1>5, Zenon DEF IInv, Types, Frames
<1>9. Base'
  <2>1. \A t \in Threads : At(t, 0)' = At(t, 0) /\ \A n \in 1 .. Len(stack'[t]) :
            n \in 1 .. Len(stack[t]) /\ At(t, n)' = At(t, n)
    <3> SUFFICES ASSUME NEW t \in Threads
                 PROVE  /\ At(t, 0)' = At(t, 0)
                        /\ \A n \in 1 .. Len(stack'[t]) :
                              n \in 1 .. Len(stack[t]) /\ At(t, n)' = At(t, n)
      OBVIOUS
    <3>1. CASE t = c
      <4>1. 0 \in 0 .. k - 1 /\ \A n \in 1 .. k - 1 : n \in 0 .. k - 1 /\ n \in 1 .. k
        BY <1>3
      <4> QED BY <1>0, <1>5, <1>7, <3>1, <4>1
    <3>2. CASE t # c
      <4>1. 0 \in 0 .. Len(stack[t]) /\ \A n \in 1 .. Len(stack[t]) : n \in 0 .. Len(stack[t])
        BY <1>2
      <4> QED BY <1>5, <1>6, <3>2, <4>1
    <3> QED BY <3>1, <3>2
  <2> QED BY <2>1 DEF IInv, Base
<1>10. Saved'
  <2> SUFFICES ASSUME NEW t \in Threads, NEW n \in 1 .. Len(stack'[t]),
                      Carries(t, n - 1)', At(t, n)' # "push"
               PROVE  stack'[t][n].reg = t
    BY DEF Saved
  <2>1. n \in 1 .. Len(stack[t]) /\ \A m \in 0 .. n : At(t, m)' = At(t, m)
    BY <1>0, <1>2, <1>3, <1>5, <1>6, <1>7
  <2>2. Carries(t, n - 1)
    BY <2>1 DEF Carries
  <2>3. stack'[t][n] = stack[t][n]
    BY <1>0, <1>3, <1>5
  <2> QED BY <2>1, <2>2, <2>3 DEF IInv, Saved
<1>11. InRegister'
  <2> SUFFICES ASSUME Carries(c, k - 1)' PROVE reg = c
    BY <1>0, <1>1, <1>5 DEF InRegister
  <2>1. Carries(c, k - 1)
    BY <1>0, <1>3, <1>7 DEF Carries
  <2>2. At(c, k) = "return"
    BY <1>0, <1>1 DEF At
  <2>3. Carries(c, k)
    BY <1>0, <1>3, <2>1, <2>2 DEF Carries
  <2> QED BY <1>0, <2>3 DEF IInv, InRegister
<1>12. Others'
  BY <1>0, <1>1, <1>2 DEF IInv, Types, Others
<1>13. Marked'
  <2>1. stack[c][k].ret \notin Deciding
    BY <1>0, <1>2, <1>3 DEF IInv, Marked
  <2>2. \A t \in Threads : \A n \in 1 .. Len(stack'[t]) : stack'[t][n].ret \notin Deciding
    <3> SUFFICES ASSUME NEW t \in Threads, NEW n \in 1 .. Len(stack'[t])
                 PROVE  stack'[t][n].ret \notin Deciding
      OBVIOUS
    <3>1. n \in 1 .. Len(stack[t]) /\ stack'[t][n] = stack[t][n]
      BY <1>0, <1>3, <1>5
    <3> QED BY <3>1 DEF IInv, Marked
  <2>3. ~inContextSwitch
    BY <1>0, <1>1 DEF IInv, Marked, Deciding
  <2>4. pc'[c] \notin Deciding
    BY <1>0, <1>1, <1>2, <2>1
  <2> QED BY <1>0, <1>1, <2>2, <2>3, <2>4 DEF IInv, Marked
<1> QED BY <1>0, <1>8, <1>9, <1>10, <1>11, <1>12, <1>13 DEF IInv

\* The monitor process forces a call: the register is still the interrupted code's.
LEMMA InjectLemma == IInv /\ Inject => IInv'
<1> SUFFICES ASSUME IInv, Inject PROVE IInv'
  OBVIOUS
<1>0. PICK c \in Threads, k \in Nat : c = current /\ c = current' /\ k = Len(stack[c])
  BY DEF IInv, Types, Inject
<1> DEFINE F == [ret |-> pc[c], reg |-> Junk]
           S == Append(stack[c], F)
<1>1. /\ pc' = [pc EXCEPT ![c] = "push"]
      /\ stack' = [stack EXCEPT ![c] = S]
      /\ ~inContextSwitch
      /\ UNCHANGED <<ready, current, reg, inContextSwitch>>
  BY <1>0 DEF Inject
<1>2. /\ \A t \in Threads : stack[t] \in Seq(Frames) /\ Len(stack[t]) \in Nat
      /\ pc \in [Threads -> Places] /\ stack \in [Threads -> Seq(Frames)]
  BY DEF IInv, Types
<1>3. F \in Frames /\ F.ret = pc[c]
  BY <1>0, <1>2 DEF Frames
<1> HIDE DEF F
<1>4. S \in Seq(Frames) /\ Len(S) = k + 1 /\ S[k + 1] = F
      /\ \A n \in 1 .. k : S[n] = stack[c][n]
  BY <1>0, <1>2, <1>3
<1> HIDE DEF S
<1>5. /\ stack' \in [Threads -> Seq(Frames)]
      /\ Len(stack'[c]) = k + 1
      /\ \A t \in Threads : t # c => stack'[t] = stack[t] /\ pc'[t] = pc[t]
      /\ \A n \in 1 .. k : stack'[c][n] = stack[c][n]
      /\ stack'[c][k + 1] = F
  BY <1>0, <1>1, <1>2, <1>4
<1>6. ASSUME NEW t \in Threads, t # c, NEW n \in 0 .. Len(stack[t])
      PROVE  At(t, n)' = At(t, n)
  BY <1>0, <1>5, <1>6 DEF At
<1>7. ASSUME NEW n \in 0 .. k PROVE At(c, n)' = At(c, n)
  <2>1. CASE n = k
    <3>1. n # k + 1
      BY <1>0, <1>2, <2>1
    <3> QED BY <1>0, <1>1, <1>3, <1>5, <2>1, <3>1 DEF At
  <2>2. CASE n # k
    <3>1. n + 1 \in 1 .. k /\ n # k + 1
      BY <1>0, <1>2, <1>7, <2>2
    <3> QED BY <1>0, <1>1, <1>5, <2>2, <3>1 DEF At
  <2> QED BY <2>1, <2>2
<1>8. At(c, k + 1)' = "push"
  BY <1>0, <1>1, <1>2, <1>5 DEF At
<1>9. Types'
  BY <1>0, <1>1, <1>2, <1>5 DEF IInv, Types, Places
<1>10. Base'
  <2>1. \A t \in Threads : At(t, 0)' = At(t, 0)
    BY <1>0, <1>2, <1>6, <1>7
  <2>2. ASSUME NEW t \in Threads, NEW n \in 1 .. Len(stack'[t]) PROVE At(t, n)' \notin Outside
    <3>1. CASE t = c /\ n = k + 1
      BY <1>8, <3>1 DEF Outside
    <3>2. CASE t # c \/ n # k + 1
      <4>1. n \in 1 .. Len(stack[t])
        BY <1>0, <1>5, <3>2
      <4>2. At(t, n)' = At(t, n)
        <5>1. n \in 0 .. Len(stack[t])
          BY <4>1
        <5> QED BY <1>0, <1>6, <1>7, <5>1
      <4> QED BY <4>1, <4>2 DEF IInv, Base
    <3> QED BY <3>1, <3>2
  <2> QED BY <2>1, <2>2 DEF IInv, Base
<1>11. Saved'
  <2> SUFFICES ASSUME NEW t \in Threads, NEW n \in 1 .. Len(stack'[t]),
                      Carries(t, n - 1)', At(t, n)' # "push"
               PROVE  stack'[t][n].reg = t
    BY DEF Saved
  <2>1. n \in 1 .. Len(stack[t])
    <3>1. ~(t = c /\ n = k + 1)
      BY <1>8
    <3>2. t # c => Len(stack'[t]) = Len(stack[t])
      BY <1>5
    <3> QED BY <1>0, <1>5, <3>1, <3>2
  <2>2. \A m \in 0 .. n : At(t, m)' = At(t, m)
    BY <1>0, <1>2, <1>6, <1>7, <2>1
  <2>3. Carries(t, n - 1)
    BY <2>2 DEF Carries
  <2>4. stack'[t][n] = stack[t][n]
    BY <1>0, <1>5, <2>1
  <2> QED BY <2>1, <2>2, <2>3, <2>4 DEF IInv, Saved
<1>12. InRegister'
  <2> SUFFICES ASSUME Carries(c, k + 1)' PROVE reg = c
    BY <1>0, <1>1, <1>5 DEF InRegister
  <2>1. Carries(c, k)
    BY <1>0, <1>2, <1>7 DEF Carries
  <2> QED BY <1>0, <2>1 DEF IInv, InRegister
<1>13. Others'
  <2>1. \A i \in 1 .. Len(ready) : ready[i] \in Threads /\ ready[i] # c /\ pc[ready[i]] = "on"
    BY <1>0 DEF IInv, Types, Others
  <2> QED BY <1>0, <1>1, <1>5, <2>1 DEF IInv, Others
<1>14. Marked'
  <2>1. pc[c] \notin Deciding
    BY <1>0, <1>1 DEF IInv, Marked
  <2>2. \A t \in Threads : \A n \in 1 .. Len(stack'[t]) : stack'[t][n].ret \notin Deciding
    <3> SUFFICES ASSUME NEW t \in Threads, NEW n \in 1 .. Len(stack'[t])
                 PROVE  stack'[t][n].ret \notin Deciding
      OBVIOUS
    <3>1. CASE t = c /\ n = k + 1
      BY <1>3, <1>5, <2>1, <3>1
    <3>2. CASE t # c \/ n # k + 1
      <4>1. n \in 1 .. Len(stack[t]) /\ stack'[t][n] = stack[t][n]
        BY <1>0, <1>5, <3>2
      <4> QED BY <4>1 DEF IInv, Marked
    <3> QED BY <3>1, <3>2
  <2>3. pc'[c] \notin Deciding
    BY <1>0, <1>1, <1>2 DEF Deciding
  <2> QED BY <1>0, <1>1, <2>2, <2>3 DEF IInv, Marked
<1> QED BY <1>0, <1>9, <1>10, <1>11, <1>12, <1>13, <1>14 DEF IInv

\* A context switch: the thread that goes leaves nothing in the register, and the
\* one that comes expects nothing there.
LEMMA SwitchLemma == IInv /\ Switch => IInv'
<1> SUFFICES ASSUME IInv, Switch PROVE IInv'
  OBVIOUS
<1>1. /\ pc[current] = "switch" /\ pc' = [pc EXCEPT ![current] = "on"] /\ reg' = Junk
      /\ UNCHANGED <<stack, inContextSwitch>>
      /\ IF ready = <<>> THEN UNCHANGED <<current, ready>>
         ELSE current' = Head(ready) /\ ready' = Append(Tail(ready), current)
  BY DEF Switch, Step
<1>2. inContextSwitch' \in BOOLEAN /\ ~inContextSwitch
  BY <1>1 DEF IInv, Marked, Deciding
<1>3. CASE ready = <<>>
  BY <1>1, <1>2, <1>3, PlainMove, Zenon DEF Places, Inside, Outside, Deciding
<1>4. CASE ready # <<>>
  <2>1. /\ current \in Threads /\ pc \in [Threads -> Places] /\ ready \in Seq(Threads)
        /\ stack \in [Threads -> Seq(Frames)]
    BY DEF IInv, Types
  <2>2. /\ Head(ready) = ready[1] /\ Head(ready) \in Threads /\ Len(ready) \in Nat \ {0}
        /\ Tail(ready) \in Seq(Threads) /\ Len(Tail(ready)) = Len(ready) - 1
        /\ \A i \in 1 .. Len(ready) - 1 : Tail(ready)[i] = ready[i + 1]
    BY <1>4, <2>1
  <2>3. PICK c \in Threads, h \in Threads : c = current /\ h = current' /\ h = ready[1]
    BY <1>1, <1>4, <2>1, <2>2
  <2>4. /\ ready' \in Seq(Threads) /\ Len(ready') = Len(ready) /\ ready'[Len(ready)] = c
        /\ \A i \in 1 .. Len(ready) - 1 : ready'[i] = ready[i + 1]
    <3> DEFINE R == Tail(ready)
    <3>1. R \in Seq(Threads) /\ Len(R) = Len(ready) - 1 /\ ready' = Append(R, c)
          /\ \A i \in 1 .. Len(R) : R[i] = ready[i + 1]
      BY <1>1, <1>4, <2>2, <2>3
    <3> HIDE DEF R
    <3>2. /\ Append(R, c) \in Seq(Threads) /\ Len(Append(R, c)) = Len(R) + 1
          /\ Append(R, c)[Len(R) + 1] = c
          /\ \A i \in 1 .. Len(R) : Append(R, c)[i] = R[i]
      BY <3>1
    <3>3. Len(ready) \in Nat
      BY <2>2
    <3> QED BY <3>1, <3>2, <3>3
  <2>12. Len(ready) \in Nat \ {0}
    BY <2>2
  <2>5. Types'
    BY <1>1, <2>1, <2>3, <2>4 DEF Types, Places
  <2>6. h # c /\ pc[h] = "on" /\ \A i \in 1 .. Len(ready) : ready[i] \in Threads
    BY <2>1, <2>2, <2>3 DEF IInv, Others
  <2>7. /\ pc'[c] = "on" /\ pc'[h] = "on"
        /\ \A t \in Threads : t # c => pc'[t] = pc[t]
    BY <1>1, <2>1, <2>3, <2>6
  <2>8. Saved' /\ Base'
    <3>1. pc' \in [Threads -> Places]
      BY <2>5 DEF Types
    <3> QED BY <1>1, <2>3, <2>7, <3>1, MoveLemma DEF Inside, Outside
  <2>9. InRegister'
    <3>1. At(current, Len(stack[current]))' = "on" /\ Len(stack'[current']) \in Nat
      BY <2>3, <2>5, <2>7 DEF At, Types
    <3> QED BY <3>1 DEF InRegister, Carries
  <2>10. Others'
    <3>1. \A t \in Threads : t # h => pc'[t] \in {"none", "on"}
      BY <2>3, <2>7 DEF IInv, Others
    <3>2. \A i \in 1 .. Len(ready) - 1 :
             i + 1 \in 1 .. Len(ready) /\ ready'[i] = ready[i + 1] /\ ready'[i] # c /\ ready'[i] # h
      BY <2>2, <2>3, <2>4 DEF IInv, Others
    <3>3. \A i \in 1 .. Len(ready) : ready'[i] # h /\ pc'[ready'[i]] = "on"
      <4> SUFFICES ASSUME NEW i \in 1 .. Len(ready) PROVE ready'[i] # h /\ pc'[ready'[i]] = "on"
        OBVIOUS
      <4>1. CASE i = Len(ready)
        BY <2>4, <2>6, <2>7, <4>1
      <4>2. CASE i # Len(ready)
        <5>1. i \in 1 .. Len(ready) - 1
          BY <2>12, <4>2
        <5>2. pc[ready[i + 1]] = "on" /\ ready[i + 1] \in Threads
          BY <2>6, <3>2, <5>1 DEF IInv, Others
        <5> QED BY <2>7, <3>2, <5>1, <5>2
      <4> QED BY <4>1, <4>2
    <3>4. ASSUME NEW i \in 1 .. Len(ready), NEW j \in 1 .. Len(ready), ready'[i] = ready'[j]
          PROVE  i = j
      <4>1. i = Len(ready) <=> j = Len(ready)
        BY <2>4, <2>12, <3>2, <3>4
      <4>2. CASE i # Len(ready)
        <5>1. i \in 1 .. Len(ready) - 1 /\ j \in 1 .. Len(ready) - 1
          BY <2>12, <4>1, <4>2
        <5>2. i + 1 = j + 1
          BY <3>2, <3>4, <5>1 DEF IInv, Others
        <5> QED BY <5>1, <5>2
      <4> QED BY <4>1, <4>2
    <3> QED BY <2>3, <2>4, <3>1, <3>3, <3>4 DEF Others
  <2>11. Marked'
    <3>1. pc'[current'] \notin Deciding
      BY <2>3, <2>7 DEF Deciding
    <3> QED BY <1>1, <1>2, <3>1 DEF IInv, Marked
  <2> QED BY <2>5, <2>8, <2>9, <2>10, <2>11 DEF IInv
<1> QED BY <1>3, <1>4

\* Fork makes a new thread ready.
LEMMA ForkLemma == IInv /\ ForkReady => IInv'
<1> SUFFICES ASSUME IInv, ForkReady PROVE IInv'
  OBVIOUS
<1>1. PICK t \in Threads :
        /\ pc[current] = "fork" /\ pc[t] = "none"
        /\ pc' = [pc EXCEPT ![current] = "on", ![t] = "on"]
        /\ ready' = Append(ready, t)
        /\ UNCHANGED <<stack, current, reg, inContextSwitch>>
  BY Zenon DEF ForkReady
<1>2. /\ current \in Threads /\ pc \in [Threads -> Places] /\ ready \in Seq(Threads)
      /\ stack \in [Threads -> Seq(Frames)]
  BY DEF IInv, Types
<1>3. /\ pc' \in [Threads -> Places] /\ pc'[current] = "on" /\ pc'[t] = "on" /\ t # current
      /\ \A u \in Threads : u # current /\ u # t => pc'[u] = pc[u]
  BY <1>1, <1>2, Zenon DEF Places
<1>4. /\ ready' \in Seq(Threads) /\ Len(ready) \in Nat /\ Len(ready') = Len(ready) + 1
      /\ ready'[Len(ready) + 1] = t
      /\ \A i \in 1 .. Len(ready) : ready'[i] = ready[i] /\ ready[i] \in Threads
  BY <1>1, <1>2
<1>5. Types'
  BY <1>1, <1>2, <1>3, <1>4, Zenon DEF IInv, Types
<1>6. Saved' /\ Base'
  <2>1. \A u \in Threads : pc'[u] # pc[u] => pc[u] # "push" /\ pc'[u] \notin Inside \cup Outside
    BY <1>1, <1>3 DEF Inside, Outside
  <2> QED BY <1>1, <1>3, <2>1, MoveLemma
<1>7. InRegister'
  <2>1. At(current, Len(stack[current]))' = "on" /\ Len(stack'[current']) \in Nat
    BY <1>1, <1>3, <1>5 DEF At, Types
  <2> QED BY <2>1 DEF InRegister, Carries
<1>8. Others'
  <2>1. \A u \in Threads : u # current => pc'[u] \in {"none", "on"}
    BY <1>3 DEF IInv, Others
  <2>2. \A i \in 1 .. Len(ready) : ready[i] # t /\ ready[i] # current /\ pc'[ready[i]] = "on"
    BY <1>1, <1>3, <1>4 DEF IInv, Others
  <2>3. \A i \in 1 .. Len(ready') : ready'[i] # current /\ pc'[ready'[i]] = "on"
    BY <1>3, <1>4, <2>2
  <2>4. \A i, j \in 1 .. Len(ready') : ready'[i] = ready'[j] => i = j
    BY <1>4, <2>2 DEF IInv, Others
  <2> QED BY <1>1, <2>1, <2>3, <2>4, Zenon DEF Others
<1>9. Marked'
  <2>1. pc[current] \notin Deciding /\ pc'[current'] \notin Deciding
    BY <1>1, <1>3 DEF Deciding
  <2> QED BY <1>1, <2>1 DEF IInv, Marked
<1> QED BY <1>5, <1>6, <1>7, <1>8, <1>9 DEF IInv

\* pop brings back what the push of the same call saved.
LEMMA PopLemma == IInv /\ Pop => IInv'
<1> SUFFICES ASSUME IInv, Pop PROVE IInv'
  OBVIOUS
<1>0. PICK c \in Threads, k \in Nat : c = current /\ c = current' /\ k = Len(stack[c])
  BY DEF IInv, Types, Pop, Step
<1>1. /\ pc[c] = "pop" /\ pc' = [pc EXCEPT ![current] = "return"]
      /\ reg' = stack[c][k].reg
      /\ UNCHANGED <<stack, ready, current, inContextSwitch>>
  BY <1>0 DEF Pop, Step, Top
<1>2. stack[c] \in Seq(Frames) /\ k # 0
  BY <1>0, <1>1 DEF IInv, Types, Base, At, Inside
<1>3. stack[c][k] \in Frames
  BY <1>0, <1>2
<1>4. reg' \in Threads \cup {Junk}
  BY <1>1, <1>3 DEF Frames
<1>5. inContextSwitch' \in BOOLEAN /\ ~inContextSwitch'
  BY <1>0, <1>1 DEF IInv, Marked, Deciding
<1>6. Types' /\ Base' /\ Saved' /\ Others' /\ Marked'
  BY <1>0, <1>1, <1>4, <1>5, StepMove DEF Places, Inside, Outside, Deciding
<1>7. InRegister'
  <2> SUFFICES ASSUME Carries(c, k)' PROVE reg' = c
    BY <1>0, <1>1 DEF InRegister
  <2>1. \A m \in 0 .. k - 1 : At(c, m)' = At(c, m)
    BY <1>0, <1>1 DEF At
  <2>2. Carries(c, k - 1)
    BY <1>0, <1>2, <2>1 DEF Carries
  <2>3. At(c, k) = "pop"
    BY <1>0, <1>1 DEF At
  <2>4. k \in 1 .. Len(stack[c])
    BY <1>0, <1>2
  <2> QED BY <1>1, <2>2, <2>3, <2>4 DEF IInv, Saved
<1> QED BY <1>6, <1>7 DEF IInv

\* Every step keeps the invariant: one case per action.
LEMMA StepLemma == IInv /\ [Next]_vars => IInv'
<1> SUFFICES ASSUME IInv, [Next]_vars PROVE IInv'
  OBVIOUS
<1> DEFINE Core == <<pc, stack, ready, current, reg, inContextSwitch>>
<1>0. /\ current \in Threads /\ pc \in [Threads -> Places] /\ reg \in Threads \cup {Junk}
      /\ inContextSwitch \in BOOLEAN /\ (pc[current] \in Deciding <=> inContextSwitch)
  BY DEF IInv, Types, Marked
<1>1. CASE Compute
  <2>1. pc[current] = "set" /\ pc' = [pc EXCEPT ![current] = "use"] /\ reg' = current
        /\ UNCHANGED <<stack, ready, current, inContextSwitch>>
    BY <1>1 DEF Compute, Step
  <2>2. inContextSwitch' \in BOOLEAN /\ ~inContextSwitch'
    BY <1>0, <2>1 DEF Deciding
  <2>3. Types' /\ Base' /\ Saved' /\ Others' /\ Marked'
    BY <1>0, <2>1, <2>2, StepMove DEF Places, Inside, Outside, Deciding
  <2> QED BY <2>1, <2>3 DEF IInv, InRegister
<1>2. CASE Use
  <2>1. pc[current] = "use" /\ pc' = [pc EXCEPT ![current] = "set"]
        /\ UNCHANGED <<stack, ready, current, reg, inContextSwitch>>
    BY <1>2 DEF Use, Step
  <2> QED BY <1>0, <2>1, PlainMove, Zenon DEF Places, Inside, Outside, Deciding
<1>3. CASE ForkOff
  <2>1. pc[current] = "set" /\ pc' = [pc EXCEPT ![current] = "fork"]
        /\ UNCHANGED <<stack, ready, current, reg, inContextSwitch>>
    BY <1>3 DEF ForkOff, Step
  <2> QED BY <1>0, <2>1, PlainMove, Zenon DEF Places, Inside, Outside, Deciding
<1>4. CASE ForkReady
  BY <1>4, ForkLemma
<1>5. CASE Push
  BY <1>5, PushLemma
<1>6. CASE Mark
  <2>1. pc[current] = "mark" /\ pc' = [pc EXCEPT ![current] = "test"]
        /\ UNCHANGED <<stack, ready, current, reg>>
    BY <1>6 DEF Mark, Step
  <2>2. inContextSwitch' \in BOOLEAN /\ inContextSwitch'
    BY <1>6 DEF Mark
  <2> QED BY <1>0, <2>1, <2>2, PlainMove, Zenon DEF Places, Inside, Outside, Deciding
<1>7. CASE Test
  <2>1. PICK b \in {"clear", "ask"} :
           pc[current] = "test" /\ pc' = [pc EXCEPT ![current] = b] /\ reg' = Junk
           /\ UNCHANGED <<stack, ready, current, inContextSwitch>>
    BY <1>7, Zenon DEF Test, Step
  <2>2. inContextSwitch' \in BOOLEAN /\ inContextSwitch'
    BY <1>0, <2>1 DEF Deciding
  <2> QED BY <1>0, <2>1, <2>2, PlainMove, Zenon DEF Places, Inside, Outside, Deciding
<1>8. CASE Clear
  <2>1. pc[current] = "clear" /\ pc' = [pc EXCEPT ![current] = "off"]
        /\ UNCHANGED <<stack, ready, current, reg>>
    BY <1>8 DEF Clear, Step
  <2>2. inContextSwitch' \in BOOLEAN /\ ~inContextSwitch'
    BY <1>8, Zenon DEF Clear
  <2> QED BY <1>0, <2>1, <2>2, PlainMove, Zenon DEF Places, Inside, Outside, Deciding
<1>9. CASE Off
  <2>1. pc[current] = "off" /\ pc' = [pc EXCEPT ![current] = "switch"]
        /\ UNCHANGED <<stack, ready, current, reg, inContextSwitch>>
    BY <1>9 DEF Off, Step
  <2> QED BY <1>0, <2>1, PlainMove, Zenon DEF Places, Inside, Outside, Deciding
<1>10. CASE Switch
  BY <1>10, SwitchLemma
<1>11. CASE On
  <2>1. pc[current] = "on" /\ pc' = [pc EXCEPT ![current] = "tick"]
        /\ UNCHANGED <<stack, ready, current, reg, inContextSwitch>>
    BY <1>11 DEF On, Step
  <2> QED BY <1>0, <2>1, PlainMove, Zenon DEF Places, Inside, Outside, Deciding
<1>12. CASE Tick
  <2>1. PICK b \in {"off", "set", "pop"} :
           pc[current] = "tick" /\ pc' = [pc EXCEPT ![current] = b]
           /\ (b = "pop" => stack[current] # <<>>) /\ (b = "set" => stack[current] = <<>>)
           /\ UNCHANGED <<stack, ready, current, reg, inContextSwitch>>
    BY <1>12, Zenon DEF Tick, Step
  <2> QED BY <1>0, <2>1, PlainMove, Zenon DEF Places, Inside, Outside, Deciding
<1>13. CASE Ask
  <2>1. pc[current] = "ask" /\ pc' = [pc EXCEPT ![current] = "unmark"]
        /\ UNCHANGED <<stack, ready, current, reg, inContextSwitch>>
    BY <1>13 DEF Ask, Step
  <2> QED BY <1>0, <2>1, PlainMove, Zenon DEF Places, Inside, Outside, Deciding
<1>14. CASE Unmark
  <2>1. pc[current] = "unmark" /\ pc' = [pc EXCEPT ![current] = "pop"]
        /\ UNCHANGED <<stack, ready, current, reg>>
    BY <1>14 DEF Unmark, Step
  <2>2. inContextSwitch' \in BOOLEAN /\ ~inContextSwitch'
    BY <1>14, Zenon DEF Unmark
  <2> QED BY <1>0, <2>1, <2>2, PlainMove, Zenon DEF Places, Inside, Outside, Deciding
<1>15. CASE Pop
  BY <1>15, PopLemma
<1>16. CASE Return
  BY <1>16, ReturnLemma
<1>17. CASE Inject
  BY <1>17, InjectLemma
<1>18. CASE UNCHANGED Core
  <2>1. \A t, n : At(t, n)' = At(t, n)
    BY <1>18 DEF At
  <2> QED BY <1>18, <2>1 DEF IInv, Types, Base, Saved, InRegister, Others, Marked, Carries
<1>19. Exit \/ Resume \/ Exits \/ UNCHANGED vars => UNCHANGED Core
  BY DEF Exit, Resume, Exits, vars
<1> QED
  BY <1>1, <1>2, <1>3, <1>4, <1>5, <1>6, <1>7, <1>8, <1>9, <1>10, <1>11, <1>12, <1>13,
     <1>14, <1>15, <1>16, <1>17, <1>18, <1>19 DEF Next, ChildStep

\* IInv holds in every state of Nachos under the monitor process.
LEMMA Invariance == FirstAssumption /\ Spec => []IInv
<1>1. FirstAssumption /\ Init => IInv
  BY InitLemma
<1>2. IInv /\ [Next]_vars => IInv'
  BY StepLemma
<1> QED BY <1>1, <1>2, PTL DEF Spec

\* preemptive.cc:109-147: whatever instructions the calls of ContextSwitch are forced
\* between, however they nest and whichever threads they switch to, a thread finds
\* in the register what it computed there.
LEMMA ValuesAreKept == FirstAssumption /\ Spec => []FoundAsLeft
<1>1. IInv => FoundAsLeft
  <2> SUFFICES ASSUME IInv, pc[current] = "use" PROVE reg = current
    BY DEF FoundAsLeft
  <2>1. CASE Len(stack[current]) = 0
    BY <2>1 DEF IInv, InRegister, Carries, At
  <2>2. CASE Len(stack[current]) # 0
    <3>1. Len(stack[current]) \in Nat /\ At(current, Len(stack[current])) = "use"
      BY DEF IInv, Types, At
    <3> QED BY <2>2, <3>1 DEF IInv, Types, Base, Outside
  <2> QED BY <2>1, <2>2
<1> QED BY <1>1, Invariance, PTL

\* preemptive.cc:86: the monitor's test of inContextSwitch keeps a second call out of
\* the part that decides between yielding and asking for a yield.
LEMMA DecisionIsExclusive == FirstAssumption /\ Spec => []NotReentered
<1>1. IInv => NotReentered
  <2> SUFFICES ASSUME IInv PROVE NotReentered
    OBVIOUS
  <2>1. \A t \in Threads : DOMAIN stack[t] = 1 .. Len(stack[t])
    BY DEF IInv, Types
  <2>2. \A t \in Threads : \A n \in DOMAIN stack[t] : stack[t][n].ret \notin Deciding
    BY <2>1 DEF IInv, Marked
  <2>3. \A t \in Threads : t # current => pc[t] \notin Deciding
    BY DEF IInv, Others, Deciding
  <2>4. CASE inContextSwitch
    <3>1. {t \in Threads : pc[t] \in Deciding} = {current}
      BY <2>3, <2>4 DEF IInv, Types, Marked
    <3>2. Cardinality({current}) = 1
      BY FS_Singleton
    <3> QED BY <2>2, <2>4, <3>1, <3>2, Zenon DEF NotReentered
  <2>5. CASE ~inContextSwitch
    <3>1. {t \in Threads : pc[t] \in Deciding} = {}
      BY <2>3, <2>5 DEF IInv, Types, Marked
    <3>2. Cardinality({}) = 0
      BY FS_EmptySet
    <3> QED BY <2>2, <2>5, <3>1, <3>2 DEF NotReentered
  <2> QED BY <2>4, <2>5
<1> QED BY <1>1, Invariance, PTL

\* preemptive.cc:81-147: forced context switches lose no register, and the decision
\* of ContextSwitch is never entered twice.
THEOREM RegistersAreKept == FirstAssumption /\ Spec => []RegistersSurvive
<1>1. FoundAsLeft /\ NotReentered => RegistersSurvive
  BY DEF RegistersSurvive
<1> QED BY <1>1, ValuesAreKept, DecisionIsExclusive, PTL
=============================================================================
