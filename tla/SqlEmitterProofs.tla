-------------------------- MODULE SqlEmitterProofs --------------------------
(* AnsiSqlEmitter emits every node of a plan once, after its inputs, for   *)
(* any number of threads; and it gives every inline view of a statement    *)
(* its own number, as long as one thread uses the emitter.                 *)
EXTENDS SqlEmitter, SequenceTheorems, TLAPS

(* What emit relies on and the type Sync does not give.                    *)
OneThread == \A t, u \in Threads : t = u

(* A call that runs has a frame, and the counter counts its aliases.       *)
HasFrame == \A t \in Threads : at[t] = "emit" => stack[t] # <<>>

Counted == \A t \in Threads : at[t] = "emit" => alias_counter = Len(aliases[t])

IInv == TypeOK /\ HasFrame /\ Counted /\ AliasesDeterministic

(* What the walk over plan p keeps of its frames s and the nodes e that it *)
(* has emitted.                                                            *)
In(e, m) == \E j \in 1..Len(e) : e[j] = m

(* Frames are calls for an input of the frame below, down to the root.     *)
Chain(p, s) ==
  /\ s[1].node = 1
  /\ \A i \in 1..Len(s) : s[i].done <= Len(p[s[i].node].inputs)
  /\ \A i \in 1..(Len(s) - 1) :
       /\ s[i].done < Len(p[s[i].node].inputs)
       /\ s[i + 1].node = p[s[i].node].inputs[s[i].done + 1]

FramesDiffer(s) == \A i, j \in 1..Len(s) : s[i].node = s[j].node => i = j

(* The inputs a frame counts as done are emitted.                          *)
DoneEmitted(p, s, e) ==
  \A i \in 1..Len(s), k \in Nat \ {0} : k <= s[i].done => In(e, p[s[i].node].inputs[k])

InputsFirst(p, e) ==
  \A i \in 1..Len(e), m \in Nodes : Reads(p, e[i], m) => \E j \in 1..Len(e) : j < i /\ e[j] = m

(* A node is emitted for one that is emitted later, or for a frame.        *)
Awaited(p, s, e) ==
  \A i \in 1..Len(e) :
    \/ \E j \in 1..Len(e) : i < j /\ Reads(p, e[j], e[i])
    \/ \E f \in 1..Len(s), k \in Nat \ {0} : k <= s[f].done /\ p[s[f].node].inputs[k] = e[i]

Once(s, e) ==
  /\ \A i, j \in 1..Len(e) : e[i] = e[j] => i = j
  /\ \A i \in 1..Len(s) : ~In(e, s[i].node)

Walk(p, s, e) ==
  Chain(p, s) /\ FramesDiffer(s) /\ DoneEmitted(p, s, e) /\ InputsFirst(p, e)
  /\ Awaited(p, s, e) /\ Once(s, e)

(* What EmitsPlan says of one statement.                                   *)
Finished(p, e) ==
  /\ e[Len(e)] = 1
  /\ InputsFirst(p, e)
  /\ \A i \in 1..Len(e) : i < Len(e) => \E j \in 1..Len(e) : i < j /\ Reads(p, e[j], e[i])
  /\ \A i, j \in 1..Len(e) : e[i] = e[j] => i = j

Walks == \A t \in Threads : at[t] = "emit" => Walk(plan[t], stack[t], emitted[t])

WInv == TypeOK /\ HasFrame /\ Walks /\ EmitsPlan

-----------------------------------------------------------------------------
(* A plan's nodes.                                                         *)
LEMMA PlanNodes ==
  ASSUME NEW p \in Plans, NEW n \in Nodes
  PROVE  p[n].kind \in Kinds /\ p[n].inputs \in Seq(Nodes) /\ Len(p[n].inputs) \in Nat
         /\ \A k \in 1..Len(p[n].inputs) : p[n].inputs[k] \in Nodes
<1>1. p[n] \in [kind : Kinds, inputs : Seq(Nodes)] BY PlanAssumption
<1> QED BY <1>1

(* The frame on top is one, and its node is a node of the plan.            *)
LEMMA TopIsFrame ==
  ASSUME TypeOK, NEW t \in Threads, stack[t] # <<>>
  PROVE  /\ Depth(t) \in Nat \ {0} /\ stack[t] \in Seq(Frame) /\ Top(t) \in Frame
         /\ TopNode(t).kind \in Kinds /\ TopNode(t).inputs \in Seq(Nodes)
<1>1. stack[t] \in Seq(Frame) BY DEF TypeOK
<1>2. Depth(t) \in Nat \ {0} BY <1>1 DEF Depth
<1>3. Top(t) \in Frame BY <1>1, <1>2 DEF Top, Depth
<1>4. plan[t] \in Plans /\ Top(t).node \in Nodes BY <1>3 DEF TypeOK, Frame
<1> QED BY <1>1, <1>2, <1>3, <1>4, PlanNodes DEF TopNode

(* Counting one input or one alias more leaves a frame a frame.            *)
LEMMA FrameCounts ==
  ASSUME NEW f \in Frame
  PROVE  /\ [f EXCEPT !.got = @ + 1] \in Frame /\ [f EXCEPT !.done = @ + 1] \in Frame
         /\ [f EXCEPT !.got = @ + 1].node = f.node /\ [f EXCEPT !.got = @ + 1].done = f.done
         /\ [f EXCEPT !.done = @ + 1].node = f.node /\ [f EXCEPT !.done = @ + 1].done = f.done + 1
<1>1. f.node \in Nodes /\ f.got + 1 \in Nat /\ f.done + 1 \in Nat BY DEF Frame
<1>2. [f EXCEPT !.got = @ + 1] = [node |-> f.node, done |-> f.done, got |-> f.got + 1]
  BY DEF Frame
<1>3. [f EXCEPT !.done = @ + 1] = [node |-> f.node, done |-> f.done + 1, got |-> f.got]
  BY DEF Frame
<1> QED BY <1>1, <1>2, <1>3 DEF Frame

(* The stack after each step of a call.                                    *)
LEMMA Descended ==
  ASSUME TypeOK, HasFrame, NEW t \in Threads, Descend(t)
  PROVE  /\ at[t] = "emit" /\ stack[t] # <<>> /\ NextInput(t) \in Nodes
         /\ Top(t).done + 1 \in 1..Len(TopNode(t).inputs)
         /\ Call(NextInput(t)) \in Frame
         /\ Append(stack[t], Call(NextInput(t))) \in Seq(Frame) \ {<<>>}
         /\ stack' = [stack EXCEPT ![t] = Append(stack[t], Call(NextInput(t)))]
         /\ UNCHANGED <<alias_counter, plan, emitted, aliases, at>>
<1>1. at[t] = "emit" /\ stack[t] # <<>> BY DEF Descend, HasFrame
<1>2. Top(t).done + 1 \in 1..Len(TopNode(t).inputs)
  BY <1>1, TopIsFrame DEF Descend, Frame
<1>3. NextInput(t) \in Nodes BY <1>1, <1>2, TopIsFrame DEF NextInput
<1>4. Call(NextInput(t)) \in Frame BY <1>3 DEF Call, Frame
<1>5. Append(stack[t], Call(NextInput(t))) \in Seq(Frame) \ {<<>>} BY <1>1, <1>4, TopIsFrame
<1> QED BY <1>1, <1>2, <1>3, <1>4, <1>5 DEF Descend

LEMMA Counting ==
  ASSUME TypeOK, HasFrame, NEW t \in Threads, NextAlias(t)
  PROVE  LET s == [stack[t] EXCEPT ![Depth(t)] = [Top(t) EXCEPT !.got = @ + 1]] IN
         /\ at[t] = "emit" /\ stack[t] # <<>>
         /\ stack' = [stack EXCEPT ![t] = s]
         /\ s \in Seq(Frame) /\ Len(s) = Len(stack[t])
         /\ \A i \in 1..Len(s) : s[i].node = stack[t][i].node /\ s[i].done = stack[t][i].done
<1> DEFINE f == [Top(t) EXCEPT !.got = @ + 1]
           s == [stack[t] EXCEPT ![Depth(t)] = f]
<1>1. at[t] = "emit" /\ stack[t] # <<>> BY DEF NextAlias, HasFrame
<1>2. f \in Frame /\ f.node = Top(t).node /\ f.done = Top(t).done
  <2>1. Top(t) \in Frame BY <1>1, TopIsFrame
  <2> QED BY <2>1, FrameCounts
<1>3. stack' = [stack EXCEPT ![t] = s] BY DEF NextAlias, Top
<1>4. Depth(t) \in 1..Len(stack[t]) /\ stack[t] \in Seq(Frame) BY <1>1, TopIsFrame DEF Depth
<1> HIDE DEF f
<1>5. /\ s \in Seq(Frame) /\ Len(s) = Len(stack[t])
      /\ \A i \in 1..Len(stack[t]) : s[i] = IF i = Depth(t) THEN f ELSE stack[t][i]
  BY <1>2, <1>4, ExceptSeq
<1>6. \A i \in 1..Len(s) : s[i].node = stack[t][i].node /\ s[i].done = stack[t][i].done
  BY <1>2, <1>5 DEF Top
<1> QED BY <1>1, <1>3, <1>5, <1>6 DEF f

(* A call that returns: its frame goes, the one below counts it.           *)
LEMMA Returning ==
  ASSUME TypeOK, HasFrame, NEW t \in Threads, Return(t)
  PROVE  /\ at[t] = "emit" /\ stack[t] # <<>> /\ Top(t) \in Frame
         /\ Popped(t) \in Seq(Frame)
         /\ Len(Popped(t)) = Depth(t) - 1
         /\ \A i \in 1..(Depth(t) - 1) :
              /\ Popped(t)[i].node = stack[t][i].node
              /\ Popped(t)[i].done = IF i = Depth(t) - 1 THEN stack[t][i].done + 1 ELSE stack[t][i].done
<1> DEFINE below == SubSeq(stack[t], 1, Depth(t) - 1)
<1>1. at[t] = "emit" /\ stack[t] # <<>> BY DEF Return, HasFrame
<1>2. /\ below \in Seq(Frame) /\ Len(below) = Depth(t) - 1
      /\ \A i \in 1..(Depth(t) - 1) : below[i] = stack[t][i]
  BY <1>1, TopIsFrame DEF Depth
<1>3. Depth(t) \in Nat \ {0} /\ Top(t) \in Frame BY <1>1, TopIsFrame
<1>4. CASE Depth(t) = 1
  <2>1. below = <<>> BY <1>2, <1>4, EmptySeq
  <2>2. Popped(t) = <<>> BY <2>1 DEF Popped
  <2>3. Len(<<>>) = 0 /\ <<>> \in Seq(Frame) OBVIOUS
  <2> QED BY <1>1, <1>3, <1>4, <2>2, <2>3
<1>5. CASE Depth(t) # 1
  <2>1. below # <<>> /\ Len(below) \in 1..Len(below) /\ below[Len(below)] \in Frame
    <3>1. Len(<<>>) = 0 OBVIOUS
    <3> HIDE DEF below
    <3> QED BY <1>2, <1>3, <1>5, <3>1
  <2> DEFINE f == [below[Len(below)] EXCEPT !.done = @ + 1]
  <2>2. f \in Frame /\ f.node = below[Len(below)].node /\ f.done = below[Len(below)].done + 1
    BY <2>1, FrameCounts
  <2>3. Popped(t) = [below EXCEPT ![Len(below)] = f] BY <2>1 DEF Popped
  <2> HIDE DEF below, f
  <2>4. /\ Popped(t) \in Seq(Frame) /\ Len(Popped(t)) = Len(below)
        /\ \A i \in 1..Len(below) : Popped(t)[i] = IF i = Len(below) THEN f ELSE below[i]
    BY <1>2, <2>1, <2>2, <2>3, ExceptSeq
  <2> QED BY <1>1, <1>2, <1>3, <2>2, <2>4
<1> QED BY <1>4, <1>5

(* Types and frames, for any number of threads.                            *)
LEMMA StepFrames ==
  ASSUME TypeOK, HasFrame, [Next]_vars
  PROVE  TypeOK' /\ HasFrame'
<1>1. ASSUME NEW t \in Threads, NEW p \in Plans, Emit(t, p) PROVE TypeOK' /\ HasFrame'
  <2>1. Call(1) \in Frame BY PlanAssumption DEF Call, Frame
  <2>2. TypeOK' BY <1>1, <2>1 DEF Emit, TypeOK, CounterReset
  <2>3. HasFrame' BY <1>1 DEF Emit, HasFrame, TypeOK
  <2> QED BY <2>2, <2>3
<1>2. ASSUME NEW t \in Threads, Descend(t) PROVE TypeOK' /\ HasFrame'
  <2>1. /\ Append(stack[t], Call(NextInput(t))) \in Seq(Frame) \ {<<>>} /\ stack[t] \in Seq(Frame)
        /\ stack' = [stack EXCEPT ![t] = Append(stack[t], Call(NextInput(t)))]
        /\ UNCHANGED <<alias_counter, plan, emitted, aliases, at>>
    BY <1>2, Descended DEF TypeOK
  <2>2. TypeOK' BY <2>1 DEF TypeOK
  <2>3. HasFrame' BY <2>1 DEF HasFrame, TypeOK
  <2> QED BY <2>2, <2>3
<1>3. ASSUME NEW t \in Threads, NextAlias(t) PROVE TypeOK' /\ HasFrame'
  <2> DEFINE a == [prefix |-> TopNode(t).kind, n |-> alias_counter]
             s == [stack[t] EXCEPT ![Depth(t)] = [Top(t) EXCEPT !.got = @ + 1]]
  <2>1. /\ stack[t] # <<>> /\ stack[t] \in Seq(Frame) /\ stack' = [stack EXCEPT ![t] = s]
        /\ s \in Seq(Frame) /\ Len(s) = Len(stack[t])
    BY <1>3, Counting DEF TypeOK
  <2>2. a \in Alias BY <2>1, TopIsFrame DEF Alias, TypeOK
  <2>3. aliases' = [aliases EXCEPT ![t] = Append(aliases[t], a)]
        /\ alias_counter' = alias_counter + 1 /\ UNCHANGED <<plan, emitted, at>>
    BY <1>3 DEF NextAlias, CounterNext
  <2> HIDE DEF a, s
  <2>4. Append(aliases[t], a) \in Seq(Alias) BY <2>2 DEF TypeOK
  <2>5. s # <<>> BY <2>1
  <2>6. TypeOK' BY <2>1, <2>3, <2>4 DEF TypeOK
  <2>7. HasFrame' BY <2>1, <2>3, <2>5 DEF HasFrame, TypeOK
  <2> QED BY <2>6, <2>7
<1>4. ASSUME NEW t \in Threads, Return(t) PROVE TypeOK' /\ HasFrame'
  <2>1. /\ stack[t] # <<>> /\ Top(t) \in Frame
        /\ Popped(t) \in Seq(Frame) /\ Len(Popped(t)) = Depth(t) - 1
    BY <1>4, Returning
  <2>2. Depth(t) # 1 => Popped(t) # <<>> BY <2>1, TopIsFrame
  <2>3. Append(emitted[t], Top(t).node) \in Seq(Nodes) BY <2>1 DEF Frame, TypeOK
  <2>4. TypeOK' BY <1>4, <2>1, <2>3 DEF Return, TypeOK
  <2>5. HasFrame' BY <1>4, <2>2 DEF Return, HasFrame, TypeOK
  <2> QED BY <2>4, <2>5
<1>5. ASSUME NEW t \in Threads, Fails(t) PROVE TypeOK' /\ HasFrame'
  BY <1>5 DEF Fails, TypeOK, HasFrame
<1>6. CASE UNCHANGED vars
  BY <1>6 DEF vars, TypeOK, HasFrame
<1> QED BY <1>1, <1>2, <1>3, <1>4, <1>5, <1>6 DEF Next

LEMMA InitIInv == Init => IInv
<1> SUFFICES ASSUME Init PROVE IInv OBVIOUS
<1>1. TypeOK BY DEF Init, TypeOK
<1>2. HasFrame /\ Counted BY DEF Init, HasFrame, Counted
<1>3. AliasesDeterministic BY DEF Init, AliasesDeterministic
<1> QED BY <1>1, <1>2, <1>3 DEF IInv

LEMMA StepIInv ==
  ASSUME OneThread, IInv, [Next]_vars
  PROVE  IInv'
<1> USE DEF IInv
<1>1. TypeOK' /\ HasFrame' BY StepFrames
<1>2. \A t, u \in Threads : t = u BY DEF OneThread
<1>3. ASSUME NEW t \in Threads, NEW p \in Plans, Emit(t, p) PROVE Counted' /\ AliasesDeterministic'
  BY <1>2, <1>3 DEF Emit, Counted, AliasesDeterministic, TypeOK, CounterReset
<1>4. ASSUME NEW t \in Threads, Descend(t) PROVE Counted' /\ AliasesDeterministic'
  BY <1>4 DEF Descend, Counted, AliasesDeterministic
<1>5. ASSUME NEW t \in Threads, NextAlias(t) PROVE Counted' /\ AliasesDeterministic'
  <2> DEFINE a == [prefix |-> TopNode(t).kind, n |-> alias_counter]
  <2>1. at[t] = "emit" /\ alias_counter = Len(aliases[t]) BY <1>5 DEF NextAlias, Counted
  <2>2. aliases' = [aliases EXCEPT ![t] = Append(aliases[t], a)]
        /\ alias_counter' = alias_counter + 1 /\ UNCHANGED at
    BY <1>5 DEF NextAlias, CounterNext
  <2>3. a.n = alias_counter OBVIOUS
  <2>4. a \in Alias BY <1>5, TopIsFrame, Counting DEF Alias, TypeOK
  <2> HIDE DEF a
  <2>5. aliases'[t] = Append(aliases[t], a) BY <2>2 DEF TypeOK
  <2>6. /\ Len(aliases'[t]) = Len(aliases[t]) + 1
        /\ \A i \in 1..Len(aliases[t]) : aliases'[t][i] = aliases[t][i]
        /\ aliases'[t][Len(aliases[t]) + 1] = a
    BY <2>4, <2>5 DEF TypeOK
  <2>7. Counted' BY <1>2, <2>1, <2>2, <2>6 DEF Counted
  <2>8. AliasesDeterministic'
    <3> SUFFICES ASSUME NEW i \in 1..Len(aliases'[t]) PROVE aliases'[t][i].n = i - 1
      BY <1>2 DEF AliasesDeterministic
    <3>1. CASE i \in 1..Len(aliases[t])
      BY <2>6, <3>1 DEF AliasesDeterministic
    <3>2. CASE i = Len(aliases[t]) + 1
      BY <2>1, <2>3, <2>6, <3>2 DEF TypeOK
    <3>3. Len(aliases[t]) \in Nat BY DEF TypeOK
    <3> QED BY <2>6, <3>1, <3>2, <3>3
  <2> QED BY <2>7, <2>8
<1>6. ASSUME NEW t \in Threads, Return(t) PROVE Counted' /\ AliasesDeterministic'
  BY <1>6 DEF Return, Counted, AliasesDeterministic, TypeOK
<1>7. ASSUME NEW t \in Threads, Fails(t) PROVE Counted' /\ AliasesDeterministic'
  BY <1>7 DEF Fails, Counted, AliasesDeterministic, TypeOK
<1>8. ASSUME UNCHANGED vars PROVE Counted' /\ AliasesDeterministic'
  BY <1>8 DEF vars, Counted, AliasesDeterministic
<1> QED BY <1>1, <1>3, <1>4, <1>5, <1>6, <1>7, <1>8 DEF Next

-----------------------------------------------------------------------------
(* The walk over one plan.                                                 *)
LEMMA OneReader ==
  ASSUME NEW p \in Plans, NEW m \in Nodes, NEW n \in Nodes,
         NEW i \in 1..Len(p[m].inputs), NEW j \in 1..Len(p[n].inputs),
         p[m].inputs[i] = p[n].inputs[j]
  PROVE  m = n /\ i = j
  BY TreeAssumption

LEMMA WalkStarts ==
  ASSUME NEW p \in Plans
  PROVE  Walk(p, <<Call(1)>>, <<>>)
<1> DEFINE s == <<Call(1)>>
<1>1. Len(s) = 1 /\ s[1].node = 1 /\ s[1].done = 0 BY DEF Call
<1>2. 1 \in Nodes /\ Len(p[1].inputs) \in Nat BY PlanAssumption, PlanNodes
<1>3. \A i : i \in 1..Len(s) <=> i = 1 BY <1>1
<1>4. \A i : i \notin 1..(Len(s) - 1) BY <1>1
<1>5. Len(<<>>) = 0 /\ \A i : i \notin 1..Len(<<>>) OBVIOUS
<1> HIDE DEF s
<1>6. Chain(p, s) BY <1>1, <1>2, <1>3, <1>4 DEF Chain
<1>7. FramesDiffer(s) BY <1>3 DEF FramesDiffer
<1>8. DoneEmitted(p, s, <<>>) BY <1>1, <1>3 DEF DoneEmitted
<1>9. InputsFirst(p, <<>>) /\ Awaited(p, s, <<>>) /\ Once(s, <<>>)
  BY <1>5 DEF InputsFirst, Awaited, Once, In
<1> QED BY <1>6, <1>7, <1>8, <1>9 DEF Walk, s

(* Only what a frame calls for and what it has done matters.               *)
LEMMA WalkSame ==
  ASSUME NEW p, NEW s, NEW u, NEW e, Walk(p, s, e), Len(s) \in Nat \ {0}, Len(u) = Len(s),
         \A i \in 1..Len(s) : u[i].node = s[i].node /\ u[i].done = s[i].done
  PROVE  Walk(p, u, e)
<1>1. 1 \in 1..Len(s) /\ \A i \in 1..(Len(s) - 1) : i \in 1..Len(s) /\ i + 1 \in 1..Len(s) OBVIOUS
<1>2. Chain(p, u) BY <1>1 DEF Walk, Chain
<1>3. FramesDiffer(u) BY DEF Walk, FramesDiffer
<1>4. DoneEmitted(p, u, e) BY DEF Walk, DoneEmitted
<1>5. Awaited(p, u, e)
  <2> SUFFICES ASSUME NEW i \in 1..Len(e), ~\E j \in 1..Len(e) : i < j /\ Reads(p, e[j], e[i])
               PROVE  \E f \in 1..Len(u), k \in Nat \ {0} : k <= u[f].done /\ p[u[f].node].inputs[k] = e[i]
    BY DEF Awaited
  <2>1. PICK f \in 1..Len(s), k \in Nat \ {0} : k <= s[f].done /\ p[s[f].node].inputs[k] = e[i]
    BY DEF Walk, Awaited
  <2> QED BY <2>1
<1>6. Once(u, e) BY DEF Walk, Once
<1> QED BY <1>2, <1>3, <1>4, <1>5, <1>6 DEF Walk

LEMMA OneMore ==
  ASSUME NEW a \in Nat, NEW b \in Nat, a < b
  PROVE  a + 1 \in Nat \ {0} /\ a + 1 \in 1..b /\ a + 1 <= b
OBVIOUS

(* A call for the next input: nobody has called for that node before, for  *)
(* its only reader is the frame on top.                                    *)
LEMMA WalkDescends ==
  ASSUME NEW p \in Plans, NEW s \in Seq(Frame), s # <<>>, NEW e \in Seq(Nodes), Walk(p, s, e),
         NEW d, d = Len(s), s[d].done < Len(p[s[d].node].inputs),
         NEW f \in Frame, f.done = 0, f.node = p[s[d].node].inputs[s[d].done + 1]
  PROVE  Walk(p, Append(s, f), e)
<1> DEFINE u == Append(s, f)
           k0 == s[d].done + 1
<1>1. d \in Nat \ {0} /\ d \in 1..d /\ \A i \in 1..d : s[i] \in Frame /\ s[i].node \in Nodes /\ s[i].done \in Nat
  <2>1. d \in Nat \ {0} /\ \A i \in 1..d : s[i] \in Frame OBVIOUS
  <2> QED BY <2>1 DEF Frame
<1>2. /\ Len(u) = d + 1 /\ u[d + 1] = f /\ \A i \in 1..d : u[i] = s[i]
  BY <1>1
<1>3. \A i : i \in 1..(d + 1) <=> i \in 1..d \/ i = d + 1 BY <1>1
<1>4. k0 \in 1..Len(p[s[d].node].inputs) /\ f.node \in Nodes BY <1>1, PlanNodes DEF Frame
<1> HIDE DEF u
<1>5. Chain(p, u)
  <2>1. s[1].node = 1 /\ u[1] = s[1] BY <1>1, <1>2 DEF Walk, Chain
  <2>2. f.done <= Len(p[f.node].inputs) BY <1>4, PlanNodes
  <2>3. \A i \in 1..(d + 1) : u[i].done <= Len(p[u[i].node].inputs)
    BY <1>2, <1>3, <2>2 DEF Walk, Chain
  <2>4. ASSUME NEW i \in 1..d
        PROVE  u[i].done < Len(p[u[i].node].inputs) /\ u[i + 1].node = p[u[i].node].inputs[u[i].done + 1]
    <3>1. CASE i = d BY <1>1, <1>2, <3>1
    <3>2. CASE i # d
      <4>1. i \in 1..(d - 1) /\ i + 1 \in 1..d BY <1>1, <3>2
      <4> QED BY <1>2, <4>1 DEF Walk, Chain
    <3> QED BY <3>1, <3>2
  <2>5. (d + 1) - 1 = d BY <1>1
  <2> QED BY <1>2, <2>1, <2>3, <2>4, <2>5 DEF Chain
<1>6. ASSUME NEW i \in 1..d PROVE s[i].node # f.node
  <2>1. CASE i = 1
    <3>1. s[1].node = 1 BY DEF Walk, Chain
    <3> QED BY <1>1, <1>4, <2>1, <3>1, TreeAssumption
  <2>2. CASE i # 1
    <3>1. i - 1 \in 1..(d - 1) /\ i - 1 \in 1..d /\ (i - 1) + 1 = i BY <1>1, <2>2
    <3>2. s[i - 1].done < Len(p[s[i - 1].node].inputs) /\ s[i].node = p[s[i - 1].node].inputs[s[i - 1].done + 1]
      BY <3>1 DEF Walk, Chain
    <3>3. s[i - 1].done + 1 \in 1..Len(p[s[i - 1].node].inputs)
      <4>1. s[i - 1].done \in Nat /\ s[i - 1].node \in Nodes BY <1>1, <3>1
      <4>2. Len(p[s[i - 1].node].inputs) \in Nat BY <4>1, PlanNodes
      <4> QED BY <3>2, <4>1, <4>2, OneMore
    <3> SUFFICES ASSUME s[i].node = f.node PROVE FALSE OBVIOUS
    <3>4. s[i - 1].node = s[d].node
      <4> DEFINE m == s[i - 1].node
                 n == s[d].node
                 k == s[i - 1].done + 1
      <4>1. p[m].inputs[k] = p[n].inputs[k0] BY <3>2
      <4>2. m \in Nodes /\ n \in Nodes BY <1>1, <3>1
      <4>3. k \in 1..Len(p[m].inputs) /\ k0 \in 1..Len(p[n].inputs) BY <1>4, <3>3
      <4> HIDE DEF m, n, k, k0
      <4>4. m = n BY <4>1, <4>2, <4>3, OneReader
      <4> QED BY <4>4 DEF m, n
    <3>5. i - 1 = d BY <1>1, <3>1, <3>4 DEF Walk, FramesDiffer
    <3> QED BY <1>1, <3>5
  <2> QED BY <2>1, <2>2
<1>7. FramesDiffer(u) BY <1>2, <1>3, <1>6 DEF Walk, FramesDiffer
<1>8. DoneEmitted(p, u, e)
  <2> SUFFICES ASSUME NEW i \in 1..Len(u), NEW k \in Nat \ {0}, k <= u[i].done
               PROVE  In(e, p[u[i].node].inputs[k])
    BY DEF DoneEmitted
  <2>1. i \in 1..d BY <1>2, <1>3
  <2> QED BY <1>2, <2>1 DEF Walk, DoneEmitted
<1>9. Awaited(p, u, e)
  <2> SUFFICES ASSUME NEW i \in 1..Len(e), ~\E j \in 1..Len(e) : i < j /\ Reads(p, e[j], e[i])
               PROVE  \E g \in 1..Len(u), k \in Nat \ {0} : k <= u[g].done /\ p[u[g].node].inputs[k] = e[i]
    BY DEF Awaited
  <2>1. PICK g \in 1..Len(s), k \in Nat \ {0} : k <= s[g].done /\ p[s[g].node].inputs[k] = e[i]
    BY DEF Walk, Awaited
  <2>2. g \in 1..Len(u) BY <1>2, <1>3, <2>1
  <2> QED BY <1>2, <2>1, <2>2
<1>10. ~In(e, f.node)
  <2> SUFFICES ASSUME NEW i \in 1..Len(e), e[i] = f.node PROVE FALSE BY DEF In
  <2>1. CASE \E j \in 1..Len(e) : i < j /\ Reads(p, e[j], e[i])
    <3>1. PICK j \in 1..Len(e) : Reads(p, e[j], f.node) BY <2>1
    <3>2. PICK k \in 1..Len(p[e[j]].inputs) : p[e[j]].inputs[k] = f.node BY <3>1 DEF Reads
    <3>3. e[j] \in Nodes /\ s[d].node \in Nodes BY <1>1, <3>1
    <3>4. e[j] = s[d].node
      <4> DEFINE m == e[j]
                 n == s[d].node
      <4>1. p[m].inputs[k] = p[n].inputs[k0] BY <3>2
      <4>2. k \in 1..Len(p[m].inputs) /\ k0 \in 1..Len(p[n].inputs) BY <1>4, <3>2
      <4> HIDE DEF m, n, k0
      <4>3. m = n BY <3>3, <4>1, <4>2, OneReader DEF m, n
      <4> QED BY <4>3 DEF m, n
    <3>5. In(e, s[d].node) BY <3>4 DEF In
    <3> QED BY <1>1, <3>5 DEF Walk, Once
  <2>2. CASE \E g \in 1..Len(s), k \in Nat \ {0} : k <= s[g].done /\ p[s[g].node].inputs[k] = e[i]
    <3>1. PICK g \in 1..Len(s), k \in Nat \ {0} : k <= s[g].done /\ p[s[g].node].inputs[k] = f.node
      BY <2>2
    <3>2. s[g].done <= Len(p[s[g].node].inputs) BY DEF Walk, Chain
    <3>3. k \in 1..Len(p[s[g].node].inputs)
      <4>1. s[g].node \in Nodes /\ s[g].done \in Nat BY <1>1
      <4>2. Len(p[s[g].node].inputs) \in Nat BY <4>1, PlanNodes
      <4> QED BY <3>1, <3>2, <4>1, <4>2
    <3>4. s[g].node = s[d].node /\ k = k0
      <4> DEFINE m == s[g].node
                 n == s[d].node
      <4>1. p[m].inputs[k] = p[n].inputs[k0] BY <3>1
      <4>2. m \in Nodes /\ n \in Nodes BY <1>1
      <4>3. k \in 1..Len(p[m].inputs) /\ k0 \in 1..Len(p[n].inputs) BY <1>4, <3>3
      <4> HIDE DEF m, n, k0
      <4>4. m = n /\ k = k0 BY <4>1, <4>2, <4>3, OneReader
      <4> QED BY <4>4 DEF m, n
    <3>5. g = d BY <1>1, <3>4 DEF Walk, FramesDiffer
    <3> QED BY <1>1, <3>1, <3>4, <3>5
  <2> QED BY <2>1, <2>2 DEF Walk, Awaited
<1>11. Once(u, e)
  <2>1. \A i \in 1..Len(u) : ~In(e, u[i].node) BY <1>2, <1>3, <1>10 DEF Walk, Once
  <2> QED BY <2>1 DEF Walk, Once
<1> QED BY <1>5, <1>7, <1>8, <1>9, <1>11 DEF Walk, u

(* The nodes emitted once the frame on top returns.                        *)
LEMMA EmittedMore ==
  ASSUME NEW p \in Plans, NEW s \in Seq(Frame), s # <<>>, NEW e \in Seq(Nodes), Walk(p, s, e),
         NEW d, d = Len(s), s[d].done = Len(p[s[d].node].inputs)
  PROVE  LET v == Append(e, s[d].node) IN
         /\ Len(e) \in Nat /\ Len(v) = Len(e) + 1 /\ v[Len(e) + 1] = s[d].node
         /\ \A i \in 1..Len(e) : v[i] = e[i]
         /\ InputsFirst(p, v) /\ \A i, j \in 1..Len(v) : v[i] = v[j] => i = j
<1> DEFINE v == Append(e, s[d].node)
<1>1. d \in Nat \ {0} /\ d \in 1..d /\ s[d].node \in Nodes /\ s[d].done \in Nat
  <2>1. d \in Nat \ {0} /\ s[d] \in Frame OBVIOUS
  <2> QED BY <2>1 DEF Frame
<1>2. /\ Len(e) \in Nat /\ Len(v) = Len(e) + 1 /\ v[Len(e) + 1] = s[d].node
      /\ \A i \in 1..Len(e) : v[i] = e[i]
  BY <1>1
<1>3. \A i : i \in 1..Len(v) <=> i \in 1..Len(e) \/ i = Len(e) + 1 BY <1>2
<1> HIDE DEF v
<1>4. InputsFirst(p, v)
  <2> SUFFICES ASSUME NEW i \in 1..Len(v), NEW m \in Nodes, Reads(p, v[i], m)
               PROVE  \E j \in 1..Len(v) : j < i /\ v[j] = m
    BY DEF InputsFirst
  <2>1. CASE i \in 1..Len(e)
    <3>1. PICK j \in 1..Len(e) : j < i /\ e[j] = m BY <1>2, <2>1 DEF Walk, InputsFirst
    <3> QED BY <1>2, <1>3, <3>1
  <2>2. CASE i = Len(e) + 1
    <3>1. PICK k \in 1..Len(p[s[d].node].inputs) : p[s[d].node].inputs[k] = m
      BY <1>2, <2>2 DEF Reads
    <3>2. In(e, m) BY <1>1, <3>1 DEF Walk, DoneEmitted
    <3>3. PICK j \in 1..Len(e) : e[j] = m BY <3>2 DEF In
    <3> QED BY <1>2, <1>3, <2>2, <3>3
  <2> QED BY <1>3, <2>1, <2>2
<1>5. \A i, j \in 1..Len(v) : v[i] = v[j] => i = j
  <2>1. \A i \in 1..Len(e) : e[i] # s[d].node BY <1>1 DEF Walk, Once, In
  <2> QED BY <1>2, <1>3, <2>1 DEF Walk, Once
<1> QED BY <1>2, <1>4, <1>5 DEF v

(* The frame on top returns to the one below.                              *)
LEMMA WalkReturns ==
  ASSUME NEW p \in Plans, NEW s \in Seq(Frame), s # <<>>, NEW e \in Seq(Nodes), Walk(p, s, e),
         NEW d, d = Len(s), d # 1, s[d].done = Len(p[s[d].node].inputs),
         NEW u, Len(u) = d - 1,
         \A i \in 1..(d - 1) : /\ u[i].node = s[i].node
                               /\ u[i].done = IF i = d - 1 THEN s[i].done + 1 ELSE s[i].done
  PROVE  Walk(p, u, Append(e, s[d].node))
<1> DEFINE v == Append(e, s[d].node)
<1>1. d \in Nat /\ d - 1 \in Nat \ {0} /\ \A i \in 1..d : s[i].node \in Nodes /\ s[i].done \in Nat
  <2>1. d \in Nat \ {0} /\ \A i \in 1..d : s[i] \in Frame OBVIOUS
  <2> QED BY <2>1 DEF Frame
<1>2. /\ Len(e) \in Nat /\ Len(v) = Len(e) + 1 /\ v[Len(e) + 1] = s[d].node
      /\ \A i \in 1..Len(e) : v[i] = e[i]
      /\ InputsFirst(p, v) /\ \A i, j \in 1..Len(v) : v[i] = v[j] => i = j
  BY EmittedMore, SMTT(30)
<1>3. \A i : i \in 1..Len(v) <=> i \in 1..Len(e) \/ i = Len(e) + 1 BY <1>2
<1> HIDE DEF v
<1>4. d - 1 \in 1..(d - 1) /\ (d - 1) + 1 = d /\ \A i \in 1..(d - 1) : i \in 1..d /\ i # d BY <1>1
<1>5. s[d - 1].done < Len(p[s[d - 1].node].inputs) /\ s[d].node = p[s[d - 1].node].inputs[s[d - 1].done + 1]
  BY <1>4 DEF Walk, Chain
<1>6. Chain(p, u)
  <2>1. u[1].node = 1 BY <1>1 DEF Walk, Chain
  <2>2. ASSUME NEW i \in 1..(d - 1) PROVE u[i].done <= Len(p[u[i].node].inputs)
    <3>1. CASE i = d - 1
      <4>1. u[i].done = s[d - 1].done + 1 /\ u[i].node = s[d - 1].node BY <3>1
      <4>2. s[d - 1].done \in Nat /\ s[d - 1].node \in Nodes BY <1>1, <1>4
      <4>3. Len(p[s[d - 1].node].inputs) \in Nat BY <4>2, PlanNodes
      <4>4. s[d - 1].done + 1 <= Len(p[s[d - 1].node].inputs) BY <1>5, <4>2, <4>3, OneMore
      <4> QED BY <4>1, <4>4
    <3>2. CASE i # d - 1 BY <1>4, <3>2 DEF Walk, Chain
    <3> QED BY <3>1, <3>2
  <2>3. ASSUME NEW i \in 1..((d - 1) - 1)
        PROVE  u[i].done < Len(p[u[i].node].inputs) /\ u[i + 1].node = p[u[i].node].inputs[u[i].done + 1]
    <3>1. i \in 1..(d - 1) /\ i # d - 1 /\ i + 1 \in 1..(d - 1) BY <1>1
    <3>2. u[i].done = s[i].done /\ u[i].node = s[i].node /\ u[i + 1].node = s[i + 1].node BY <3>1
    <3> QED BY <3>1, <3>2 DEF Walk, Chain
  <2> QED BY <2>1, <2>2, <2>3 DEF Chain
<1>7. FramesDiffer(u) BY <1>4 DEF Walk, FramesDiffer
<1>8. DoneEmitted(p, u, v)
  <2> SUFFICES ASSUME NEW i \in 1..(d - 1), NEW k \in Nat \ {0}, k <= u[i].done
               PROVE  In(v, p[u[i].node].inputs[k])
    BY DEF DoneEmitted
  <2>1. CASE k <= s[i].done
    <3>1. In(e, p[s[i].node].inputs[k]) BY <1>4, <2>1 DEF Walk, DoneEmitted
    <3>2. PICK j \in 1..Len(e) : e[j] = p[s[i].node].inputs[k] BY <3>1 DEF In
    <3> QED BY <1>2, <1>3, <3>2 DEF In
  <2>2. CASE ~(k <= s[i].done)
    <3>1. i = d - 1 /\ k = s[d - 1].done + 1
      <4>1. u[i].done = IF i = d - 1 THEN s[i].done + 1 ELSE s[i].done OBVIOUS
      <4>2. s[i].done \in Nat BY <1>1, <1>4
      <4> QED BY <2>2, <4>1, <4>2
    <3>2. p[u[i].node].inputs[k] = s[d].node BY <1>5, <3>1
    <3> QED BY <1>2, <1>3, <3>2 DEF In
  <2> QED BY <2>1, <2>2
<1>9. Awaited(p, u, v)
  <2> SUFFICES ASSUME NEW i \in 1..Len(v), ~\E j \in 1..Len(v) : i < j /\ Reads(p, v[j], v[i])
               PROVE  \E f \in 1..(d - 1), k \in Nat \ {0} : k <= u[f].done /\ p[u[f].node].inputs[k] = v[i]
    BY DEF Awaited
  <2>1. CASE i \in 1..Len(e)
    <3>1. ~\E j \in 1..Len(e) : i < j /\ Reads(p, e[j], e[i]) BY <1>2, <1>3, <2>1
    <3>2. PICK f \in 1..Len(s), k \in Nat \ {0} : k <= s[f].done /\ p[s[f].node].inputs[k] = e[i]
      BY <2>1, <3>1 DEF Walk, Awaited
    <3>3. f # d
      <4> SUFFICES ASSUME f = d PROVE FALSE OBVIOUS
      <4>1. k \in 1..Len(p[s[d].node].inputs)
        <5>1. k \in Nat \ {0} /\ k <= Len(p[s[d].node].inputs) BY <3>2
        <5>2. Len(p[s[d].node].inputs) \in Nat BY <1>1, PlanNodes
        <5> QED BY <5>1, <5>2
      <4>2. Reads(p, s[d].node, e[i]) BY <3>2, <4>1 DEF Reads
      <4> QED BY <1>2, <1>3, <2>1, <4>2
    <3>4. f \in 1..(d - 1) BY <1>1, <3>2, <3>3
    <3>5. u[f].node = s[f].node /\ k <= u[f].done
      <4>1. u[f].done = (IF f = d - 1 THEN s[f].done + 1 ELSE s[f].done) /\ u[f].node = s[f].node BY <3>4
      <4>2. s[f].done \in Nat BY <1>1, <1>4, <3>4
      <4> QED BY <3>2, <4>1, <4>2
    <3> QED BY <1>2, <2>1, <3>2, <3>4, <3>5
  <2>2. CASE i = Len(e) + 1
    <3>1. s[d - 1].done + 1 \in Nat \ {0}
      <4>1. s[d - 1].done \in Nat BY <1>1, <1>4
      <4> QED BY <4>1
    <3>2. u[d - 1].done = s[d - 1].done + 1 /\ u[d - 1].node = s[d - 1].node BY <1>4
    <3>3. s[d - 1].done + 1 <= u[d - 1].done BY <3>1, <3>2
    <3>4. v[i] = s[d].node BY <1>2, <2>2
    <3>5. p[u[d - 1].node].inputs[s[d - 1].done + 1] = v[i] BY <1>5, <3>2, <3>4
    <3> QED BY <1>4, <3>1, <3>3, <3>5
  <2> QED BY <1>3, <2>1, <2>2
<1>10. Once(u, v)
  <2>1. ASSUME NEW i \in 1..(d - 1) PROVE ~In(v, u[i].node)
    <3>1. ~In(e, s[i].node) BY <1>4 DEF Walk, Once
    <3>2. s[i].node # s[d].node
      <4>1. d \in 1..d BY <1>1
      <4> QED BY <1>4, <4>1 DEF Walk, FramesDiffer
    <3> QED BY <1>2, <1>3, <3>1, <3>2 DEF In
  <2> QED BY <1>2, <2>1 DEF Once
<1> QED BY <1>2, <1>6, <1>7, <1>8, <1>9, <1>10 DEF Walk, v

(* The root returns: all that was emitted was read by a later one.         *)
LEMMA WalkEnds ==
  ASSUME NEW p \in Plans, NEW s \in Seq(Frame), NEW e \in Seq(Nodes), Walk(p, s, e),
         Len(s) = 1, s[1].done = Len(p[s[1].node].inputs)
  PROVE  Finished(p, Append(e, s[1].node))
<1> DEFINE v == Append(e, s[1].node)
<1>1. s # <<>> /\ s[1] \in Frame /\ s[1].node \in Nodes /\ s[1].done \in Nat
  <2>1. Len(<<>>) = 0 /\ 1 # 0 OBVIOUS
  <2>2. s # <<>> BY <2>1
  <2>3. s[1] \in Frame
    <3>1. 1 \in 1..Len(s) OBVIOUS
    <3> QED BY <3>1, ElementOfSeq
  <2> QED BY <2>2, <2>3 DEF Frame
<1>2. /\ Len(e) \in Nat /\ Len(v) = Len(e) + 1 /\ v[Len(e) + 1] = s[1].node
      /\ \A i \in 1..Len(e) : v[i] = e[i]
      /\ InputsFirst(p, v) /\ \A i, j \in 1..Len(v) : v[i] = v[j] => i = j
  BY <1>1, EmittedMore
<1> HIDE DEF v
<1>3. s[1].node = 1 BY DEF Walk, Chain
<1>4. ASSUME NEW i \in 1..Len(v), i < Len(v) PROVE \E j \in 1..Len(v) : i < j /\ Reads(p, v[j], v[i])
  <2>1. i \in 1..Len(e) BY <1>2, <1>4
  <2>2. CASE \E j \in 1..Len(e) : i < j /\ Reads(p, e[j], e[i])
    <3>1. PICK j \in 1..Len(e) : i < j /\ Reads(p, e[j], e[i]) BY <2>2
    <3>2. j \in 1..Len(v) BY <1>2
    <3> QED BY <1>2, <2>1, <3>1, <3>2
  <2>3. CASE ~\E j \in 1..Len(e) : i < j /\ Reads(p, e[j], e[i])
    <3>1. PICK f \in 1..Len(s), k \in Nat \ {0} : k <= s[f].done /\ p[s[f].node].inputs[k] = e[i]
      BY <2>1, <2>3 DEF Walk, Awaited
    <3>2. f = 1 BY <3>1
    <3>3. k \in 1..Len(p[s[1].node].inputs) BY <1>1, <3>1, <3>2
    <3>4. Reads(p, s[1].node, e[i]) BY <3>1, <3>2, <3>3 DEF Reads
    <3>5. Len(e) + 1 \in 1..Len(v) /\ i < Len(e) + 1 BY <1>2, <2>1
    <3> QED BY <1>2, <2>1, <3>4, <3>5
  <2> QED BY <2>2, <2>3
<1>5. Finished(p, v) BY <1>2, <1>3, <1>4 DEF Finished
<1> QED BY <1>5 DEF v

LEMMA InitWInv == Init => WInv
<1> SUFFICES ASSUME Init PROVE WInv OBVIOUS
<1>1. TypeOK /\ HasFrame BY InitIInv DEF IInv
<1>2. Walks /\ EmitsPlan BY DEF Init, Walks, EmitsPlan
<1> QED BY <1>1, <1>2 DEF WInv

(* A step of thread t leaves the statements of the others as they are.     *)
LEMMA OthersWalk ==
  ASSUME WInv, NEW t \in Threads,
         \A u \in Threads \ {t} : /\ plan'[u] = plan[u] /\ stack'[u] = stack[u]
                                  /\ emitted'[u] = emitted[u] /\ at'[u] = at[u]
  PROVE  /\ (at'[t] = "emit" => Walk(plan'[t], stack'[t], emitted'[t])) => Walks'
         /\ (at'[t] = "done" => Finished(plan'[t], emitted'[t])) => EmitsPlan'
<1>1. EmitsPlan <=> \A u \in Threads : at[u] = "done" => Finished(plan[u], emitted[u])
  BY DEF EmitsPlan, Finished, InputsFirst
<1>2. EmitsPlan' <=> \A u \in Threads : at'[u] = "done" => Finished(plan'[u], emitted'[u])
  BY DEF EmitsPlan, Finished, InputsFirst
<1>3. (at'[t] = "emit" => Walk(plan'[t], stack'[t], emitted'[t])) => Walks'
  BY DEF WInv, Walks
<1>4. (at'[t] = "done" => Finished(plan'[t], emitted'[t])) => EmitsPlan'
  BY <1>1, <1>2 DEF WInv
<1> QED BY <1>3, <1>4

LEMMA StepWInv ==
  ASSUME WInv, [Next]_vars
  PROVE  WInv'
<1> USE DEF WInv
<1>1. TypeOK' /\ HasFrame' BY StepFrames
<1>2. ASSUME NEW t \in Threads, NEW p \in Plans, Emit(t, p) PROVE Walks' /\ EmitsPlan'
  <2>1. /\ plan'[t] = p /\ stack'[t] = <<Call(1)>> /\ emitted'[t] = <<>> /\ at'[t] = "emit"
        /\ \A u \in Threads \ {t} : /\ plan'[u] = plan[u] /\ stack'[u] = stack[u]
                                    /\ emitted'[u] = emitted[u] /\ at'[u] = at[u]
    BY <1>2 DEF Emit, TypeOK
  <2>2. Walk(plan'[t], stack'[t], emitted'[t]) BY <2>1, WalkStarts
  <2> QED BY <2>1, <2>2, OthersWalk
<1>3. ASSUME NEW t \in Threads, Descend(t) PROVE Walks' /\ EmitsPlan'
  <2> DEFINE f == Call(NextInput(t))
  <2>1. /\ at[t] = "emit" /\ stack[t] # <<>> /\ f \in Frame
        /\ stack' = [stack EXCEPT ![t] = Append(stack[t], f)]
        /\ UNCHANGED <<alias_counter, plan, emitted, aliases, at>>
    BY <1>3, Descended
  <2>2. f.done = 0 /\ f.node = NextInput(t) BY DEF Call
  <2> HIDE DEF f
  <2>3. /\ stack'[t] = Append(stack[t], f) /\ plan'[t] = plan[t] /\ emitted'[t] = emitted[t] /\ at'[t] = "emit"
        /\ \A u \in Threads \ {t} : /\ plan'[u] = plan[u] /\ stack'[u] = stack[u]
                                    /\ emitted'[u] = emitted[u] /\ at'[u] = at[u]
    BY <2>1 DEF TypeOK
  <2>4. Walk(plan[t], stack[t], emitted[t]) /\ stack[t] \in Seq(Frame) /\ emitted[t] \in Seq(Nodes) /\ plan[t] \in Plans
    BY <2>1 DEF Walks, TypeOK
  <2>5. Walk(plan[t], Append(stack[t], f), emitted[t])
    BY <1>3, <2>1, <2>2, <2>4, WalkDescends DEF Descend, NextInput, TopNode, Top, Depth
  <2> QED BY <2>3, <2>5, OthersWalk
<1>4. ASSUME NEW t \in Threads, NextAlias(t) PROVE Walks' /\ EmitsPlan'
  <2> DEFINE s == [stack[t] EXCEPT ![Depth(t)] = [Top(t) EXCEPT !.got = @ + 1]]
  <2>1. /\ at[t] = "emit" /\ stack[t] # <<>> /\ stack' = [stack EXCEPT ![t] = s]
        /\ Len(s) = Len(stack[t])
        /\ \A i \in 1..Len(s) : s[i].node = stack[t][i].node /\ s[i].done = stack[t][i].done
    BY <1>4, Counting
  <2> HIDE DEF s
  <2>2. UNCHANGED <<plan, emitted, at>> BY <1>4 DEF NextAlias
  <2>3. /\ stack'[t] = s
        /\ \A u \in Threads \ {t} : /\ plan'[u] = plan[u] /\ stack'[u] = stack[u]
                                    /\ emitted'[u] = emitted[u] /\ at'[u] = at[u]
    BY <2>1, <2>2 DEF TypeOK
  <2>4. Walk(plan[t], stack[t], emitted[t]) BY <2>1 DEF Walks
  <2>5. Len(stack[t]) \in Nat \ {0} BY <2>1, TopIsFrame DEF Depth
  <2>6. Walk(plan[t], s, emitted[t]) BY <2>1, <2>4, <2>5, WalkSame
  <2> QED BY <2>1, <2>2, <2>3, <2>6, OthersWalk
<1>5. ASSUME NEW t \in Threads, Return(t) PROVE Walks' /\ EmitsPlan'
  <2> DEFINE n == Top(t).node
             d == Depth(t)
  <2>1. /\ at[t] = "emit" /\ stack[t] # <<>> /\ Len(Popped(t)) = d - 1
        /\ \A i \in 1..(d - 1) :
              /\ Popped(t)[i].node = stack[t][i].node
              /\ Popped(t)[i].done = IF i = d - 1 THEN stack[t][i].done + 1 ELSE stack[t][i].done
    BY <1>5, Returning
  <2>2. /\ stack'[t] = Popped(t) /\ plan'[t] = plan[t] /\ emitted'[t] = Append(emitted[t], n)
        /\ at'[t] = IF d = 1 THEN "done" ELSE "emit"
        /\ \A u \in Threads \ {t} : /\ plan'[u] = plan[u] /\ stack'[u] = stack[u]
                                    /\ emitted'[u] = emitted[u] /\ at'[u] = at[u]
    BY <1>5 DEF Return, TypeOK
  <2>3. Walk(plan[t], stack[t], emitted[t]) /\ stack[t] \in Seq(Frame) /\ emitted[t] \in Seq(Nodes) /\ plan[t] \in Plans
    BY <2>1 DEF Walks, TypeOK
  <2>4. d = Len(stack[t]) /\ n = stack[t][d].node /\ stack[t][d].done = Len(plan[t][stack[t][d].node].inputs)
    BY <1>5 DEF Return, InputsDone, TopNode, Top, Depth
  <2> HIDE DEF n, d
  <2>5. CASE d = 1
    <3>1. /\ Len(stack[t]) = 1 /\ n = stack[t][1].node
          /\ stack[t][1].done = Len(plan[t][stack[t][1].node].inputs)
      BY <2>4, <2>5
    <3>2. Finished(plan[t], Append(emitted[t], stack[t][1].node)) BY <2>3, <3>1, WalkEnds
    <3>3. Finished(plan[t], Append(emitted[t], n)) BY <3>1, <3>2
    <3> QED BY <2>2, <2>5, <3>3, OthersWalk
  <2>6. CASE d # 1
    <3>1. Walk(plan[t], Popped(t), Append(emitted[t], n)) BY <2>1, <2>3, <2>4, <2>6, WalkReturns
    <3> QED BY <2>2, <2>6, <3>1, OthersWalk
  <2> QED BY <2>5, <2>6
<1>6. ASSUME NEW t \in Threads, Fails(t) PROVE Walks' /\ EmitsPlan'
  <2>1. /\ at'[t] = "error"
        /\ \A u \in Threads \ {t} : /\ plan'[u] = plan[u] /\ stack'[u] = stack[u]
                                    /\ emitted'[u] = emitted[u] /\ at'[u] = at[u]
    BY <1>6 DEF Fails, TypeOK
  <2> QED BY <2>1, OthersWalk
<1>7. ASSUME UNCHANGED vars PROVE Walks' /\ EmitsPlan'
  BY <1>7 DEF vars, Walks, EmitsPlan
<1> QED BY <1>1, <1>2, <1>3, <1>4, <1>5, <1>6, <1>7 DEF Next

-----------------------------------------------------------------------------
(* The strengthened invariant holds in every state of an emitter that one  *)
(* thread uses.                                                            *)
THEOREM Invariance ==
  ASSUME OneThread
  PROVE  Spec => []IInv
<1> USE OneThread
<1>1. IInv /\ [Next]_vars => IInv' BY StepIInv
<1> QED BY InitIInv, <1>1, PTL DEF Spec

(* The aliases of a statement depend on its plan alone, for every plan and *)
(* whatever was emitted or failed before.                                  *)
THEOREM DeterministicAliases ==
  ASSUME OneThread
  PROVE  Spec => []AliasesDeterministic
<1>1. IInv => AliasesDeterministic BY DEF IInv
<1> QED BY Invariance, <1>1, PTL

(* No two inline views of a statement share an alias.                      *)
THEOREM UniqueAliases ==
  ASSUME OneThread
  PROVE  Spec => []AliasesUnique
<1>1. ASSUME IInv PROVE AliasesUnique
  <2> SUFFICES ASSUME NEW t \in Threads, NEW i \in 1..Len(aliases[t]),
                      NEW j \in 1..Len(aliases[t]), aliases[t][i] = aliases[t][j]
               PROVE  i = j
    BY DEF AliasesUnique
  <2>1. aliases[t][i].n = i - 1 /\ aliases[t][j].n = j - 1
    BY <1>1 DEF IInv, AliasesDeterministic
  <2> QED BY <2>1
<1>2. IInv => AliasesUnique BY <1>1
<1> QED BY Invariance, <1>2, PTL

(* A finished statement ends with the root, has each node that one of its  *)
(* nodes reads, before that one, and has none twice or for nothing: for    *)
(* every plan, and however many threads walk at once (emit_node shares     *)
(* nothing but the alias counter).                                         *)
THEOREM StatementsWhole == Spec => []EmitsPlan
<1>1. WInv /\ [Next]_vars => WInv' BY StepWInv
<1>2. WInv => EmitsPlan BY DEF WInv
<1> QED BY InitWInv, <1>1, <1>2, PTL DEF Spec
=============================================================================
