----------------------------- MODULE ModelProofs -----------------------------
(***************************************************************************)
(* Theorems about how a model is read and validated: the search for        *)
(* reference cycles (CycleCheck), for every pool of names and every        *)
(* reference graph over it, the loader (ModelLoader), for sources of any   *)
(* number and content, and the builders of the kinds (KindBuilder), for    *)
(* chains of calls of any length.                                          *)
(***************************************************************************)
EXTENDS CycleCheck, ModelLoader, KindBuilder, SequenceTheorems, FiniteSetTheorems, TLAPS

(* The inductive invariant.                                                *)
IInv ==
  /\ TypeOK
  /\ PathCoherent
  /\ BlackIsAcyclic
  /\ SearchProgress

LEMMA InitIInv == Init => IInv
  BY NamesAssumption
  DEF Init, IInv, TypeOK, PathCoherent, BlackIsAcyclic, SearchProgress, Frame, Refs

-----------------------------------------------------------------------------
(* What the sequences look like after a step.                              *)

LEMMA TopFrame ==
  ASSUME TypeOK, stack # <<>>
  PROVE  /\ Len(stack) \in 1..Len(stack)
         /\ Top \in Frame
         /\ Top.node \in Names
         /\ Top.todo \subseteq Refs
<1>1. stack \in Seq(Frame) /\ Len(stack) \in 1..Len(stack)
  BY EmptySeq, LenProperties DEF TypeOK
<1>2. Top \in Frame
  BY <1>1, ElementOfSeq DEF Top
<1> QED BY <1>1, <1>2 DEF Frame

LEMMA AdvancedFrames ==
  ASSUME TypeOK, stack # <<>>, NEW n
  PROVE  /\ Advanced(n) \in Seq(Frame)
         /\ Len(Advanced(n)) = Len(stack)
         /\ \A j \in 1..(Len(stack) - 1) : Advanced(n)[j] = stack[j]
         /\ Advanced(n)[Len(stack)].todo = stack[Len(stack)].todo \ {n}
         /\ \A j \in 1..Len(stack) : Advanced(n)[j].node = stack[j].node
<1> DEFINE k == Len(stack)
           f == [node |-> Top.node, todo |-> Top.todo \ {n}]
<1>1. f \in Frame
  BY TopFrame DEF Frame
<1>2. stack \in Seq(Frame) /\ k \in 1..Len(stack) /\ k \in Nat
  BY TopFrame DEF TypeOK
<1>3. f.node = stack[k].node /\ f.todo = stack[k].todo \ {n}
  BY DEF Top
<1>4. Advanced(n) = [stack EXCEPT ![k] = f]
  BY DEF Advanced
<1> HIDE DEF f, k
<1>5. /\ Advanced(n) \in Seq(Frame)
      /\ Len(Advanced(n)) = Len(stack)
      /\ \A j \in 1..Len(stack) : Advanced(n)[j] = IF j = k THEN f ELSE stack[j]
  BY <1>1, <1>2, <1>4, ExceptSeq
<1>6. k = Len(stack)
  BY DEF k
<1>7. ASSUME NEW j \in 1..(Len(stack) - 1) PROVE Advanced(n)[j] = stack[j]
  <2>1. j \in 1..Len(stack) /\ j # k BY <1>2, <1>6
  <2> QED BY <2>1, <1>5
<1>8. Advanced(n)[k] = f
  BY <1>2, <1>5
<1>9. ASSUME NEW j \in 1..Len(stack) PROVE Advanced(n)[j].node = stack[j].node
  <2>1. CASE j = k BY <1>3, <1>8, <2>1
  <2>2. CASE j # k BY <1>5, <2>2
  <2> QED BY <2>1, <2>2
<1> QED BY <1>3, <1>5, <1>6, <1>7, <1>8, <1>9

LEMMA ButlastFacts ==
  ASSUME NEW S, NEW s \in Seq(S), s # <<>>
  PROVE  /\ Butlast(s) \in Seq(S)
         /\ Len(Butlast(s)) = Len(s) - 1
         /\ \A j \in 1..(Len(s) - 1) : Butlast(s)[j] = s[j]
<1>1. Len(s) \in Nat \ {0}
  BY EmptySeq, LenProperties
<1>2. \A i \in 1..(Len(s) - 1) : s[i] \in S
  BY <1>1, ElementOfSeq
<1>3. /\ SubSeq(s, 1, Len(s) - 1) \in Seq(S)
      /\ Len(SubSeq(s, 1, Len(s) - 1)) = IF 1 <= Len(s) - 1 THEN (Len(s) - 1) - 1 + 1 ELSE 0
      /\ \A i \in 1..((Len(s) - 1) - 1 + 1) : SubSeq(s, 1, Len(s) - 1)[i] = s[1 + i - 1]
  BY <1>1, <1>2, SubSeqProperties
<1> DEFINE b == SubSeq(s, 1, Len(s) - 1)
<1>4. /\ b \in Seq(S)
      /\ Len(b) = IF 1 <= Len(s) - 1 THEN (Len(s) - 1) - 1 + 1 ELSE 0
      /\ \A i \in 1..((Len(s) - 1) - 1 + 1) : b[i] = s[1 + i - 1]
  BY <1>3
<1> HIDE DEF b
<1>5. Len(b) = Len(s) - 1
  <2>1. CASE Len(s) = 1 BY <1>4, <2>1
  <2>2. CASE Len(s) > 1 BY <1>1, <1>4, <2>2
  <2> DEFINE l == Len(s)
  <2>3. l \in Nat \ {0} BY <1>1
  <2> HIDE DEF l
  <2>4. l = 1 \/ l > 1 BY <2>3
  <2> QED BY <2>1, <2>2, <2>4 DEF l
<1>6. \A j \in 1..(Len(s) - 1) : b[j] = s[j]
  BY <1>1, <1>4
<1>7. Butlast(s) = b
  BY DEF Butlast, b
<1> QED BY <1>4, <1>5, <1>6, <1>7

-----------------------------------------------------------------------------
(* The type invariant is preserved.                                        *)
LEMMA StepType == TypeOK /\ PathCoherent /\ [Next]_vars => TypeOK'
<1> SUFFICES ASSUME TypeOK, PathCoherent, [Next]_vars PROVE TypeOK'
  OBVIOUS
<1> USE NamesAssumption DEF Refs
<1>1. ASSUME NEW s \in Names, SkipStart(s) PROVE TypeOK'
  BY <1>1 DEF TypeOK, SkipStart
<1>2. ASSUME NEW s \in Names, BeginSearch(s) PROVE TypeOK'
  BY <1>2 DEF TypeOK, BeginSearch, Frame
<1>3. ASSUME NEW n \in Refs, ReportCycle(n) PROVE TypeOK'
  <2> USE DEF TypeOK
  <2>1. PICK i \in 1..Len(path) :
          \E m \in 1..Len(SubSeq(path, i, Len(path))) :
            diags' = Append(diags, RotatedAt(SubSeq(path, i, Len(path)), m))
    BY <1>3 DEF ReportCycle
  <2> DEFINE c == SubSeq(path, i, Len(path))
  <2>2. c \in Seq(Names)
    OBVIOUS
  <2>3. ASSUME NEW m \in 1..Len(c) PROVE RotatedAt(c, m) \in Seq(Names)
    BY <2>2 DEF RotatedAt
  <2>4. PICK m \in 1..Len(c) : diags' = Append(diags, RotatedAt(c, m))
    BY <2>1
  <2>5. diags' \in Seq(Seq(Names))
    BY <2>4, <2>3
  <2>6. /\ UNCHANGED <<graph, starts, visited, blackAt, tick>>
        /\ stack' = <<>> /\ grey' = {} /\ path' = <<>> /\ pc' = "outer"
    BY <1>3 DEF ReportCycle, NoSearch
  <2> QED BY <2>5, <2>6
<1>4. ASSUME NEW n \in Refs, PassOver(n) PROVE TypeOK'
  <2>1. stack # <<>> BY <1>4 DEF PassOver, Neighbour, PathCoherent
  <2>2. stack' \in Seq(Frame) BY <1>4, <2>1, AdvancedFrames DEF PassOver
  <2> QED BY <1>4, <2>2 DEF PassOver, TypeOK
<1>5. ASSUME NEW n \in Refs, Descend(n) PROVE TypeOK'
  <2>1. stack # <<>> BY <1>5 DEF Descend, Neighbour, PathCoherent
  <2>2. Advanced(n) \in Seq(Frame) BY <2>1, AdvancedFrames
  <2>3. [node |-> n, todo |-> graph[n]] \in Frame BY <1>5 DEF Descend, Frame, TypeOK
  <2>4. stack' \in Seq(Frame) BY <1>5, <2>2, <2>3 DEF Descend
  <2> QED BY <1>5, <2>4 DEF Descend, TypeOK
<1>6. CASE Blacken
  <2>1. stack # <<>> /\ path # <<>>
    BY <1>6 DEF Blacken, PathCoherent, TypeOK
  <2>2. Top.node \in Names BY <2>1, TopFrame
  <2>3. stack' \in Seq(Frame) /\ path' \in Seq(Names)
    BY <1>6, <2>1, ButlastFacts DEF Blacken, TypeOK
  <2>4. blackAt' \in [Names -> Nat] /\ tick' \in Nat
    BY <1>6, <2>2 DEF Blacken, TypeOK
  <2>5. pc' \in {"outer", "search", "done"}
    BY <1>6 DEF Blacken
  <2>6. visited' \subseteq Names /\ grey' \subseteq Names
    BY <1>6, <2>2 DEF Blacken, TypeOK
  <2> QED BY <1>6, <2>3, <2>4, <2>5, <2>6 DEF Blacken, TypeOK
<1>7. CASE Finish
  BY <1>7 DEF Finish, TypeOK
<1>8. CASE UNCHANGED vars
  BY <1>8 DEF vars, TypeOK
<1> QED BY <1>1, <1>2, <1>3, <1>4, <1>5, <1>6, <1>7, <1>8 DEF Next

-----------------------------------------------------------------------------
(* Stack, path and grey set stay in step.                                  *)
LEMMA StepPath == TypeOK /\ PathCoherent /\ SearchProgress /\ [Next]_vars => PathCoherent'
<1> SUFFICES ASSUME TypeOK, PathCoherent, SearchProgress, [Next]_vars PROVE PathCoherent'
  OBVIOUS
<1>1. ASSUME NEW s \in Names, SkipStart(s) PROVE PathCoherent'
  BY <1>1 DEF PathCoherent, SkipStart
<1>2. ASSUME NEW s \in Names, BeginSearch(s) PROVE PathCoherent'
  BY <1>2 DEF PathCoherent, BeginSearch
<1>3. ASSUME NEW n \in Refs, ReportCycle(n) PROVE PathCoherent'
  BY <1>3 DEF PathCoherent, ReportCycle, NoSearch
<1>4. ASSUME NEW n \in Refs, PassOver(n) PROVE PathCoherent'
  <2>1. stack # <<>> BY <1>4 DEF PassOver, Neighbour, PathCoherent
  <2>2. /\ stack' \in Seq(Frame)
        /\ Len(stack') = Len(stack)
        /\ \A j \in 1..Len(stack) : stack'[j].node = stack[j].node
    <3>1. stack' = Advanced(n) BY <1>4 DEF PassOver
    <3> QED BY <2>1, <3>1, AdvancedFrames
  <2>3. stack' # <<>> BY <2>1, <2>2 DEF TypeOK
  <2> QED BY <1>4, <2>1, <2>2, <2>3 DEF PassOver, PathCoherent
<1>5. ASSUME NEW n \in Refs, Descend(n) PROVE PathCoherent'
  <2>1. stack # <<>> BY <1>5 DEF Descend, Neighbour, PathCoherent
  <2> DEFINE k == Len(stack)
  <2>2. /\ k \in Nat \ {0}
        /\ Len(path) = k
        /\ path \in Seq(Names)
        /\ path' = Append(path, n)
    BY <1>5, <2>1 DEF TypeOK, PathCoherent, Descend
  <2>3. /\ Len(stack') = k + 1
        /\ \A j \in 1..k : stack'[j].node = stack[j].node
        /\ stack'[k + 1].node = n
        /\ stack' # <<>>
    <3> DEFINE f == [node |-> n, todo |-> graph[n]]
    <3>1. stack' = Append(Advanced(n), f) BY <1>5 DEF Descend
    <3>2. Advanced(n) \in Seq(Frame) /\ Len(Advanced(n)) = k
      BY <2>1, AdvancedFrames
    <3>3. f \in Frame BY <1>5 DEF Descend, Frame, TypeOK
    <3>4. /\ stack' \in Seq(Frame) /\ Len(stack') = k + 1 /\ stack'[k + 1] = f
          /\ \A j \in 1..k : stack'[j] = Advanced(n)[j]
      BY <3>1, <3>2, <3>3, AppendProperties
    <3>5. \A j \in 1..k : Advanced(n)[j].node = stack[j].node
      BY <2>1, AdvancedFrames
    <3> QED BY <2>2, <3>4, <3>5, EmptySeq
  <2>4. /\ Len(path') = k + 1
        /\ \A j \in 1..k : path'[j] = path[j]
        /\ path'[k + 1] = n
    BY <2>2
  <2>5. \A i \in 1..Len(path') : path'[i] = stack'[i].node
    BY <2>2, <2>3, <2>4 DEF PathCoherent
  <2>6. grey' = {path'[i] : i \in 1..Len(path')}
    <3>1. grey' = grey \cup {n} /\ grey = {path[i] : i \in 1..k}
      BY <1>5, <2>2 DEF Descend, PathCoherent
    <3>2. 1..(k + 1) = (1..k) \cup {k + 1}
      BY <2>2
    <3> QED BY <3>1, <3>2, <2>4
  <2>7. \A i, j \in 1..Len(path') : path'[i] = path'[j] => i = j
    <3>1. \A i \in 1..k : path[i] # n
      BY <1>5, <2>2 DEF Descend, PathCoherent
    <3> QED BY <3>1, <2>2, <2>4 DEF PathCoherent
  <2>8. \A i \in 1..(Len(path') - 1) : path'[i + 1] \in graph'[path'[i]]
    <3>1. path[k] = Top.node /\ n \in Top.todo
      BY <1>5, <2>1, <2>2 DEF PathCoherent, Top, Descend, Neighbour, IsLeast
    <3>2. n \in graph[path[k]]
      BY <2>2, <3>1 DEF SearchProgress, Top
    <3>3. \A i \in 1..(k - 1) : path[i + 1] \in graph[path[i]]
      BY <2>2 DEF PathCoherent
    <3>4. graph' = graph BY <1>5 DEF Descend
    <3>5. ASSUME NEW i \in 1..k PROVE path'[i + 1] \in graph[path'[i]]
      <4>1. CASE i = k BY <4>1, <2>2, <2>4, <3>2
      <4>2. CASE i # k
        <5>1. i \in 1..(k - 1) /\ i + 1 \in 1..k BY <4>2, <2>2
        <5> QED BY <5>1, <2>4, <3>3
      <4> QED BY <4>1, <4>2
    <3> QED BY <2>2, <2>4, <3>4, <3>5
  <2>9. grey' \cap visited' = {}
    BY <1>5 DEF Descend, PathCoherent
  <2> QED BY <1>5, <2>3, <2>4, <2>5, <2>6, <2>7, <2>8, <2>9
          DEF PathCoherent, Descend, Neighbour
<1>6. CASE Blacken
  <2>1. stack # <<>> /\ path # <<>>
    BY <1>6 DEF Blacken, PathCoherent, TypeOK
  <2> DEFINE k == Len(stack)
  <2>2. /\ k \in Nat \ {0}
        /\ Len(path) = k
        /\ path \in Seq(Names)
        /\ path[k] = Top.node
    BY <2>1 DEF TypeOK, PathCoherent, Top
  <2>3. /\ stack' \in Seq(Frame) /\ Len(stack') = k - 1
        /\ Len(path') = k - 1
        /\ \A j \in 1..(k - 1) : stack'[j] = stack[j]
        /\ \A j \in 1..(k - 1) : path'[j] = path[j]
    BY <1>6, <2>1, <2>2, ButlastFacts DEF Blacken, TypeOK
  <2>4. \A i \in 1..Len(path') : path'[i] = stack'[i].node
    <3>1. \A i \in 1..k : path[i] = stack[i].node BY <2>2 DEF PathCoherent
    <3> HIDE DEF k
    <3>2. \A i \in 1..(k - 1) : i \in 1..k /\ path'[i] = path[i] /\ stack'[i] = stack[i] BY <2>2, <2>3
    <3>3. \A i \in 1..(k - 1) : path'[i] = stack'[i].node BY <3>1, <3>2
    <3> QED BY <2>3, <3>3
  <2>5. grey' = {path'[i] : i \in 1..Len(path')}
    <3>1. grey = {path[i] : i \in 1..k}
      BY <2>2 DEF PathCoherent
    <3>2. \A i \in 1..(k - 1) : path[i] # path[k]
      BY <2>2 DEF PathCoherent
    <3>3. 1..k = (1..(k - 1)) \cup {k}
      BY <2>2
    <3>4. grey \ {path[k]} = {path[i] : i \in 1..(k - 1)}
      BY <3>1, <3>2, <3>3
    <3>5. {path[i] : i \in 1..(k - 1)} = {path'[i] : i \in 1..(k - 1)}
      BY <2>3
    <3>6. grey' = grey \ {path[k]}
      BY <1>6, <2>2 DEF Blacken
    <3> QED BY <2>3, <3>4, <3>5, <3>6
  <2>6. \A i, j \in 1..Len(path') : path'[i] = path'[j] => i = j
    BY <2>2, <2>3 DEF PathCoherent
  <2>7. \A i \in 1..(Len(path') - 1) : path'[i + 1] \in graph'[path'[i]]
    BY <1>6, <2>2, <2>3 DEF PathCoherent, Blacken
  <2>8. grey' \cap visited' = {}
    BY <1>6 DEF PathCoherent, Blacken
  <2>9. pc' = "search" <=> stack' # <<>>
    BY <1>6, <2>2, <2>3, EmptySeq DEF Blacken
  <2>10. Len(path') = Len(stack')
    BY <2>3
  <2> QED BY <2>4, <2>5, <2>6, <2>7, <2>8, <2>9, <2>10 DEF PathCoherent
<1>7. CASE Finish
  BY <1>7 DEF Finish, PathCoherent
<1>8. CASE UNCHANGED vars
  BY <1>8 DEF vars, PathCoherent
<1> QED BY <1>1, <1>2, <1>3, <1>4, <1>5, <1>6, <1>7, <1>8 DEF Next

-----------------------------------------------------------------------------
(* What frames have moved past stays explored.                             *)
LEMMA StepProgress ==
  TypeOK /\ PathCoherent /\ SearchProgress /\ [Next]_vars => SearchProgress'
<1> SUFFICES ASSUME TypeOK, PathCoherent, SearchProgress, [Next]_vars
             PROVE  SearchProgress'
  OBVIOUS
<1>1. ASSUME NEW s \in Names, SkipStart(s) PROVE SearchProgress'
  BY <1>1 DEF SearchProgress, SkipStart
<1>2. ASSUME NEW s \in Names, BeginSearch(s) PROVE SearchProgress'
  BY <1>2 DEF SearchProgress, BeginSearch, PathCoherent, TypeOK
<1>3. ASSUME NEW n \in Refs, ReportCycle(n) PROVE SearchProgress'
  <2>1. diags' # <<>>
    <3>1. \E c : diags' = Append(diags, c)
      BY <1>3 DEF ReportCycle
    <3> QED BY <3>1 DEF TypeOK
  <2> QED BY <1>3, <2>1 DEF SearchProgress, ReportCycle, NoSearch
<1>4. ASSUME NEW n \in Refs, PassOver(n) PROVE SearchProgress'
  <2>1. stack # <<>> BY <1>4 DEF PassOver, Neighbour, PathCoherent
  <2> DEFINE k == Len(stack)
  <2>2. /\ k \in Nat \ {0}
        /\ Len(stack') = k
        /\ \A j \in 1..k : stack'[j].node = stack[j].node
        /\ \A j \in 1..(k - 1) : stack'[j] = stack[j]
        /\ stack'[k].todo = stack[k].todo \ {n}
    <3>1. stack' = Advanced(n) BY <1>4 DEF PassOver
    <3>2. k \in Nat \ {0} BY <2>1, EmptySeq DEF TypeOK
    <3> QED BY <2>1, <3>1, <3>2, AdvancedFrames
  <2>3. UNCHANGED <<graph, visited, grey, diags, starts, pc>>
    BY <1>4 DEF PassOver
  <2>4. ASSUME NEW i \in 1..k
        PROVE  /\ stack'[i].todo \subseteq graph[stack'[i].node]
               /\ \A w \in (graph[stack'[i].node] \cap Names) \ stack'[i].todo :
                    w \in visited \/ (i < k /\ w = stack'[i + 1].node)
    <3>1. CASE i = k
      <4>1. n \in visited \/ n \notin Names BY <1>4 DEF PassOver
      <4> QED BY <2>2, <3>1, <4>1 DEF SearchProgress
    <3>2. CASE i # k
      <4>1. i \in 1..(k - 1) /\ i + 1 \in 1..k BY <2>2, <3>2
      <4> QED BY <2>2, <4>1 DEF SearchProgress
    <3> QED BY <3>1, <3>2
  <2> QED BY <2>2, <2>3, <2>4 DEF SearchProgress
<1>5. ASSUME NEW n \in Refs, Descend(n) PROVE SearchProgress'
  <2>1. stack # <<>> BY <1>5 DEF Descend, Neighbour, PathCoherent
  <2> DEFINE k == Len(stack)
             f == [node |-> n, todo |-> graph[n]]
  <2>2. k \in Nat \ {0} BY <2>1, EmptySeq DEF TypeOK
  <2>3. /\ Len(stack') = k + 1 /\ stack'[k + 1] = f
        /\ \A j \in 1..k : stack'[j] = Advanced(n)[j]
    <3>1. stack' = Append(Advanced(n), f) BY <1>5 DEF Descend
    <3>2. Advanced(n) \in Seq(Frame) /\ Len(Advanced(n)) = k
      BY <2>1, AdvancedFrames
    <3>3. f \in Frame BY <1>5 DEF Descend, Frame, TypeOK
    <3> QED BY <3>1, <3>2, <3>3, AppendProperties
  <2>4. /\ \A j \in 1..k : stack'[j].node = stack[j].node
        /\ \A j \in 1..(k - 1) : stack'[j] = stack[j]
        /\ stack'[k].todo = stack[k].todo \ {n}
    <3> DEFINE a == Advanced(n)
    <3>1. /\ \A j \in 1..k : a[j].node = stack[j].node
          /\ \A j \in 1..(k - 1) : a[j] = stack[j]
          /\ a[k].todo = stack[k].todo \ {n}
      BY <2>1, AdvancedFrames
    <3>2. \A j \in 1..k : stack'[j] = a[j]
      BY <2>3
    <3> HIDE DEF a
    <3>3. \A j \in 1..(k - 1) : j \in 1..k
      BY <2>2
    <3>4. k \in 1..k
      BY <2>2
    <3> QED BY <3>1, <3>2, <3>3, <3>4
  <2>5. UNCHANGED <<graph, visited, diags, starts, pc>> /\ grey' = grey \cup {n}
    BY <1>5 DEF Descend
  <2>6. stack'[k + 1].node = n /\ stack'[k + 1].todo = graph[n]
    BY <2>3
  <2>7. ASSUME NEW i \in 1..(k + 1)
        PROVE  /\ stack'[i].todo \subseteq graph[stack'[i].node]
               /\ \A w \in (graph[stack'[i].node] \cap Names) \ stack'[i].todo :
                    w \in visited \/ (i < k + 1 /\ w = stack'[i + 1].node)
    <3>1. CASE i = k + 1
      BY <2>6, <3>1
    <3>2. CASE i = k
      BY <2>2, <2>4, <2>6, <3>2 DEF SearchProgress
    <3>3. CASE i < k
      <4>1. i \in 1..(k - 1) /\ i + 1 \in 1..k BY <2>2, <3>3
      <4> QED BY <2>2, <2>4, <4>1 DEF SearchProgress
    <3> QED BY <2>2, <3>1, <3>2, <3>3
  <2> QED BY <2>2, <2>3, <2>5, <2>7 DEF SearchProgress
<1>6. CASE Blacken
  <2>1. stack # <<>> /\ path # <<>>
    BY <1>6 DEF Blacken, PathCoherent, TypeOK
  <2> DEFINE k == Len(stack)
  <2>2. k \in Nat \ {0} BY <2>1, EmptySeq DEF TypeOK
  <2>3. /\ Len(stack') = k - 1
        /\ \A j \in 1..(k - 1) : stack'[j] = stack[j]
    BY <1>6, <2>1, <2>2, ButlastFacts DEF Blacken, TypeOK
  <2>4. /\ UNCHANGED <<graph, diags, starts>>
        /\ visited' = visited \cup {stack[k].node}
        /\ grey' = grey \ {stack[k].node}
        /\ pc' # "done"
    BY <1>6 DEF Blacken, Top
  <2>5. ASSUME NEW i \in 1..(k - 1)
        PROVE  /\ stack'[i].todo \subseteq graph[stack'[i].node]
               /\ \A w \in (graph[stack'[i].node] \cap Names) \ stack'[i].todo :
                    w \in visited' \/ (i < k - 1 /\ w = stack'[i + 1].node)
    <3>1. CASE i = k - 1
      BY <2>2, <2>3, <2>4, <3>1 DEF SearchProgress
    <3>2. CASE i < k - 1
      <4>1. i + 1 \in 1..(k - 1) BY <2>2, <3>2
      <4> QED BY <2>2, <2>3, <2>4, <4>1 DEF SearchProgress
    <3> QED BY <2>2, <3>1, <3>2
  <2>6. diags' = <<>> => Names \ starts' \subseteq visited' \cup grey'
    BY <2>4 DEF SearchProgress
  <2> QED BY <2>3, <2>4, <2>5, <2>6 DEF SearchProgress
<1>7. CASE Finish
  BY <1>7 DEF Finish, SearchProgress
<1>8. CASE UNCHANGED vars
  BY <1>8 DEF vars, SearchProgress
<1> QED BY <1>1, <1>2, <1>3, <1>4, <1>5, <1>6, <1>7, <1>8 DEF Next

-----------------------------------------------------------------------------
(* Black names keep a well-founded order.                                  *)
LEMMA StepBlack ==
  IInv /\ [Next]_vars => BlackIsAcyclic'
<1> SUFFICES ASSUME IInv, [Next]_vars PROVE BlackIsAcyclic'
  OBVIOUS
<1>1. CASE UNCHANGED <<graph, visited, blackAt, tick>>
  BY <1>1 DEF IInv, BlackIsAcyclic
<1>2. CASE Blacken
  <2>1. stack # <<>>
    BY <1>2 DEF IInv, Blacken, PathCoherent
  <2> DEFINE k == Len(stack)
             t == stack[k].node
  <2>2. k \in Nat \ {0} /\ t \in Names
    BY <2>1, TopFrame, EmptySeq DEF IInv, TypeOK, Top
  <2>3. t \notin visited
    BY <2>2 DEF IInv, PathCoherent
  <2>4. \A w \in graph[t] \cap Names : w \in visited
    <3>1. stack[k].todo = {} BY <1>2 DEF Blacken, Top
    <3> QED BY <2>2, <3>1 DEF IInv, SearchProgress
  <2>5. /\ graph' = graph
        /\ visited' = visited \cup {t}
        /\ tick' = tick + 1
        /\ blackAt' = [blackAt EXCEPT ![t] = tick + 1]
    BY <1>2 DEF Blacken, Top
  <2>6. tick \in Nat /\ blackAt \in [Names -> Nat] /\ visited \subseteq Names
    BY DEF IInv, TypeOK
  <2>7. /\ blackAt'[t] = tick + 1
        /\ \A v \in visited : blackAt'[v] = blackAt[v]
    BY <2>2, <2>3, <2>5, <2>6
  <2>8. \A v \in visited :
          /\ blackAt[v] <= tick
          /\ \A w \in graph[v] \cap Names : w \in visited /\ blackAt[w] < blackAt[v]
    BY DEF IInv, BlackIsAcyclic
  <2>9. ASSUME NEW v \in visited'
        PROVE  /\ blackAt'[v] <= tick'
               /\ \A w \in graph'[v] \cap Names : w \in visited' /\ blackAt'[w] < blackAt'[v]
    <3>1. CASE v = t
      BY <2>4, <2>5, <2>6, <2>7, <2>8, <3>1
    <3>2. CASE v # t
      BY <2>5, <2>6, <2>7, <2>8, <3>2
    <3> QED BY <3>1, <3>2
  <2> QED BY <2>9 DEF BlackIsAcyclic
<1> QED BY <1>1, <1>2
        DEF Next, vars, SkipStart, BeginSearch, ReportCycle, PassOver, Descend, Finish

-----------------------------------------------------------------------------
(* The reports.                                                            *)

IsCycle(c) ==
  /\ c # <<>>
  /\ \A i \in 1..Len(c) : c[IF i = Len(c) THEN 1 ELSE i + 1] \in graph[c[i]]
  /\ \A i, j \in 1..Len(c) : c[i] = c[j] => i = j
  /\ \A i \in 1..Len(c) : c[1] <= c[i]

(* A cycle turned so that its least name comes first is still one.         *)
LEMMA RotatedIsCycle ==
  ASSUME NEW c \in Seq(Names), NEW m \in 1..Len(c), LeastMember(c, m),
         \A i \in 1..Len(c) : c[IF i = Len(c) THEN 1 ELSE i + 1] \in graph[c[i]],
         \A i, j \in 1..Len(c) : c[i] = c[j] => i = j
  PROVE  IsCycle(RotatedAt(c, m))
<1> DEFINE r == RotatedAt(c, m)
           L == Len(c)
           at(k) == IF k <= L - m + 1 THEN m + k - 1 ELSE k - (L - m + 1)
<1>1. L \in Nat \ {0} /\ m \in 1..L OBVIOUS
<1>2. SubSeq(c, m, L) \in Seq(Names) /\ Len(SubSeq(c, m, L)) = L - m + 1
      /\ \A k \in 1..(L - m + 1) : SubSeq(c, m, L)[k] = c[m + k - 1]
  BY <1>1, SubSeqProperties
<1>3. SubSeq(c, 1, m - 1) \in Seq(Names) /\ Len(SubSeq(c, 1, m - 1)) = m - 1
      /\ \A k \in 1..(m - 1) : SubSeq(c, 1, m - 1)[k] = c[k]
  BY <1>1, SubSeqProperties
<1>4. Len(r) = L /\ \A k \in 1..L : at(k) \in 1..L /\ r[k] = c[at(k)]
  BY <1>1, <1>2, <1>3, ConcatProperties DEF RotatedAt
<1> HIDE DEF r
<1>5. r # <<>>
  <2>1. Len(<<>>) = 0 OBVIOUS
  <2> QED BY <1>1, <1>4, <2>1
<1>6. ASSUME NEW i \in 1..L PROVE r[IF i = L THEN 1 ELSE i + 1] \in graph[r[i]]
  <2>1. (IF i = L THEN 1 ELSE i + 1) \in 1..L BY <1>1
  <2>2. at(IF i = L THEN 1 ELSE i + 1) = IF at(i) = L THEN 1 ELSE at(i) + 1
    <3>1. CASE i = L BY <1>1, <1>6, <3>1
    <3>2. CASE i # L
      <4>1. L \in Nat /\ m \in Nat /\ i \in Nat /\ m >= 1 /\ i >= 1 /\ i < L /\ m <= L
        BY <1>1, <1>6, <3>2
      <4>2. at(i + 1) = IF at(i) = L THEN 1 ELSE at(i) + 1
        <5>1. CASE i < L - m + 1 BY <4>1, <5>1
        <5>2. CASE i = L - m + 1 BY <4>1, <5>2
        <5>3. CASE i > L - m + 1 BY <4>1, <5>3
        <5>4. i < L - m + 1 \/ i = L - m + 1 \/ i > L - m + 1
          <6> HIDE DEF L
          <6> QED BY <4>1
        <5> QED BY <5>1, <5>2, <5>3, <5>4
      <4> HIDE DEF at
      <4> QED BY <3>2, <4>2
    <3> QED BY <3>1, <3>2
  <2>3. at(i) \in 1..L /\ r[i] = c[at(i)] BY <1>4
  <2>4. r[IF i = L THEN 1 ELSE i + 1] = c[at(IF i = L THEN 1 ELSE i + 1)] BY <1>4, <2>1
  <2> HIDE DEF at
  <2>5. c[IF at(i) = L THEN 1 ELSE at(i) + 1] \in graph[c[at(i)]] BY <2>3
  <2> QED BY <2>2, <2>3, <2>4, <2>5
<1>7. ASSUME NEW i \in 1..L, NEW j \in 1..L, r[i] = r[j] PROVE i = j
  <2>1. at(i) = at(j)
    <3> HIDE DEF at
    <3> QED BY <1>4, <1>7
  <2> QED BY <1>1, <2>1
<1>8. ASSUME NEW i \in 1..L PROVE r[1] <= r[i]
  <2>1. at(1) = m /\ 1 \in 1..L BY <1>1
  <2>2. r[1] = c[m] /\ at(i) \in 1..L /\ r[i] = c[at(i)] BY <1>4, <2>1
  <2> HIDE DEF at
  <2> QED BY <2>2 DEF LeastMember
<1>9. IsCycle(r) BY <1>4, <1>5, <1>6, <1>7, <1>8 DEF IsCycle
<1> QED BY <1>9 DEF r

(* The end of the path from a grey neighbour on is a cycle.                *)
LEMMA PathCloses ==
  ASSUME TypeOK, PathCoherent, SearchProgress, NEW n \in Top.todo, stack # <<>>,
         NEW i \in 1..Len(path), path[i] = n
  PROVE  LET c == SubSeq(path, i, Len(path)) IN
         /\ c \in Seq(Names)
         /\ \A k \in 1..Len(c) : c[IF k = Len(c) THEN 1 ELSE k + 1] \in graph[c[k]]
         /\ \A k, l \in 1..Len(c) : c[k] = c[l] => k = l
<1> DEFINE c == SubSeq(path, i, Len(path))
           L == Len(path)
<1>1. path \in Seq(Names) /\ L \in Nat \ {0} /\ i \in 1..L BY DEF TypeOK
<1>2. c \in Seq(Names) /\ Len(c) = L - i + 1 /\ \A k \in 1..(L - i + 1) : c[k] = path[i + k - 1]
  BY <1>1, SubSeqProperties
<1> HIDE DEF c
<1>3. n \in graph[path[L]]
  <2>1. Len(stack) \in 1..Len(stack) /\ path[L] = Top.node BY TopFrame, <1>1 DEF PathCoherent, Top
  <2>2. Top.todo \subseteq graph[Top.node] BY <2>1 DEF SearchProgress, Top
  <2> QED BY <2>1, <2>2
<1>4. ASSUME NEW k \in 1..Len(c) PROVE c[IF k = Len(c) THEN 1 ELSE k + 1] \in graph[c[k]]
  <2>1. CASE k = Len(c)
    <3>1. c[1] = n /\ c[k] = path[L] BY <1>1, <1>2, <2>1, SMTT(30)
    <3> QED BY <1>3, <2>1, <3>1
  <2>2. CASE k # Len(c)
    <3>1. i + k - 1 \in 1..(L - 1) /\ c[k] = path[i + k - 1] /\ c[k + 1] = path[(i + k - 1) + 1]
      <4>1. k \in 1..(L - i + 1) /\ k + 1 \in 1..(L - i + 1)
        <5> HIDE DEF L
        <5>1. k \in 1..(L - i + 1) /\ k # L - i + 1 BY <1>2, <1>4, <2>2
        <5> QED BY <1>1, <5>1
      <4>2. i + (k + 1) - 1 = (i + k - 1) + 1 BY <1>1, <4>1
      <4> QED BY <1>1, <1>2, <4>1, <4>2
    <3>2. path[(i + k - 1) + 1] \in graph[path[i + k - 1]] BY <3>1 DEF PathCoherent
    <3> QED BY <2>2, <3>1, <3>2
  <2> QED BY <2>1, <2>2
<1>5. ASSUME NEW k \in 1..Len(c), NEW l \in 1..Len(c), c[k] = c[l] PROVE k = l
  <2>1. i + k - 1 \in 1..L /\ i + l - 1 \in 1..L /\ path[i + k - 1] = path[i + l - 1]
    <3>1. i + k - 1 \in 1..L /\ i + l - 1 \in 1..L BY <1>1, <1>2, SMTT(30)
    <3> QED BY <1>2, <1>5, <3>1
  <2>2. i + k - 1 = i + l - 1 BY <2>1 DEF PathCoherent
  <2> QED BY <2>2, <1>1, <1>2
<1> QED BY <1>2, <1>4, <1>5 DEF c

LEMMA StepReported ==
  IInv /\ ReportedAreCycles /\ [Next]_vars => ReportedAreCycles'
<1> SUFFICES ASSUME IInv, ReportedAreCycles, [Next]_vars PROVE ReportedAreCycles'
  OBVIOUS
<1>1. ReportedAreCycles <=> \A d \in 1..Len(diags) : IsCycle(diags[d])
  BY DEF ReportedAreCycles, IsCycle
<1>2. graph' = graph
  BY DEF Next, vars, SkipStart, BeginSearch, Finish, Blacken, ReportCycle, PassOver, Descend
<1>3. (\A d \in 1..Len(diags') : IsCycle(diags'[d])) => ReportedAreCycles'
  BY <1>2 DEF ReportedAreCycles, IsCycle
<1>4. CASE \E n \in Refs : ReportCycle(n)
  <2>1. PICK n \in Refs : ReportCycle(n) BY <1>4
  <2>2. stack # <<>> /\ n \in Top.todo
    BY <2>1 DEF ReportCycle, Neighbour, IsLeast, IInv, PathCoherent
  <2>3. PICK i \in 1..Len(path) : path[i] = n /\ \E m \in 1..Len(SubSeq(path, i, Len(path))) :
          /\ LeastMember(SubSeq(path, i, Len(path)), m)
          /\ diags' = Append(diags, RotatedAt(SubSeq(path, i, Len(path)), m))
    BY <2>1 DEF ReportCycle
  <2> DEFINE c == SubSeq(path, i, Len(path))
  <2>4. /\ c \in Seq(Names)
        /\ \A k \in 1..Len(c) : c[IF k = Len(c) THEN 1 ELSE k + 1] \in graph[c[k]]
        /\ \A k, l \in 1..Len(c) : c[k] = c[l] => k = l
    BY <2>2, <2>3, PathCloses DEF IInv
  <2>5. PICK m \in 1..Len(c) : LeastMember(c, m) /\ diags' = Append(diags, RotatedAt(c, m))
    BY <2>3
  <2> HIDE DEF c
  <2>7. IsCycle(RotatedAt(c, m)) BY <2>4, <2>5, RotatedIsCycle
  <2>8. diags \in Seq(Seq(Names)) BY DEF IInv, TypeOK
  <2>9. \A d \in 1..Len(diags') : IsCycle(diags'[d])
    BY <1>1, <2>5, <2>7, <2>8
  <2> QED BY <1>3, <2>9
<1>5. CASE ~\E n \in Refs : ReportCycle(n)
  <2>1. diags' = diags
    BY <1>5 DEF Next, vars, SkipStart, BeginSearch, Finish, Blacken, PassOver, Descend
  <2> QED BY <1>1, <1>3, <2>1
<1> QED BY <1>4, <1>5

-----------------------------------------------------------------------------
(* The type invariant holds in every reachable state, and with it the      *)
(* coherence of the three representations of the DFS path, the acyclicity  *)
(* of the black names and the progress of the searches.                    *)
THEOREM Invariance == Spec => []IInv
<1>1. IInv /\ [Next]_vars => IInv'
  BY StepType, StepPath, StepProgress, StepBlack DEF IInv
<1> QED BY <1>1, InitIInv, PTL DEF Spec

(* The hand-kept path, stack and grey set of find_cycle_from always agree. *)
THEOREM PathCoherence == Spec => []PathCoherent
<1>1. IInv => PathCoherent
  BY DEF IInv
<1> QED BY <1>1, Invariance, PTL

(* No cycle passes through a black name, for any graph.                    *)
THEOREM BlackNamesAcyclic == Spec => []BlackIsAcyclic
<1>1. IInv => BlackIsAcyclic
  BY DEF IInv
<1> QED BY <1>1, Invariance, PTL

(* When the check reports nothing, the order in which names turned black   *)
(* is a topological order of the whole pool.                               *)
CleanIsOrdered ==
  pc = "done" /\ diags = <<>> =>
    \A v \in Names : \A w \in graph[v] \cap Names : blackAt[w] < blackAt[v]

LEMMA CleanOrder == IInv => CleanIsOrdered
<1> SUFFICES ASSUME IInv, pc = "done", diags = <<>>,
                    NEW v \in Names, NEW w \in graph[v] \cap Names
             PROVE  blackAt[w] < blackAt[v]
  BY DEF CleanIsOrdered
<1>1. grey = {}
  <2>1. Len(path) = 0
    BY DEF IInv, PathCoherent
  <2> QED BY <2>1 DEF IInv, PathCoherent
<1>2. v \in visited
  BY <1>1 DEF IInv, SearchProgress
<1> QED BY <1>2 DEF IInv, BlackIsAcyclic

(* Every nonempty set of naturals has a least element.                     *)
LEMMA LeastNat ==
  ASSUME NEW T \in SUBSET Nat, T # {}
  PROVE  \E n \in T : \A m \in T : n <= m
<1> DEFINE below == {1..n : n \in T}
<1>1. below \subseteq FiniteSubsetsOf(Nat)
  <2>1. ASSUME NEW n \in T PROVE 1..n \in SUBSET Nat /\ IsFiniteSet(1..n)
    BY FS_Interval
  <2> QED BY <2>1 DEF FiniteSubsetsOf
<1>2. below # {}
  OBVIOUS
<1>3. IsWellFoundedOn(StrictSubsetOrdering(Nat), FiniteSubsetsOf(Nat))
  BY FS_StrictSubsetOrderingWellFounded
<1>4. PICK x \in below : \A y \in below : ~(<<y, x>> \in StrictSubsetOrdering(Nat))
  <2> HIDE DEF below
  <2> QED BY <1>1, <1>2, <1>3, WFMin
<1>5. PICK n \in T : x = 1..n
  OBVIOUS
<1>6. ASSUME NEW m \in T PROVE n <= m
  <2>1. SUFFICES ASSUME m < n PROVE FALSE
    OBVIOUS
  <2>2. 1..m \in below /\ 1..m \in SUBSET Nat /\ 1..n \in SUBSET Nat
    OBVIOUS
  <2>3. 1..m \subseteq 1..n BY <2>1
  <2>4. n \in 1..n /\ n \notin 1..m BY <2>1
  <2>5. 1..m # 1..n BY <2>4
  <2>6. <<1..m, 1..n>> \in StrictSubsetOrdering(Nat)
    BY <2>2, <2>3, <2>5 DEF StrictSubsetOrdering
  <2> QED BY <1>4, <1>5, <2>2, <2>6
<1> QED BY <1>6

(* The verdict is exact, for every pool and every reference graph: no      *)
(* report if the graph has no cycle, and otherwise reports that are        *)
(* cycles of it.                                                           *)
THEOREM VerdictExactness == Spec => []VerdictExact
<1>1. Init => ReportedAreCycles BY DEF Init, ReportedAreCycles
<1>2. Spec => []ReportedAreCycles BY <1>1, Invariance, StepReported, PTL DEF Spec
<1>3. ASSUME IInv, CleanIsOrdered, ReportedAreCycles, pc = "done" PROVE diags = <<>> <=> Acyclic(graph)
  <2>1. ASSUME diags = <<>>, NEW S \in SUBSET Names, S # {} PROVE \E v \in S : graph[v] \cap S = {}
    <3> DEFINE T == {blackAt[v] : v \in S}
    <3>1. T \in SUBSET Nat /\ T # {} BY <1>3, <2>1 DEF IInv, TypeOK
    <3>2. PICK n \in T : \A k \in T : n <= k
      <4> HIDE DEF T
      <4> QED BY <3>1, LeastNat
    <3>3. PICK v \in S : blackAt[v] = n BY <3>2
    <3>4. ASSUME NEW w \in graph[v] \cap S PROVE FALSE
      <4>1. blackAt[w] < blackAt[v] BY <1>3, <2>1, <3>4 DEF CleanIsOrdered
      <4>2. blackAt[w] \in T /\ blackAt[w] \in Nat /\ blackAt[v] \in Nat BY <1>3, <2>1, <3>4 DEF IInv, TypeOK
      <4> QED BY <3>2, <3>3, <4>1, <4>2
    <3> QED BY <3>4
  <2>2. ASSUME diags # <<>> PROVE ~Acyclic(graph)
    <3>1. 1 \in 1..Len(diags) /\ diags[1] \in Seq(Names)
      <4>1. diags \in Seq(Seq(Names)) BY <1>3 DEF IInv, TypeOK
      <4>2. Len(diags) \in Nat \ {0} BY <2>2, <4>1, EmptySeq
      <4> QED BY <4>1, <4>2, ElementOfSeq
    <3>2. PICK c \in Seq(Names) : c = diags[1] BY <3>1
    <3>3. /\ c # <<>>
          /\ \A i \in 1..Len(c) : c[IF i = Len(c) THEN 1 ELSE i + 1] \in graph[c[i]]
      BY <1>3, <3>1, <3>2 DEF ReportedAreCycles
    <3> DEFINE S == {c[i] : i \in 1..Len(c)}
    <3>4. Len(c) \in Nat \ {0} BY <3>3, EmptySeq
    <3>5. S \subseteq Names /\ c[1] \in S BY <3>4
    <3>6. ASSUME NEW i \in 1..Len(c) PROVE graph[c[i]] \cap S # {}
      <4>1. (IF i = Len(c) THEN 1 ELSE i + 1) \in 1..Len(c) BY <3>4
      <4> QED BY <3>3, <4>1
    <3>7. S \in SUBSET Names /\ S # {} /\ \A v \in S : graph[v] \cap S # {} BY <3>5, <3>6
    <3> HIDE DEF S
    <3> QED BY <3>7 DEF Acyclic
  <2> QED BY <2>1, <2>2 DEF Acyclic
<1>4. IInv /\ CleanIsOrdered /\ ReportedAreCycles => VerdictExact
  BY <1>3 DEF VerdictExact
<1> QED BY Invariance, CleanOrder, <1>2, <1>4, PTL

-----------------------------------------------------------------------------
(* The loader.                                                             *)

InputOf(contents) == [label : Nat, file : FileStates \cup {"inline"}, content : contents]

LoaderTypes ==
  /\ model_inputs \in Seq(InputOf(Contents)) /\ catalogs_inputs \in Seq(InputOf(CatalogContents))
  /\ validate_pass \in BOOLEAN /\ had_error \in BOOLEAN
  /\ stage \in {"configure", "parse", "catalogs", "build", "loaded", "failed"}
  /\ next \in Nat \ {0}
  /\ IsSeq(accumulated)
  /\ IsSeq(storage.kinds) /\ IsSeq(storage.pool) /\ IsSeq(storage.relationships)

Its(entries) == {e.it : e \in Range(entries)}

(* Behind: the inputs that have been parsed.                               *)
Behind == IF stage = "parse" THEN 1..(next - 1) ELSE 1..Len(model_inputs)
RootsBehind == {model_inputs[n].content.root : n \in {n \in Behind : Decoded(model_inputs[n])}}

(* Up to the first diagnostic nothing is reported; from it on the load can *)
(* only fail.                                                              *)
ErrorsCounted ==
  /\ stage = "configure" => next = 1
  /\ stage \in {"configure", "parse", "catalogs", "build"} =>
       IF had_error THEN HasError(Reported) ELSE Reported = {}
  /\ stage \in {"configure", "build", "loaded"} => ~had_error
  /\ stage = "failed" /\ (had_error \/ validate_pass) => HasError(Reported)
  /\ stage = "catalogs" /\ had_error => next > 1
  /\ stage = "loaded" =>
       /\ loaded = Materialize(storage) /\ BuildModel(storage).ok
       /\ Reported = BuildModel(storage).diags

(* What was parsed is readable, is in the storage, and had its diagnostics *)
(* recorded at its place.                                                  *)
InputsKept ==
  stage \in {"parse", "catalogs", "build", "loaded"} =>
    /\ next <= Len(model_inputs) + 1 \/ stage # "parse"
    /\ \A i \in Range(model_inputs) : i.file \notin {"missing", "not_utf8"}
    /\ ~had_error => \A n \in Behind : Decoded(model_inputs[n])
    /\ Its(storage.kinds) = UNION {Range(r.kinds) : r \in RootsBehind}
    /\ Its(storage.pool) = UNION {Range(r.pool) : r \in RootsBehind}
    /\ Range(storage.relationships) = UNION {Range(r.relationships) : r \in RootsBehind}

(* The diagnostics of the n-th input.                                      *)
Accounted(n) ==
  LET i == model_inputs[n]
  IN IF Decoded(i)
       THEN InvalidIdentifiers(LowerInto(i.content.root, i.label, EmptyStorage), i.label)
              \subseteq accumulated[n]
       ELSE accumulated[n] # {}

LoaderInv ==
  /\ LoaderTypes /\ ErrorsCounted /\ InputsKept
  /\ stage = "configure" => accumulated = <<>> /\ storage = EmptyStorage
  /\ stage = "parse" => Len(accumulated) = next - 1 /\ \A n \in Behind : Accounted(n)
  /\ EveryProblemReported

-----------------------------------------------------------------------------
(* Sequences of anything.                                                  *)

LEMMA SeqAppend ==
  ASSUME NEW s, IsSeq(s), NEW x
  PROVE  /\ IsSeq(Append(s, x)) /\ Len(s) \in Nat /\ Len(Append(s, x)) = Len(s) + 1
         /\ \A i \in 1..Len(s) : Append(s, x)[i] = s[i]
         /\ Append(s, x)[Len(s) + 1] = x
         /\ Range(Append(s, x)) = Range(s) \cup {x}
<1> DEFINE T == Range(s) \cup {x}
           a == Append(s, x)
<1>1. s \in Seq(T) /\ x \in T BY SeqMonotonic DEF IsSeq
<1> HIDE DEF T
<1>2. /\ Len(s) \in Nat /\ a \in Seq(T) /\ Len(a) = Len(s) + 1
      /\ \A i \in 1..Len(s) : a[i] = s[i]
      /\ a[Len(s) + 1] = x
  BY <1>1, LenProperties, AppendProperties
<1> HIDE DEF a
<1>3. a \in Seq(Range(a)) BY <1>2, SeqOfRange
<1>4. Range(a) = {a[i] : i \in 1..(Len(s) + 1)} /\ Range(s) = {s[i] : i \in 1..Len(s)}
  BY <1>1, <1>2, RangeEquality
<1>5. Range(a) = Range(s) \cup {x}
  <2>1. ASSUME NEW i \in 1..(Len(s) + 1) PROVE a[i] \in Range(s) \cup {x}
    <3>1. i \in 1..Len(s) \/ i = Len(s) + 1 BY <1>2, <2>1
    <3> QED BY <1>2, <1>4, <3>1
  <2>2. ASSUME NEW i \in 1..Len(s) PROVE s[i] \in Range(a)
    <3>1. i \in 1..(Len(s) + 1) BY <1>2, <2>2
    <3> QED BY <1>2, <1>4, <3>1
  <2>3. x \in Range(a)
    <3>1. Len(s) + 1 \in 1..(Len(s) + 1) BY <1>2
    <3> QED BY <1>2, <1>4, <3>1
  <2> QED BY <1>4, <2>1, <2>2, <2>3
<1> QED BY <1>2, <1>3, <1>5 DEF IsSeq, a

LEMMA SeqConcat ==
  ASSUME NEW s, IsSeq(s), NEW t, IsSeq(t)
  PROVE  IsSeq(s \o t) /\ Range(s \o t) = Range(s) \cup Range(t)
<1> DEFINE T == Range(s) \cup Range(t)
<1>1. s \in Seq(T) /\ t \in Seq(T) BY SeqMonotonic DEF IsSeq
<1> HIDE DEF T
<1>2. s \o t \in Seq(T) BY <1>1, ConcatProperties
<1> QED BY <1>1, <1>2, SeqOfRange, RangeConcatenation DEF IsSeq

LEMMA SeqPlaced ==
  ASSUME NEW xs, IsSeq(xs), NEW a
  PROVE  LET ps == [i \in DOMAIN xs |-> [at |-> a, it |-> xs[i]]]
         IN IsSeq(ps) /\ Its(ps) = Range(xs)
<1> DEFINE ps == [i \in DOMAIN xs |-> [at |-> a, it |-> xs[i]]]
           T == {[at |-> a, it |-> x] : x \in Range(xs)}
<1>1. Len(xs) \in Nat /\ DOMAIN xs = 1..Len(xs) /\ \A i \in DOMAIN xs : xs[i] \in Range(xs)
  BY LenProperties DEF IsSeq, Range
<1>2. ps \in [1..Len(xs) -> T] BY <1>1
<1>3. ps \in Seq(T)
  <2> HIDE DEF ps, T
  <2> QED BY <1>1, <1>2, SeqDef
<1>4. ps \in Seq(Range(ps))
  <2> HIDE DEF ps, T
  <2> QED BY <1>3, SeqOfRange
<1>5. Its(ps) = Range(xs)
  <2>1. Range(ps) = {[at |-> a, it |-> xs[i]] : i \in DOMAIN xs} BY DEF Range
  <2>2. Its(ps) = {xs[i] : i \in DOMAIN xs}
    <3>1. \A i \in DOMAIN xs : [at |-> a, it |-> xs[i]].it = xs[i] OBVIOUS
    <3>2. Its(ps) = {e.it : e \in {[at |-> a, it |-> xs[i]] : i \in DOMAIN xs}} BY <2>1 DEF Its
    <3>3. Its(ps) = {[at |-> a, it |-> xs[i]].it : i \in DOMAIN xs} BY <3>2
    <3> QED BY <3>1, <3>3
  <2> QED BY <2>2 DEF Range
<1> QED BY <1>4, <1>5 DEF IsSeq

(* The first of a key is the only one when no key is repeated.             *)
LEMMA OnlyKeys ==
  ASSUME NEW n \in Nat, NEW keys, DOMAIN keys = 1..n, Repeated(keys) = {}
  PROVE  \A i, j \in 1..n : keys[i] = keys[j] => i = j
<1> SUFFICES ASSUME NEW i \in 1..n, NEW j \in 1..n, keys[i] = keys[j], i # j PROVE FALSE
  OBVIOUS
<1> DEFINE S == {k \in DOMAIN keys : keys[k] = keys[i]}
<1>1. IsFiniteSet(S) /\ {i, j} \subseteq S
  <2>1. IsFiniteSet(1..n) BY FS_Interval
  <2> QED BY <2>1, FS_Subset
<1>2. IsFiniteSet({i, j}) /\ Cardinality({i, j}) = 2
  <2>1. IsFiniteSet({i}) /\ Cardinality({i}) = 1 BY FS_Singleton
  <2>2. {i, j} = {i} \cup {j} /\ j \notin {i} OBVIOUS
  <2> QED BY <2>1, <2>2, FS_AddElement
<1>3. Cardinality(S) \in Nat /\ Cardinality({i, j}) <= Cardinality(S)
  BY <1>1, FS_Subset, FS_CardinalityType
<1>4. keys[i] \in Repeated(keys)
  <2>1. Cardinality(S) > 1 BY <1>2, <1>3
  <2>2. keys[i] \in Range(keys) BY DEF Range
  <2> QED BY <2>1, <2>2 DEF Repeated
<1> QED BY <1>4

LEMMA FirstsAreAll ==
  ASSUME NEW entries, IsSeq(entries), NEW keys,
         \A i, j \in DOMAIN entries : keys[i] = keys[j] => i = j
  PROVE  FirstOf(entries, keys) = Its(entries)
<1>1. Len(entries) \in Nat /\ DOMAIN entries = 1..Len(entries) BY LenProperties DEF IsSeq
<1>2. \A i \in DOMAIN entries : \A j \in 1..(i - 1) : j \in DOMAIN entries /\ j # i BY <1>1
<1>3. \A i \in DOMAIN entries : \A j \in 1..(i - 1) : keys[j] # keys[i] BY <1>2
<1>4. FirstOf(entries, keys) = {entries[i].it : i \in DOMAIN entries} BY <1>3 DEF FirstOf
<1> QED BY <1>4 DEF Its, Range

-----------------------------------------------------------------------------
(* What a source adds to the storage.                                      *)

IsStorage(st) == IsSeq(st.kinds) /\ IsSeq(st.pool) /\ IsSeq(st.relationships)

LEMMA EmptySeqs ==
  /\ IsSeq(<<>>) /\ Range(<<>>) = {} /\ Its(<<>>) = {}
  /\ IsStorage(EmptyStorage)
<1>1. Range(<<>>) = {} BY DEF Range
<1>2. IsSeq(<<>>) BY EmptySeq DEF IsSeq
<1> QED BY <1>1, <1>2 DEF Its, IsStorage, EmptyStorage

LEMMA Lowered ==
  ASSUME NEW c \in Contents, NEW label, NEW st, IsStorage(st)
  PROVE  LET low == LowerInto(c.root, label, st) IN
         /\ IsStorage(low)
         /\ Its(low.kinds) = Its(st.kinds) \cup Range(c.root.kinds)
         /\ Its(low.pool) = Its(st.pool) \cup Range(c.root.pool)
         /\ Range(low.relationships) = Range(st.relationships) \cup Range(c.root.relationships)
<1> DEFINE At(xs) == [i \in DOMAIN xs |-> [at |-> label, it |-> xs[i]]]
           low == LowerInto(c.root, label, st)
<1>1. /\ low.kinds = st.kinds \o At(c.root.kinds) /\ low.pool = st.pool \o At(c.root.pool)
      /\ low.relationships = st.relationships \o c.root.relationships
  BY DEF LowerInto
<1>2. IsSeq(c.root.kinds) /\ IsSeq(c.root.pool) /\ IsSeq(c.root.relationships)
  BY ContentsAssumption
<1>3. IsSeq(At(c.root.kinds)) /\ Its(At(c.root.kinds)) = Range(c.root.kinds) BY <1>2, SeqPlaced
<1>4. IsSeq(At(c.root.pool)) /\ Its(At(c.root.pool)) = Range(c.root.pool) BY <1>2, SeqPlaced
<1> HIDE DEF At, low
<1>5. IsSeq(low.kinds) /\ Range(low.kinds) = Range(st.kinds) \cup Range(At(c.root.kinds))
  BY <1>1, <1>3, SeqConcat DEF IsStorage
<1>6. IsSeq(low.pool) /\ Range(low.pool) = Range(st.pool) \cup Range(At(c.root.pool))
  BY <1>1, <1>4, SeqConcat DEF IsStorage
<1>7. IsSeq(low.relationships)
      /\ Range(low.relationships) = Range(st.relationships) \cup Range(c.root.relationships)
  BY <1>1, <1>2, SeqConcat DEF IsStorage
<1>8. Its(low.kinds) = Its(st.kinds) \cup Range(c.root.kinds) BY <1>3, <1>5 DEF Its
<1>9. Its(low.pool) = Its(st.pool) \cup Range(c.root.pool) BY <1>4, <1>6 DEF Its
<1> QED BY <1>5, <1>6, <1>7, <1>8, <1>9 DEF IsStorage, low

(* A name that is bad in a source is bad in any storage the source was     *)
(* lowered into.                                                           *)
LEMMA BadNamesStay ==
  ASSUME NEW c \in Contents, NEW label, NEW st, IsStorage(st)
  PROVE  CheckIdentifiers(LowerInto(c.root, label, EmptyStorage))
           \subseteq CheckIdentifiers(LowerInto(c.root, label, st))
<1> DEFINE alone == LowerInto(c.root, label, EmptyStorage)
           low == LowerInto(c.root, label, st)
           names(s) == (UNION {NamesOf(k) : k \in Its(s.kinds)}) \cup {p.name : p \in Its(s.pool)}
                       \cup {r.name : r \in Range(s.relationships)}
<1>1. ASSUME NEW s PROVE CheckIdentifiers(s) = names(s) \cap BadNames
  <2>1. {NamesOf(e.it) : e \in Range(s.kinds)} = {NamesOf(k) : k \in Its(s.kinds)} BY DEF Its
  <2>2. {e.it.name : e \in Range(s.pool)} = {p.name : p \in Its(s.pool)} BY DEF Its
  <2> QED BY <2>1, <2>2 DEF CheckIdentifiers
<1>2. /\ Its(alone.kinds) = Range(c.root.kinds) /\ Its(alone.pool) = Range(c.root.pool)
      /\ Range(alone.relationships) = Range(c.root.relationships)
  <2>1. /\ Its(alone.kinds) = Its(EmptyStorage.kinds) \cup Range(c.root.kinds)
        /\ Its(alone.pool) = Its(EmptyStorage.pool) \cup Range(c.root.pool)
        /\ Range(alone.relationships) = Range(EmptyStorage.relationships) \cup Range(c.root.relationships)
    BY EmptySeqs, Lowered
  <2>2. EmptyStorage.kinds = <<>> /\ EmptyStorage.pool = <<>> /\ EmptyStorage.relationships = <<>>
    BY DEF EmptyStorage
  <2> HIDE DEF alone
  <2> QED BY <2>1, <2>2, EmptySeqs
<1>3. /\ Range(c.root.kinds) \subseteq Its(low.kinds) /\ Range(c.root.pool) \subseteq Its(low.pool)
      /\ Range(c.root.relationships) \subseteq Range(low.relationships)
  <2>1. /\ Its(low.kinds) = Its(st.kinds) \cup Range(c.root.kinds)
        /\ Its(low.pool) = Its(st.pool) \cup Range(c.root.pool)
        /\ Range(low.relationships) = Range(st.relationships) \cup Range(c.root.relationships)
    BY Lowered
  <2> HIDE DEF low
  <2> QED BY <2>1
<1> HIDE DEF alone, low
<1>4. names(alone) \subseteq names(low)
  BY <1>2, <1>3
<1>5. CheckIdentifiers(alone) \subseteq CheckIdentifiers(low)
  <2>1. CheckIdentifiers(alone) = names(alone) \cap BadNames /\ CheckIdentifiers(low) = names(low) \cap BadNames
    BY <1>1
  <2> HIDE DEF names
  <2> QED BY <1>4, <2>1
<1> QED BY <1>5 DEF alone, low

LEMMA InvalidIsError ==
  ASSUME NEW held, NEW label
  PROVE  InvalidIdentifiers(held, label) = {} \/ HasError(InvalidIdentifiers(held, label))
<1>1. \A n : Severity(<<"InvalidIdentifier", label, n>>) = "error" BY DEF Severity
<1> QED BY <1>1 DEF InvalidIdentifiers, HasError

LEMMA Parsed ==
  ASSUME NEW i \in InputOf(Contents), IsStorage(storage)
  PROVE  LET r == AccumulateModel(i)
             of(xs) == IF Decoded(i) THEN Range(xs) ELSE {} IN
         /\ IsStorage(r.storage)
         /\ Its(r.storage.kinds) = Its(storage.kinds) \cup of(i.content.root.kinds)
         /\ Its(r.storage.pool) = Its(storage.pool) \cup of(i.content.root.pool)
         /\ Range(r.storage.relationships) = Range(storage.relationships) \cup of(i.content.root.relationships)
         /\ r.diags = {} \/ HasError(r.diags)
         /\ IF Decoded(i)
              THEN InvalidIdentifiers(LowerInto(i.content.root, i.label, EmptyStorage), i.label) \subseteq r.diags
              ELSE r.diags # {}
<1> DEFINE r == AccumulateModel(i)
           low == LowerInto(i.content.root, i.label, storage)
<1>1. i.content \in Contents /\ i.content.state \in {"unset_env", "undecodable", "ok"}
  BY ContentsAssumption DEF InputOf
<1>2. CASE Decoded(i)
  <2>1. r.storage = low /\ r.diags = InvalidIdentifiers(low, i.label) BY <1>2 DEF Decoded, AccumulateModel
  <2>2. CheckIdentifiers(LowerInto(i.content.root, i.label, EmptyStorage)) \subseteq CheckIdentifiers(low)
    BY <1>1, BadNamesStay
  <2>3. InvalidIdentifiers(LowerInto(i.content.root, i.label, EmptyStorage), i.label)
          \subseteq InvalidIdentifiers(low, i.label)
    <3> HIDE DEF low
    <3> QED BY <2>2 DEF InvalidIdentifiers
  <2>4. /\ IsStorage(low)
        /\ Its(low.kinds) = Its(storage.kinds) \cup Range(i.content.root.kinds)
        /\ Its(low.pool) = Its(storage.pool) \cup Range(i.content.root.pool)
        /\ Range(low.relationships) = Range(storage.relationships) \cup Range(i.content.root.relationships)
    BY <1>1, Lowered
  <2> HIDE DEF low, r
  <2>5. r.diags = {} \/ HasError(r.diags) BY <2>1, InvalidIsError
  <2> QED BY <1>2, <2>1, <2>3, <2>4, <2>5 DEF r
<1>3. CASE ~Decoded(i)
  <2>1. r.storage = storage /\ (r.diags = {<<"UnsetEnvVar">>} \/ r.diags = {<<"YamlSyntax">>})
    BY <1>1, <1>3 DEF Decoded, AccumulateModel
  <2>2. Severity(<<"UnsetEnvVar">>) = "error" /\ Severity(<<"YamlSyntax">>) = "error" BY DEF Severity
  <2> HIDE DEF r
  <2>3. HasError(r.diags) BY <2>1, <2>2 DEF HasError
  <2> QED BY <1>3, <2>1, <2>3 DEF r
<1> QED BY <1>2, <1>3

-----------------------------------------------------------------------------
(* The invariant of the loader, step by step.                              *)

LEMMA ReportAppend ==
  ASSUME NEW d, LoaderTypes, accumulated' = Append(accumulated, d)
  PROVE  /\ IsSeq(accumulated') /\ Reported' = Reported \cup d
         /\ Len(accumulated) \in Nat /\ Len(accumulated') = Len(accumulated) + 1
         /\ \A i \in 1..Len(accumulated) : accumulated'[i] = accumulated[i]
         /\ accumulated'[Len(accumulated) + 1] = d
<1>1. Range(accumulated') = Range(accumulated) \cup {d} BY SeqAppend DEF LoaderTypes
<1>2. Reported' = Reported \cup d BY <1>1 DEF Reported
<1> QED BY <1>2, SeqAppend DEF LoaderTypes

LEMMA InitLoader == LInit => LoaderInv
<1> SUFFICES ASSUME LInit PROVE LoaderInv OBVIOUS
<1>1. LoaderTypes
  <2>1. model_inputs \in Seq(InputOf(Contents)) /\ catalogs_inputs \in Seq(InputOf(CatalogContents))
    BY EmptySeq DEF LInit
  <2>2. IsSeq(accumulated) /\ IsSeq(storage.kinds) /\ IsSeq(storage.pool) /\ IsSeq(storage.relationships)
    BY EmptySeqs DEF LInit, IsStorage
  <2>3. 1 \in Nat \ {0} OBVIOUS
  <2> QED BY <2>1, <2>2, <2>3 DEF LInit, LoaderTypes
<1>2. Reported = {} BY EmptySeqs DEF LInit, Reported
<1>3. ErrorsCounted BY <1>2 DEF LInit, ErrorsCounted
<1> QED BY <1>1, <1>3 DEF LInit, LoaderInv, InputsKept, EveryProblemReported, Failed

LEMMA StepConfigure ==
  ASSUME LoaderInv,
         \/ \E f \in FileStates \cup {"inline"}, c \in Contents : FromYaml(f, c)
         \/ \E f \in FileStates \cup {"inline"}, c \in CatalogContents : FromCatalogsYaml(f, c)
         \/ WithCatalogs \/ SkipValidate
  PROVE  LoaderInv'
<1>1. stage = "configure" /\ UNCHANGED <<stage, next, storage, accumulated, had_error, loaded>>
  BY DEF FromYaml, FromCatalogsYaml, WithCatalogs, SkipValidate, Unconfigured
<1>2. /\ model_inputs' \in Seq(InputOf(Contents)) /\ catalogs_inputs' \in Seq(InputOf(CatalogContents))
      /\ validate_pass' \in BOOLEAN
  <2> USE DEF LoaderInv, LoaderTypes
  <2>1. ASSUME NEW f \in FileStates \cup {"inline"}, NEW c \in Contents, FromYaml(f, c)
        PROVE  <1>2!:
    <3>1. Input(Len(model_inputs) + 1, f, c) \in InputOf(Contents) BY DEF Input, InputOf
    <3> QED BY <2>1, <3>1, AppendProperties DEF FromYaml
  <2>2. ASSUME NEW f \in FileStates \cup {"inline"}, NEW c \in CatalogContents, FromCatalogsYaml(f, c)
        PROVE  <1>2!:
    <3>1. Input(Len(catalogs_inputs) + 1, f, c) \in InputOf(CatalogContents) BY DEF Input, InputOf
    <3> QED BY <2>2, <3>1, AppendProperties DEF FromCatalogsYaml
  <2>3. CASE WithCatalogs BY <2>3 DEF WithCatalogs
  <2>4. CASE SkipValidate BY <2>4 DEF SkipValidate
  <2> QED BY <2>1, <2>2, <2>3, <2>4
<1>3. LoaderTypes' BY <1>1, <1>2 DEF LoaderInv, LoaderTypes
<1>4. Reported' = Reported BY <1>1 DEF Reported
<1>5. ErrorsCounted' BY <1>1, <1>4 DEF LoaderInv, ErrorsCounted
<1> QED BY <1>1, <1>3, <1>5 DEF LoaderInv, InputsKept, EveryProblemReported, Failed

LEMMA StepRead ==
  ASSUME LoaderInv, Read
  PROVE  LoaderInv'
<1> USE DEF LoaderInv
<1>1. stage = "configure" /\ next = 1 /\ ~had_error /\ Reported = {}
      /\ accumulated = <<>> /\ storage = EmptyStorage
      /\ UNCHANGED <<model_inputs, catalogs_inputs, validate_pass, next, storage, had_error, loaded>>
  BY DEF Read, ErrorsCounted, config
<1>2. ASSUME NEW d, Fail(d), HasError(d) PROVE LoaderInv'
  <2>1. stage' = "failed" /\ accumulated' = <<d>> BY <1>2 DEF Fail
  <2>2. IsSeq(accumulated') /\ Reported' = d
    <3>1. <<d>> \in Seq({d}) OBVIOUS
    <3>2. Range(<<d>>) = {d} BY DEF Range
    <3> QED BY <2>1, <3>1, <3>2 DEF IsSeq, Reported
  <2>3. LoaderTypes' BY <1>1, <2>1, <2>2 DEF LoaderTypes
  <2>4. ErrorsCounted' BY <1>1, <1>2, <2>1, <2>2 DEF ErrorsCounted
  <2> QED BY <1>1, <2>1, <2>3, <2>4 DEF InputsKept, EveryProblemReported
<1>3. HasError({<<"NoSource">>})
  <2>1. Severity(<<"NoSource">>) = "error" BY DEF Severity
  <2> QED BY <2>1 DEF HasError
<1>4. ASSUME NEW inputs PROVE ReadErrors(inputs) # {} => HasError(ReadErrors(inputs))
  <2>1. \A i : Severity(<<"SourceIo", i.label>>) = "error" BY DEF Severity
  <2> QED BY <2>1 DEF HasError, ReadErrors
<1>5. ASSUME ReadErrors(model_inputs) = {}, stage' = "parse", UNCHANGED accumulated PROVE LoaderInv'
  <2>1. \A i \in Range(model_inputs') : i.file \notin {"missing", "not_utf8"} BY <1>1, <1>5 DEF ReadErrors
  <2>2. LoaderTypes' BY <1>1, <1>5 DEF LoaderTypes
  <2>3. Reported' = {} /\ Behind' = {} BY <1>1, <1>5 DEF Reported, Behind
  <2>4. RootsBehind' = {} BY <2>3 DEF RootsBehind
  <2>5. ErrorsCounted' BY <1>1, <1>5, <2>3 DEF ErrorsCounted
  <2>6. Its(storage'.kinds) = {} /\ Its(storage'.pool) = {} /\ Range(storage'.relationships) = {}
    BY <1>1, EmptySeqs DEF EmptyStorage
  <2>7. next' <= Len(model_inputs') + 1 BY <1>1 DEF LoaderTypes
  <2>8. InputsKept' BY <2>1, <2>3, <2>4, <2>6, <2>7 DEF InputsKept
  <2>9. Len(accumulated') = next' - 1 BY <1>1, <1>5
  <2> QED BY <1>1, <1>5, <2>2, <2>3, <2>5, <2>8, <2>9 DEF EveryProblemReported, Failed
<1> QED BY <1>2, <1>3, <1>4, <1>5 DEF Read

LEMMA StepParseModel ==
  ASSUME LoaderInv, ParseModel
  PROVE  LoaderInv'
<1> USE DEF LoaderInv
<1> DEFINE i == model_inputs[next]
           r == AccumulateModel(i)
           of(xs) == IF Decoded(i) THEN Range(xs) ELSE {}
<1>1. /\ stage = "parse" /\ next <= Len(model_inputs)
      /\ storage' = r.storage /\ accumulated' = Append(accumulated, r.diags)
      /\ had_error' = (had_error \/ r.diags # {}) /\ next' = next + 1
      /\ UNCHANGED <<model_inputs, catalogs_inputs, validate_pass, stage, loaded>>
  BY DEF ParseModel, config
<1>2. next \in 1..Len(model_inputs) /\ Len(model_inputs) \in Nat /\ i \in InputOf(Contents)
  <2>1. model_inputs \in Seq(InputOf(Contents)) /\ next \in Nat \ {0} BY DEF LoaderTypes
  <2>2. next \in 1..Len(model_inputs) /\ Len(model_inputs) \in Nat BY <1>1, <2>1
  <2> QED BY <2>1, <2>2, ElementOfSeq
<1>3. /\ IsStorage(r.storage)
      /\ Its(r.storage.kinds) = Its(storage.kinds) \cup of(i.content.root.kinds)
      /\ Its(r.storage.pool) = Its(storage.pool) \cup of(i.content.root.pool)
      /\ Range(r.storage.relationships) = Range(storage.relationships) \cup of(i.content.root.relationships)
      /\ r.diags = {} \/ HasError(r.diags)
      /\ IF Decoded(i)
           THEN InvalidIdentifiers(LowerInto(i.content.root, i.label, EmptyStorage), i.label) \subseteq r.diags
           ELSE r.diags # {}
  <2>1. IsStorage(storage) BY DEF LoaderTypes, IsStorage
  <2> QED BY <1>2, <2>1, Parsed
<1> HIDE DEF i, r
<1>4. /\ IsSeq(accumulated') /\ Reported' = Reported \cup r.diags
      /\ Len(accumulated) \in Nat /\ Len(accumulated') = Len(accumulated) + 1
      /\ \A n \in 1..Len(accumulated) : accumulated'[n] = accumulated[n]
      /\ accumulated'[Len(accumulated) + 1] = r.diags
  BY <1>1, ReportAppend
<1>5. LoaderTypes' BY <1>1, <1>2, <1>3, <1>4 DEF LoaderTypes, IsStorage
<1>6. ErrorsCounted'
  <2>1. IF had_error' THEN HasError(Reported') ELSE Reported' = {}
    BY <1>1, <1>3, <1>4 DEF ErrorsCounted, HasError, LoaderTypes
  <2> QED BY <1>1, <2>1 DEF ErrorsCounted
<1>7. Behind = 1..(next - 1) /\ Behind' = 1..next /\ Behind' = Behind \cup {next}
  <2>1. Behind = 1..(next - 1) /\ Behind' = 1..((next + 1) - 1) BY <1>1 DEF Behind
  <2> QED BY <1>2, <2>1
<1>8. RootsBehind' = RootsBehind \cup (IF Decoded(i) THEN {i.content.root} ELSE {})
  <2>1. \A n : Decoded(model_inputs[n])' <=> Decoded(model_inputs[n]) BY <1>1 DEF Decoded
  <2>2. RootsBehind' = {model_inputs[n].content.root : n \in {n \in Behind \cup {next} : Decoded(model_inputs[n])}}
    BY <1>1, <1>7, <2>1 DEF RootsBehind
  <2> HIDE DEF Behind
  <2> QED BY <2>2 DEF RootsBehind, i
<1>9. InputsKept'
  <2>1. next' <= Len(model_inputs') + 1 BY <1>1, <1>2
  <2>2. \A x \in Range(model_inputs') : x.file \notin {"missing", "not_utf8"} BY <1>1 DEF InputsKept
  <2>3. ~had_error' => \A n \in Behind' : Decoded(model_inputs'[n])
    <3>1. \A n : Decoded(model_inputs'[n]) <=> Decoded(model_inputs[n]) BY <1>1
    <3>2. ~had_error' => Decoded(i) /\ ~had_error BY <1>1, <1>3
    <3> QED BY <1>1, <1>7, <3>1, <3>2 DEF InputsKept, i
  <2>4. /\ Its(storage.kinds) = UNION {Range(x.kinds) : x \in RootsBehind}
        /\ Its(storage.pool) = UNION {Range(x.pool) : x \in RootsBehind}
        /\ Range(storage.relationships) = UNION {Range(x.relationships) : x \in RootsBehind}
    BY <1>1 DEF InputsKept
  <2>5. Its(storage'.kinds) = UNION {Range(x.kinds) : x \in RootsBehind'}
    BY <1>1, <1>3, <1>8, <2>4
  <2>6. Its(storage'.pool) = UNION {Range(x.pool) : x \in RootsBehind'}
    BY <1>1, <1>3, <1>8, <2>4
  <2>7. Range(storage'.relationships) = UNION {Range(x.relationships) : x \in RootsBehind'}
    BY <1>1, <1>3, <1>8, <2>4
  <2> QED BY <2>1, <2>2, <2>3, <2>5, <2>6, <2>7 DEF InputsKept
<1>10. Len(accumulated') = next' - 1 /\ \A n \in Behind' : Accounted(n)'
  <2>1. Len(accumulated) = next - 1 /\ \A n \in Behind : Accounted(n) BY <1>1
  <2>2. Len(accumulated') = next' - 1 BY <1>1, <1>2, <1>4, <2>1
  <2>3. ASSUME NEW n \in Behind PROVE Accounted(n)'
    <3>1. accumulated'[n] = accumulated[n] BY <1>4, <1>7, <2>1, <2>3
    <3> QED BY <1>1, <2>1, <2>3, <3>1 DEF Accounted, Decoded
  <2>4. PICK k : k = next OBVIOUS
  <2>5. Accounted(k)'
    <3>1. accumulated'[k] = r.diags BY <1>2, <1>4, <2>1, <2>4
    <3>2. model_inputs'[k] = i BY <1>1, <2>4 DEF i
    <3> QED BY <1>3, <3>1, <3>2 DEF Accounted, Decoded
  <2>6. Behind' = Behind \cup {k} BY <1>7, <2>4
  <2>7. \A n \in Behind' : Accounted(n)' BY <2>3, <2>5, <2>6
  <2> QED BY <2>2, <2>7
<1> QED BY <1>1, <1>5, <1>6, <1>9, <1>10 DEF EveryProblemReported, Failed

LEMMA StepStages ==
  ASSUME LoaderInv, ParseDone \/ ParseCatalogs \/ CatalogsDone
  PROVE  LoaderInv'
<1> USE DEF LoaderInv
<1>0. UNCHANGED <<model_inputs, catalogs_inputs, validate_pass, storage, loaded>>
      /\ stage \in {"parse", "catalogs"}
  BY DEF ParseDone, ParseCatalogs, CatalogsDone, config
<1>1. CASE ParseDone
  <2>1. /\ stage = "parse" /\ next > Len(model_inputs) /\ next' = 1
        /\ stage' = IF had_error THEN "failed" ELSE "catalogs"
        /\ UNCHANGED <<accumulated, had_error>>
    BY <1>1 DEF ParseDone, AllParsed
  <2>2. next \in Nat \ {0} /\ Len(model_inputs) \in Nat /\ next - 1 = Len(model_inputs)
    <3>1. next \in Nat \ {0} /\ Len(model_inputs) \in Nat BY DEF LoaderTypes
    <3> QED BY <2>1, <3>1 DEF InputsKept
  <2>3. LoaderTypes' BY <1>0, <2>1 DEF LoaderTypes
  <2>4. Reported' = Reported BY <2>1 DEF Reported
  <2>5. ErrorsCounted' BY <1>0, <2>1, <2>4 DEF ErrorsCounted
  <2>6. Behind' = Behind /\ Behind = 1..Len(model_inputs) BY <1>0, <2>1, <2>2 DEF Behind
  <2>7. RootsBehind' = RootsBehind BY <1>0, <2>6 DEF RootsBehind, Decoded
  <2>8. InputsKept'
    <3>1. stage' = "catalogs" \/ stage' = "failed" BY <2>1
    <3> QED BY <1>0, <2>1, <2>6, <2>7, <3>1 DEF InputsKept, Decoded
  <2>9. EveryProblemReported'
    <3>1. Len(accumulated) = next - 1 /\ \A n \in Behind : Accounted(n) BY <2>1
    <3>2. DOMAIN model_inputs = 1..Len(model_inputs) BY LenProperties DEF LoaderTypes
    <3>3. Len(accumulated') = Len(model_inputs') BY <1>0, <2>1, <2>2, <3>1
    <3>4. \A n \in DOMAIN model_inputs : Accounted(n) BY <2>6, <3>1, <3>2
    <3> QED BY <1>0, <2>1, <3>3, <3>4 DEF EveryProblemReported, Accounted, Decoded
  <2> QED BY <2>1, <2>3, <2>5, <2>8, <2>9
<1>2. CASE ParseCatalogs
  <2> DEFINE c == catalogs_inputs[next].content
             d == IF c = "unset_env" THEN {<<"CatalogsUnsetEnvVar">>}
                  ELSE IF c = "undecodable" THEN {<<"CatalogsYamlSyntax">>}
                  ELSE {}
  <2>1. /\ stage = "catalogs" /\ accumulated' = Append(accumulated, d) /\ had_error' = (had_error \/ d # {})
        /\ next' = next + 1 /\ stage' = stage
    BY <1>2 DEF ParseCatalogs
  <2>2. d = {} \/ HasError(d)
    <3>1. Severity(<<"CatalogsUnsetEnvVar">>) = "error" /\ Severity(<<"CatalogsYamlSyntax">>) = "error"
      BY DEF Severity
    <3> QED BY <3>1 DEF HasError
  <2> HIDE DEF d
  <2>3. IsSeq(accumulated') /\ Reported' = Reported \cup d BY <2>1, ReportAppend
  <2>4. LoaderTypes' BY <1>0, <2>1, <2>3 DEF LoaderTypes
  <2>5. ErrorsCounted'
    <3>1. IF had_error' THEN HasError(Reported') ELSE Reported' = {}
      BY <2>1, <2>2, <2>3 DEF ErrorsCounted, HasError, LoaderTypes
    <3>2. next' > 1 BY <2>1 DEF LoaderTypes
    <3> QED BY <2>1, <3>1, <3>2 DEF ErrorsCounted
  <2>6. Behind' = Behind BY <1>0, <2>1 DEF Behind
  <2>7. RootsBehind' = RootsBehind BY <1>0, <2>6 DEF RootsBehind, Decoded
  <2>8. had_error => had_error' BY <2>1
  <2>9. InputsKept' BY <1>0, <2>1, <2>6, <2>7, <2>8 DEF InputsKept, Decoded
  <2> QED BY <2>1, <2>4, <2>5, <2>9 DEF EveryProblemReported, Failed
<1>3. CASE CatalogsDone
  <2>1. /\ stage = "catalogs" /\ stage' = IF had_error THEN "failed" ELSE "build"
        /\ UNCHANGED <<next, accumulated, had_error>>
    BY <1>3 DEF CatalogsDone
  <2>2. LoaderTypes' BY <1>0, <2>1 DEF LoaderTypes
  <2>3. Reported' = Reported BY <2>1 DEF Reported
  <2>4. ErrorsCounted' BY <1>0, <2>1, <2>3 DEF ErrorsCounted
  <2>5. Behind' = Behind BY <1>0, <2>1 DEF Behind
  <2>6. RootsBehind' = RootsBehind BY <1>0, <2>5 DEF RootsBehind, Decoded
  <2>7. InputsKept' BY <1>0, <2>1, <2>5, <2>6 DEF InputsKept, Decoded
  <2>8. EveryProblemReported'
    <3>1. had_error => next > 1 BY <2>1 DEF ErrorsCounted
    <3> QED BY <2>1, <3>1 DEF EveryProblemReported, LoaderTypes
  <2> QED BY <2>1, <2>2, <2>4, <2>7, <2>8
<1> QED BY <1>1, <1>2, <1>3

LEMMA StepBuild ==
  ASSUME LoaderInv, Build
  PROVE  LoaderInv'
<1> USE DEF LoaderInv
<1> DEFINE b == BuildModel(storage)
<1>1. /\ stage = "build" /\ ~had_error /\ Reported = {}
      /\ UNCHANGED <<model_inputs, catalogs_inputs, validate_pass, next, storage, had_error>>
  BY DEF Build, config, ErrorsCounted
<1>2. Behind = 1..Len(model_inputs) /\ (stage' \in {"loaded", "failed"} => Behind' = Behind)
  BY <1>1 DEF Behind
<1>3. stage' \in {"loaded", "failed"} => RootsBehind' = RootsBehind /\ InputsKept'
  BY <1>1, <1>2 DEF InputsKept, RootsBehind, Decoded
<1>4. b.ok <=> ~HasError(b.diags) BY DEF BuildModel
<1>5. b.model = Materialize(storage) BY DEF BuildModel
<1> HIDE DEF b
<1>6. CASE b.ok
  <2>1. stage' = "loaded" /\ loaded' = b.model /\ accumulated' = Append(accumulated, b.diags)
    BY <1>6 DEF Build, b
  <2>2. IsSeq(accumulated') /\ Reported' = b.diags BY <1>1, <2>1, ReportAppend
  <2>3. LoaderTypes' BY <1>1, <2>1, <2>2 DEF LoaderTypes
  <2>4. ErrorsCounted' BY <1>1, <1>5, <1>6, <2>1, <2>2 DEF ErrorsCounted, b
  <2> QED BY <1>3, <2>1, <2>3, <2>4 DEF EveryProblemReported, Failed
<1>7. CASE ~b.ok
  <2>1. stage' = "failed" /\ accumulated' = Append(accumulated, ReportedOnFailure(b.diags))
    BY <1>7 DEF Build, b
  <2>2. IsSeq(accumulated') /\ Reported' = ReportedOnFailure(b.diags) BY <1>1, <2>1, ReportAppend
  <2>3. LoaderTypes' BY <1>1, <2>1, <2>2 DEF LoaderTypes
  <2>4. validate_pass => HasError(Reported') BY <1>4, <1>7, <2>2 DEF ReportedOnFailure
  <2>5. ErrorsCounted' BY <1>1, <2>1, <2>4 DEF ErrorsCounted
  <2> QED BY <1>1, <1>3, <2>1, <2>3, <2>5 DEF EveryProblemReported
<1> QED BY <1>6, <1>7

LEMMA LoaderInductive == LoaderInv /\ [LNext]_lvars => LoaderInv'
<1> SUFFICES ASSUME LoaderInv, [LNext]_lvars PROVE LoaderInv' OBVIOUS
<1>1. CASE UNCHANGED lvars
  <2>1. UNCHANGED <<model_inputs, catalogs_inputs, validate_pass, stage, next, storage, accumulated, had_error, loaded>>
    BY <1>1 DEF lvars
  <2>2. LoaderTypes' BY <2>1 DEF LoaderInv, LoaderTypes
  <2>3. Reported' = Reported /\ Behind' = Behind BY <2>1 DEF Reported, Behind
  <2>4. RootsBehind' = RootsBehind BY <2>1, <2>3 DEF RootsBehind, Decoded
  <2>5. ErrorsCounted' BY <2>1, <2>3 DEF LoaderInv, ErrorsCounted
  <2>6. InputsKept' BY <2>1, <2>3, <2>4 DEF LoaderInv, InputsKept, Decoded
  <2>7. EveryProblemReported' BY <2>1 DEF LoaderInv, EveryProblemReported, Failed, Decoded
  <2>8. stage' = "parse" => Len(accumulated') = next' - 1 /\ \A n \in Behind' : Accounted(n)'
    BY <2>1, <2>3 DEF LoaderInv, Accounted, Decoded
  <2> QED BY <2>1, <2>2, <2>5, <2>6, <2>7, <2>8 DEF LoaderInv
<1>2. CASE LNext
  BY <1>2, StepConfigure, StepRead, StepParseModel, StepStages, StepBuild DEF LNext
<1> QED BY <1>1, <1>2

-----------------------------------------------------------------------------
(* What a clean build says of the storage.                                 *)

LEMMA CleanBuild ==
  ASSUME NEW st, IsStorage(st), BuildModel(st).ok
  PROVE  LET m == Materialize(st) IN
         /\ m.kinds = Its(st.kinds) /\ m.pool = Its(st.pool) /\ m.relationships = st.relationships
         /\ \A k, l \in m.kinds : k.name = l.name => k = l
         /\ CheckAllRelationships(m) = {}
<1> DEFINE m == Materialize(st)
           problems == DuplicateDataKinds(st) \cup DuplicateSharedSemantics(st) \cup Validate(m)
<1>1. \A d \in problems : Severity(d) # "error"
  <2>1. ~HasError(problems) BY DEF BuildModel
  <2> HIDE DEF problems
  <2> QED BY <2>1 DEF HasError
<1>2. DuplicateDataKinds(st) = {}
  <2>1. ASSUME NEW d \in DuplicateDataKinds(st) PROVE FALSE
    <3>1. PICK n : d = <<"DuplicateDataKindName", n>> BY <2>1 DEF DuplicateDataKinds
    <3>2. Severity(d) = "error" BY <3>1 DEF Severity
    <3>3. d \in problems OBVIOUS
    <3> HIDE DEF problems
    <3> QED BY <1>1, <3>2, <3>3
  <2> QED BY <2>1
<1>3. DuplicateSharedSemantics(st) = {}
  <2>1. ASSUME NEW d \in DuplicateSharedSemantics(st) PROVE FALSE
    <3>1. PICK n : d = <<"DuplicateSharedSemanticsName", n>> BY <2>1 DEF DuplicateSharedSemantics
    <3>2. Severity(d) = "error" BY <3>1 DEF Severity
    <3>3. d \in problems OBVIOUS
    <3> HIDE DEF problems
    <3> QED BY <1>1, <3>2, <3>3
  <2> QED BY <2>1
<1>4. CheckAllRelationships(m) = {}
  <2>1. ASSUME NEW d \in CheckAllRelationships(m) PROVE FALSE
    <3>1. d \in problems BY DEF Validate
    <3>2. Severity(d) = "error"
      <4>1. ASSUME NEW rels, d \in CheckRelationships(rels) PROVE Severity(d) = "error"
        <5>1. \/ \E r \in rels : d = <<"RelationshipSymmetricCardinalityIncomplete", r.name, "optional">>
              \/ \E r \in rels : d = <<"RelationshipSymmetricCardinalityIncomplete", r.name, "cross_filter">>
              \/ \E r \in rels : d = <<"RelationshipManyToManyCrossFilterDirectional", r.name>>
          BY <4>1 DEF CheckRelationships
        <5> QED BY <5>1 DEF Severity
      <4>2. ASSUME d \in CheckEndpoints(m) PROVE Severity(d) = "error"
        <5>1. \E r, side : d = <<"RelationshipDanglingEndpoint", r.name, side>>
          BY <4>2 DEF CheckEndpoints
        <5> QED BY <5>1 DEF Severity
      <4> HIDE DEF m, problems
      <4>3. \/ \E rels : d \in CheckRelationships(rels)
            \/ d \in CheckEndpoints(m)
        BY <2>1 DEF CheckAllRelationships
      <4> QED BY <4>1, <4>2, <4>3
    <3> HIDE DEF problems
    <3> QED BY <1>1, <3>1, <3>2
  <2> QED BY <2>1
<1>5. /\ Len(st.kinds) \in Nat /\ DOMAIN st.kinds = 1..Len(st.kinds)
      /\ Len(st.pool) \in Nat /\ DOMAIN st.pool = 1..Len(st.pool)
  BY LenProperties DEF IsStorage, IsSeq
<1>6. \A i, j \in DOMAIN st.kinds : st.kinds[i].it.name = st.kinds[j].it.name => i = j
  <2>1. Repeated(KindNames(st.kinds)) = {}
    <3>1. \A n \in Repeated(KindNames(st.kinds)) : <<"DuplicateDataKindName", n>> \in DuplicateDataKinds(st)
      BY DEF DuplicateDataKinds
    <3> QED BY <1>2, <3>1
  <2>2. DOMAIN KindNames(st.kinds) = 1..Len(st.kinds) BY <1>5 DEF KindNames
  <2>3. \A i, j \in 1..Len(st.kinds) : KindNames(st.kinds)[i] = KindNames(st.kinds)[j] => i = j
    BY <1>5, <2>1, <2>2, OnlyKeys
  <2>4. \A i \in 1..Len(st.kinds) : KindNames(st.kinds)[i] = st.kinds[i].it.name BY <1>5 DEF KindNames
  <2> QED BY <1>5, <2>3, <2>4
<1>7. \A i, j \in DOMAIN st.pool : PoolKeys(st.pool)[i] = PoolKeys(st.pool)[j] => i = j
  <2>1. Repeated(PoolKeys(st.pool)) = {}
    <3>1. \A n \in Repeated(PoolKeys(st.pool)) : <<"DuplicateSharedSemanticsName", n>> \in DuplicateSharedSemantics(st)
      BY DEF DuplicateSharedSemantics
    <3> QED BY <1>3, <3>1
  <2>2. DOMAIN PoolKeys(st.pool) = 1..Len(st.pool) BY <1>5 DEF PoolKeys
  <2> QED BY <1>5, <2>1, <2>2, OnlyKeys
<1>8. m.kinds = Its(st.kinds)
  <2>1. \A i, j \in DOMAIN st.kinds : VariantKeys(st.kinds)[i] = VariantKeys(st.kinds)[j] => i = j
    BY <1>6 DEF VariantKeys
  <2> QED BY <2>1, FirstsAreAll DEF Materialize, IsStorage
<1>9. m.pool = Its(st.pool) BY <1>7, FirstsAreAll DEF Materialize, IsStorage
<1>10. m.relationships = st.relationships BY DEF Materialize
<1> HIDE DEF m
<1>11. \A k, l \in m.kinds : k.name = l.name => k = l
  BY <1>6, <1>8 DEF Its, Range
<1> QED BY <1>4, <1>8, <1>9, <1>10, <1>11 DEF m

LEMMA BuilderWouldAccept ==
  ASSUME NEW rels, CheckRelationships(rels) = {}, NEW r \in rels
  PROVE  BuilderAccepts(r)
<1>1. ASSUME Symmetric(r), r.optional = "unset" PROVE FALSE
  <2>1. <<"RelationshipSymmetricCardinalityIncomplete", r.name, "optional">> \in CheckRelationships(rels)
    BY <1>1 DEF CheckRelationships
  <2> QED BY <2>1
<1>2. ASSUME Symmetric(r), r.cross_filter = "unset" PROVE FALSE
  <2>1. <<"RelationshipSymmetricCardinalityIncomplete", r.name, "cross_filter">> \in CheckRelationships(rels)
    BY <1>2 DEF CheckRelationships
  <2> QED BY <2>1
<1>3. ASSUME r.cardinality = "many_to_many", r.cross_filter \in {"left", "right"} PROVE FALSE
  <2>1. <<"RelationshipManyToManyCrossFilterDirectional", r.name>> \in CheckRelationships(rels)
    BY <1>3 DEF CheckRelationships
  <2> QED BY <2>1
<1> QED BY <1>1, <1>2, <1>3 DEF BuilderAccepts

-----------------------------------------------------------------------------
LEMMA LoaderInvariance == LSpec => []LoaderInv
  BY InitLoader, LoaderInductive, PTL DEF LSpec

(* A load that fails says why unless validation was skipped, and one that  *)
(* succeeds has reported nothing but warnings, whatever was loaded.        *)
THEOREM FailuresExplained == LSpec => []ErrorsExplainFailure
<1>1. LoaderInv => ErrorsExplainFailure
  <2>1. BuildModel(storage).ok => ~HasError(BuildModel(storage).diags) BY DEF BuildModel
  <2> QED BY <2>1 DEF LoaderInv, ErrorsCounted, ErrorsExplainFailure, Failed, Loaded
<1> QED BY LoaderInvariance, <1>1, PTL

(* A load that fails while parsing has accounted for every source.         *)
THEOREM AllProblemsReported == LSpec => []EveryProblemReported
<1>1. LoaderInv => EveryProblemReported BY DEF LoaderInv
<1> QED BY LoaderInvariance, <1>1, PTL

(* A loaded model has every entity of every source, each under a name of   *)
(* its own, for any number of sources.                                     *)
THEOREM NothingIsLost == LSpec => []NothingLost
<1>1. ASSUME LoaderInv, Loaded PROVE NothingLost
  <2>1. stage = "loaded" /\ ~had_error /\ loaded = Materialize(storage) /\ BuildModel(storage).ok
    BY <1>1 DEF LoaderInv, ErrorsCounted, Loaded
  <2>2. IsStorage(storage) BY <1>1 DEF LoaderInv, LoaderTypes, IsStorage
  <2>3. /\ loaded.kinds = Its(storage.kinds) /\ loaded.pool = Its(storage.pool)
        /\ loaded.relationships = storage.relationships
        /\ \A k, l \in loaded.kinds : k.name = l.name => k = l
    BY <2>1, <2>2, CleanBuild
  <2>4. /\ Behind = 1..Len(model_inputs) /\ Behind = DOMAIN model_inputs
        /\ \A n \in Behind : Decoded(model_inputs[n])
    BY <1>1, <2>1, LenProperties DEF Behind, LoaderInv, LoaderTypes, InputsKept
  <2>5. RootsBehind = SourceRoots
    <3>1. RootsBehind = {model_inputs[n].content.root : n \in DOMAIN model_inputs} BY <2>4 DEF RootsBehind
    <3>2. SourceRoots = {model_inputs[n].content.root : n \in DOMAIN model_inputs} BY DEF SourceRoots, Range
    <3> QED BY <3>1, <3>2
  <2>6. /\ \A i \in Range(model_inputs) : i.file \notin {"missing", "not_utf8"}
        /\ Its(storage.kinds) = UNION {Range(r.kinds) : r \in SourceRoots}
        /\ Its(storage.pool) = UNION {Range(r.pool) : r \in SourceRoots}
        /\ Range(storage.relationships) = UNION {Range(r.relationships) : r \in SourceRoots}
    BY <1>1, <2>1, <2>5 DEF LoaderInv, InputsKept
  <2>7. \A i \in Range(model_inputs) : Decoded(i) BY <2>4 DEF Range
  <2>8. \A k \in loaded.kinds : FindPublic(loaded, k.name) = {k} BY <2>3 DEF FindPublic
  <2> QED BY <2>3, <2>6, <2>7, <2>8 DEF NothingLost
<1>2. LoaderInv => NothingLost BY <1>1 DEF NothingLost
<1> QED BY LoaderInvariance, <1>2, PTL

(* Every relationship of a loaded model, at the root or in a public        *)
(* joinset, is one its builder would have accepted.                        *)
THEOREM ValidatorAgrees == LSpec => []BuilderAgreesWithValidator
<1>1. ASSUME LoaderInv, Loaded PROVE BuilderAgreesWithValidator
  <2>1. stage = "loaded" /\ loaded = Materialize(storage) /\ BuildModel(storage).ok
    BY <1>1 DEF LoaderInv, ErrorsCounted, Loaded
  <2>2. IsStorage(storage) BY <1>1 DEF LoaderInv, LoaderTypes, IsStorage
  <2>3. /\ loaded.kinds = Its(storage.kinds) /\ CheckAllRelationships(loaded) = {}
    BY <2>1, <2>2, CleanBuild
  <2>4. ASSUME NEW r \in Range(loaded.relationships) PROVE BuilderAccepts(r)
    <3>1. CheckRelationships(Range(loaded.relationships)) = {} BY <2>3 DEF CheckAllRelationships
    <3> QED BY <2>4, <3>1, BuilderWouldAccept
  <2>5. ASSUME NEW k \in loaded.kinds, NEW r \in Range(k.relationships) PROVE BuilderAccepts(r)
    <3>1. k.variant = "joinset"
      <4>1. Its(storage.kinds) = UNION {Range(x.kinds) : x \in RootsBehind}
        BY <1>1, <2>1 DEF LoaderInv, InputsKept
      <4>2. PICK x \in RootsBehind : k \in Range(x.kinds) BY <2>3, <2>5, <4>1
      <4>3. PICK n \in Behind : x = model_inputs[n].content.root BY <4>2 DEF RootsBehind
      <4>4. model_inputs[n].content \in Contents
        <5>1. n \in 1..Len(model_inputs) BY <2>1, <4>3 DEF Behind
        <5>2. model_inputs[n] \in InputOf(Contents)
          BY <1>1, <5>1, ElementOfSeq DEF LoaderInv, LoaderTypes
        <5> QED BY <5>2 DEF InputOf
      <4>5. k.variant # "joinset" => k.relationships = <<>> BY <4>2, <4>3, <4>4, ContentsAssumption
      <4>6. k.relationships # <<>> BY <2>5, EmptySeqs
      <4> QED BY <4>5, <4>6
    <3>2. CheckRelationships(Range(k.relationships)) = {}
      BY <2>3, <2>5, <3>1 DEF CheckAllRelationships
    <3> QED BY <2>5, <3>2, BuilderWouldAccept
  <2> QED BY <2>4, <2>5 DEF BuilderAgreesWithValidator
<1>2. LoaderInv => BuilderAgreesWithValidator BY <1>1 DEF BuilderAgreesWithValidator
<1> QED BY LoaderInvariance, <1>2, PTL

-----------------------------------------------------------------------------
(* The builders of data kinds (KindBuilder).                               *)

LEMMA UpTo ==
  ASSUME NEW N \in Nat, NEW T, 0 \in T, \A n \in 0 .. N - 1 : n \in T => n + 1 \in T
  PROVE  0 .. N \subseteq T
<1> SUFFICES ASSUME 0 .. N \ T # {} PROVE FALSE
  OBVIOUS
<1>1. PICK n \in 0 .. N \ T : \A m \in 0 .. N \ T : n <= m
  <2>1. 0 .. N \ T \in SUBSET Nat OBVIOUS
  <2> QED BY <2>1, LeastNat
<1>2. n # 0 /\ n - 1 \in 0 .. N - 1 /\ n - 1 \in 0 .. N BY <1>1
<1>3. n - 1 \in T BY <1>1, <1>2
<1> QED BY <1>1, <1>2, <1>3

(* The values the setters are given.                                       *)
Given == Items \union {"all", "unique"}
Value == Given \union {None, "auto"}

(* What of a call is heard when it is the i-th of a chain.                 *)
Passed(cs, f, i) ==
  IF Writes(cs[i], f) /\ \A j \in {l \in DOMAIN cs : Replaces(cs[l], f)} : j <= i THEN cs[i].arg ELSE <<>>

Hears(cs, f, h, N) == h[0] = <<>> /\ \A i \in 1 .. N : h[i] = h[i - 1] \o Passed(cs, f, i)

LEMMA HearsExists ==
  ASSUME NEW cs, Len(cs) \in Nat, NEW f, NEW N \in 0 .. Len(cs)
  PROVE  \E h : h = [i \in 0 .. N |-> h[i]] /\ h[0] = <<>> /\ \A i \in 1 .. N : h[i] = h[i - 1] \o Passed(cs, f, i)
<1> DEFINE Good(n, h) == h[0] = <<>> /\ \A i \in 1 .. n : h[i] = h[i - 1] \o Passed(cs, f, i)
           T == {n \in 0 .. N : \E h : h = [i \in 0 .. n |-> h[i]] /\ Good(n, h)}
<1>1. 0 \in T
  <2> DEFINE h == [i \in 0 .. 0 |-> <<>>]
  <2>1. h = [i \in 0 .. 0 |-> h[i]] /\ Good(0, h) OBVIOUS
  <2> HIDE DEF h
  <2> QED BY <2>1
<1>2. ASSUME NEW n \in 0 .. N - 1, n \in T PROVE n + 1 \in T
  <2> HIDE DEF Good
  <2>1. PICK h : h = [i \in 0 .. n |-> h[i]] /\ Good(n, h) BY <1>2
  <2>2. Good(n, h) BY <2>1
  <2> DEFINE g == [i \in 0 .. n + 1 |-> IF i = n + 1 THEN h[n] \o Passed(cs, f, n + 1) ELSE h[i]]
  <2>3. g = [i \in 0 .. n + 1 |-> g[i]] OBVIOUS
  <2>4. g[0] = <<>> BY <2>2 DEF Good
  <2>5. ASSUME NEW i \in 1 .. n + 1 PROVE g[i] = g[i - 1] \o Passed(cs, f, i)
    <3>1. CASE i = n + 1
      <4>1. g[i] = h[n] \o Passed(cs, f, i) /\ g[i - 1] = h[n] BY <3>1
      <4> HIDE DEF g
      <4> QED BY <4>1
    <3>2. CASE i \in 1 .. n
      <4>1. g[i] = h[i] /\ g[i - 1] = h[i - 1] BY <3>2
      <4>2. h[i] = h[i - 1] \o Passed(cs, f, i) BY <2>2, <3>2 DEF Good
      <4> HIDE DEF g
      <4> QED BY <4>1, <4>2
    <3>3. i = n + 1 \/ i \in 1 .. n OBVIOUS
    <3> HIDE DEF g
    <3> QED BY <3>1, <3>2, <3>3
  <2> HIDE DEF g
  <2>6. Good(n + 1, g) BY <2>4, <2>5 DEF Good
  <2> QED BY <2>3, <2>6
<1>3. 0 .. N \subseteq T
  <2> HIDE DEF T
  <2> QED BY <1>1, <1>2, UpTo
<1>4. N \in T
  <2> HIDE DEF T
  <2> QED BY <1>3
<1> QED BY <1>4

(* Whatever function says it, it says the same.                            *)
LEMMA HearsAlike ==
  ASSUME NEW cs, NEW f, NEW h, NEW g, NEW N \in Nat, Hears(cs, f, h, N), Hears(cs, f, g, N)
  PROVE  h[N] = g[N]
<1> DEFINE T == {n \in 0 .. N : h[n] = g[n]}
<1>1. 0 \in T BY DEF Hears
<1>2. ASSUME NEW n \in 0 .. N - 1, n \in T PROVE n + 1 \in T
  <2>1. n + 1 \in 1 .. N /\ (n + 1) - 1 = n /\ n + 1 \in 0 .. N OBVIOUS
  <2>2. h[n + 1] = h[n] \o Passed(cs, f, n + 1) /\ g[n + 1] = g[n] \o Passed(cs, f, n + 1)
    BY <2>1 DEF Hears
  <2> QED BY <1>2, <2>1, <2>2
<1>3. 0 .. N \subseteq T
  <2> HIDE DEF T
  <2> QED BY <1>1, <1>2, UpTo
<1>4. N \in T
  <2> HIDE DEF T
  <2> QED BY <1>3
<1> QED BY <1>4

LEMMA HeardByHears ==
  ASSUME NEW cs, Len(cs) \in Nat, NEW f
  PROVE  \E h : Hears(cs, f, h, Len(cs)) /\ HeardOf(cs, f) = h[Len(cs)]
<1> DEFINE N == Len(cs)
           from == {i \in DOMAIN cs : Replaces(cs[i], f)}
           passed(i) == IF Writes(cs[i], f) /\ \A j \in from : j <= i THEN cs[i].arg ELSE <<>>
           Is(h) == h = [i \in 0 .. N |-> IF i = 0 THEN <<>> ELSE h[i - 1] \o passed(i)]
<1>1. \A i : passed(i) = Passed(cs, f, i) BY DEF Passed
<1>2. HeardOf(cs, f) = (CHOOSE h : Is(h))[N] BY DEF HeardOf
<1>3. N \in Nat /\ N \in 0 .. Len(cs) OBVIOUS
<1> HIDE DEF passed, N
<1>4. PICK h : /\ h = [i \in 0 .. N |-> h[i]]
               /\ h[0] = <<>> /\ \A i \in 1 .. N : h[i] = h[i - 1] \o Passed(cs, f, i)
  BY <1>3, HearsExists
<1>5. h[0] = <<>> /\ \A i \in 1 .. N : h[i] = h[i - 1] \o Passed(cs, f, i) BY <1>4
<1>6. ASSUME NEW i \in 0 .. N PROVE h[i] = IF i = 0 THEN <<>> ELSE h[i - 1] \o passed(i)
  <2>1. i = 0 \/ i \in 1 .. N BY <1>3
  <2> QED BY <1>1, <1>5, <2>1
<1>7. [i \in 0 .. N |-> h[i]] = [i \in 0 .. N |-> IF i = 0 THEN <<>> ELSE h[i - 1] \o passed(i)] BY <1>6
<1>8. Is(h) BY <1>4, <1>7
<1>9. PICK g : Is(g) /\ HeardOf(cs, f) = g[N]
  <2> HIDE DEF Is
  <2> QED BY <1>2, <1>8
<1>10. \A i \in 0 .. N : g[i] = IF i = 0 THEN <<>> ELSE g[i - 1] \o passed(i) BY <1>9
<1>11. g[0] = <<>> BY <1>3, <1>10
<1>12. ASSUME NEW i \in 1 .. N PROVE g[i] = g[i - 1] \o Passed(cs, f, i)
  <2>1. i \in 0 .. N /\ i # 0 BY <1>3
  <2>2. g[i] = g[i - 1] \o passed(i) BY <1>10, <2>1
  <2> QED BY <1>1, <2>2
<1>13. Hears(cs, f, g, Len(cs)) BY <1>11, <1>12 DEF Hears, N
<1> QED BY <1>9, <1>13 DEF N

(* A call that replaces a field wipes what was heard of it, one that writes *)
(* it is heard after the rest.                                             *)
Updated(c, f, v) ==
  IF Replaces(c, f) THEN (IF Writes(c, f) THEN c.arg ELSE <<>>)
  ELSE IF Writes(c, f) THEN v \o c.arg ELSE v

LEMMA HeardTyped ==
  ASSUME NEW S, \A s \in S : s.arg \in Seq(Given), NEW cs \in Seq(S), NEW f
  PROVE  HeardOf(cs, f) \in Seq(Given)
<1>1. Len(cs) \in Nat /\ \A i \in 1 .. Len(cs) : cs[i] \in S OBVIOUS
<1>2. PICK h : Hears(cs, f, h, Len(cs)) /\ HeardOf(cs, f) = h[Len(cs)] BY <1>1, HeardByHears
<1> DEFINE N == Len(cs)
           T == {i \in 0 .. N : h[i] \in Seq(Given)}
<1>3. \A i \in 1 .. N : Passed(cs, f, i) \in Seq(Given) BY <1>1 DEF Passed
<1>4. <<>> \in Seq(Given) OBVIOUS
<1>5. 0 \in T
  <2>1. h[0] = <<>> BY <1>2 DEF Hears
  <2>2. h[0] \in Seq(Given) BY <1>4, <2>1
  <2>3. 0 \in 0 .. N BY <1>1
  <2> QED BY <2>2, <2>3
<1>6. ASSUME NEW i \in 0 .. N - 1, i \in T PROVE i + 1 \in T
  <2>1. i + 1 \in 1 .. N /\ i + 1 \in 0 .. N /\ (i + 1) - 1 = i BY <1>1
  <2>2. h[i + 1] = h[i] \o Passed(cs, f, i + 1) BY <1>2, <2>1 DEF Hears
  <2>3. h[i] \in Seq(Given) /\ Passed(cs, f, i + 1) \in Seq(Given) BY <1>3, <1>6, <2>1
  <2>4. h[i + 1] \in Seq(Given) BY <2>2, <2>3
  <2> QED BY <2>1, <2>4
<1>7. 0 .. N \subseteq T
  <2> HIDE DEF T
  <2> QED BY <1>1, <1>5, <1>6, UpTo
<1>8. N \in T
  <2> HIDE DEF T
  <2> QED BY <1>1, <1>7
<1> QED BY <1>2, <1>8

LEMMA HeardAppend ==
  ASSUME NEW S, \A s \in S : s.arg \in Seq(Given), NEW cs \in Seq(S), NEW c \in S, NEW f
  PROVE  HeardOf(Append(cs, c), f) = Updated(c, f, HeardOf(cs, f))
<1> DEFINE n == Len(cs)
           ds == Append(cs, c)
<1>1. n \in Nat /\ Len(ds) = n + 1 /\ DOMAIN cs = 1 .. n /\ DOMAIN ds = 1 .. n + 1 OBVIOUS
<1>2. ds[n + 1] = c /\ \A i \in 1 .. n : ds[i] = cs[i] OBVIOUS
<1>3. PICK h : Hears(cs, f, h, n) /\ HeardOf(cs, f) = h[n] BY <1>1, HeardByHears
<1>4. PICK g : Hears(ds, f, g, n + 1) /\ HeardOf(ds, f) = g[n + 1]
  <2>1. Len(ds) \in Nat BY <1>1
  <2> HIDE DEF ds
  <2> QED BY <1>1, <2>1, HeardByHears
<1>5. HeardOf(cs, f) \in Seq(Given) /\ c.arg \in Seq(Given) BY HeardTyped
<1> HIDE DEF ds, n
<1>6. /\ h[0] = <<>> /\ \A i \in 1 .. n : h[i] = h[i - 1] \o Passed(cs, f, i)
      /\ g[0] = <<>> /\ \A i \in 1 .. n + 1 : g[i] = g[i - 1] \o Passed(ds, f, i)
  BY <1>1, <1>3, <1>4 DEF Hears, n
<1>7. g[n + 1] = g[n] \o Passed(ds, f, n + 1)
  <2>1. n + 1 \in 1 .. n + 1 /\ (n + 1) - 1 = n BY <1>1
  <2> QED BY <1>6, <2>1
<1>8. Passed(ds, f, n + 1) = IF Writes(c, f) THEN c.arg ELSE <<>> BY <1>1, <1>2 DEF Passed
<1>9. CASE Replaces(c, f)
  <2>1. \A i \in 1 .. n : Passed(ds, f, i) = <<>>
    <3> TAKE i \in 1 .. n
    <3>1. n + 1 \in DOMAIN ds /\ Replaces(ds[n + 1], f) /\ ~(n + 1 <= i) BY <1>1, <1>2, <1>9
    <3> QED BY <3>1 DEF Passed
  <2> DEFINE T == {i \in 0 .. n : g[i] = <<>>}
  <2>2. 0 \in T BY <1>1, <1>6
  <2>3. ASSUME NEW i \in 0 .. n - 1, i \in T PROVE i + 1 \in T
    <3>1. i + 1 \in 1 .. n /\ i + 1 \in 1 .. n + 1 /\ i + 1 \in 0 .. n /\ (i + 1) - 1 = i BY <1>1
    <3>2. g[i + 1] = g[i] \o Passed(ds, f, i + 1) BY <1>6, <3>1
    <3>3. g[i + 1] = <<>> \o <<>> BY <2>1, <2>3, <3>1, <3>2
    <3> QED BY <3>1, <3>3
  <2>4. 0 .. n \subseteq T
    <3> HIDE DEF T
    <3> QED BY <1>1, <2>2, <2>3, UpTo
  <2>5. n \in T
    <3> HIDE DEF T
    <3> QED BY <1>1, <2>4
  <2>6. g[n + 1] = <<>> \o (IF Writes(c, f) THEN c.arg ELSE <<>>) BY <1>7, <1>8, <2>5
  <2>7. g[n + 1] = IF Writes(c, f) THEN c.arg ELSE <<>> BY <1>5, <2>6
  <2> QED BY <1>4, <1>9, <2>7 DEF Updated, ds
<1>10. CASE ~Replaces(c, f)
  <2>1. {l \in DOMAIN ds : Replaces(ds[l], f)} = {l \in DOMAIN cs : Replaces(cs[l], f)}
    <3>1. \A l \in DOMAIN ds : l \in DOMAIN cs \/ l = n + 1 BY <1>1
    <3>2. \A l \in DOMAIN cs : l \in DOMAIN ds BY <1>1
    <3> QED BY <1>1, <1>2, <1>10, <3>1, <3>2
  <2>2. \A i \in 1 .. n : Passed(ds, f, i) = Passed(cs, f, i) BY <1>2, <2>1 DEF Passed
  <2>3. \A i \in 1 .. n : g[i] = g[i - 1] \o Passed(cs, f, i)
    <3> TAKE i \in 1 .. n
    <3>1. i \in 1 .. n + 1 BY <1>1
    <3> QED BY <1>6, <2>2, <3>1
  <2>4. g[n] = h[n]
    <3>1. Hears(cs, f, g, n) BY <1>6, <2>3 DEF Hears
    <3> QED BY <1>1, <1>3, <3>1, HearsAlike
  <2>5. g[n + 1] = HeardOf(cs, f) \o (IF Writes(c, f) THEN c.arg ELSE <<>>) BY <1>3, <1>7, <1>8, <2>4
  <2>6. g[n + 1] = IF Writes(c, f) THEN HeardOf(cs, f) \o c.arg ELSE HeardOf(cs, f) BY <1>5, <2>5
  <2> QED BY <1>4, <1>10, <2>6 DEF Updated, ds
<1> QED BY <1>9, <1>10

(* What a builder holds.                                                   *)
Optional(S) == {{}} \union {{s} : s \in S}
StorageType == [format : Value, paths : Seq(Given), tables : Seq(Given), partition_def : Value]
KeysType == [primary : Value, unique : Seq(Given), foreign : Seq(Given)]
ExtrasType == [catalog : Value, storage : Optional(StorageType), semantic_mapping : Value, temporal : Value]
InterfaceType == [dimensions : Seq(Given), measures : Seq(Given), metrics : Seq(Given),
                  filters : Seq(Given), keys : Optional(KeysType)]
BodyType == [datasets : Seq(Given), grainsets : Seq(Given), unionsets : Seq(Given), joinsets : Seq(Given),
             relationships : Seq(Given)]
KindType == [extras : ExtrasType, interface : InterfaceType, body : BodyType, mode : Value]

StorageOf(k) == Block(k.extras.storage, StorageDefault)
KeysOf(k) == Block(k.interface.keys, KeysDefault)

StorageFields == {"format", "paths", "tables", "partition_def"}
KeysFields == {"primary", "unique", "foreign"}
ExtraFields == {"catalog", "semantic_mapping", "temporal"}
InterfaceFields == {"dimensions", "measures", "metrics", "filters"}
BodyFields == {"datasets", "grainsets", "unionsets", "joinsets", "relationships"}

(* The calls there are.                                                    *)
Setters == UNION {Ops[x] : x \in DOMAIN Ops}

Single(c, op, fields) == c.op = op /\ c.field \in fields /\ \E x \in Given : c.arg = <<x>>
Several(c, op, fields) == c.op = op /\ c.field \in fields /\ c.arg \in Seq(Given)
Empty(c, op) == c.op = op /\ c.field \notin StorageFields \union KeysFields \union InterfaceFields \union BodyFields
                /\ c.arg = <<>>

LEMMA SetterFacts ==
  ASSUME NEW c \in Setters
  PROVE  \/ Single(c, "extra", ExtraFields) \/ Single(c, "storage", {"storage"})
         \/ Single(c, "in_storage", {"format", "partition_def"})
         \/ Several(c, "extend_storage", {"paths", "tables"}) \/ Empty(c, "extras")
         \/ Single(c, "push", InterfaceFields) \/ Several(c, "replace", InterfaceFields)
         \/ Single(c, "primary", {"primary"}) \/ Single(c, "push_key", {"unique", "foreign"})
         \/ Empty(c, "keys") \/ Empty(c, "semantic_interface")
         \/ Several(c, "extend", BodyFields) \/ Single(c, "mode", {"mode"})
<1> DEFINE Shaped(d) ==
         \/ Single(d, "extra", ExtraFields) \/ Single(d, "storage", {"storage"})
         \/ Single(d, "in_storage", {"format", "partition_def"})
         \/ Several(d, "extend_storage", {"paths", "tables"}) \/ Empty(d, "extras")
         \/ Single(d, "push", InterfaceFields) \/ Several(d, "replace", InterfaceFields)
         \/ Single(d, "primary", {"primary"}) \/ Single(d, "push_key", {"unique", "foreign"})
         \/ Empty(d, "keys") \/ Empty(d, "semantic_interface")
         \/ Several(d, "extend", BodyFields) \/ Single(d, "mode", {"mode"})
<1>1. \A x \in Items : x \in Given /\ <<x>> \in Seq(Given) BY DEF Given
<1>2. \A xs \in Lists : xs \in Seq(Given) BY ListsAssumption DEF Given
<1>3. \A d \in LeafOps : Shaped(d)
  BY <1>1, <1>2 DEF LeafOps, Call, Single, Several, Empty, ExtraFields, StorageFields, KeysFields, InterfaceFields,
                    BodyFields
<1>4. \A d \in InterfaceOps : Shaped(d)
  BY <1>1, <1>2 DEF InterfaceOps, Call, Single, Several, Empty, StorageFields, KeysFields, InterfaceFields,
                    BodyFields
<1>5. \A d \in ComplexOps : Shaped(d)
  BY <1>1 DEF ComplexOps, Call, Single, Empty, ExtraFields, StorageFields, KeysFields, InterfaceFields, BodyFields
<1>6. ASSUME NEW F \in SUBSET BodyFields, NEW d \in One(F) \union Many(F)
      PROVE  Several(d, "extend", BodyFields)
  <2>1. CASE d \in One(F)
    <3>1. PICK f \in F, x \in Items : d = Call("extend", f, <<x>>) BY <2>1 DEF One
    <3> QED BY <1>1, <3>1 DEF Call, Several
  <2>2. CASE d \in Many(F)
    <3>1. PICK f \in F, xs \in Lists : d = Call("extend", f, xs) BY <2>2 DEF Many
    <3> QED BY <1>2, <3>1 DEF Call, Several
  <2> QED BY <2>1, <2>2
<1>7. \A d \in Modes : Single(d, "mode", {"mode"}) BY DEF Modes, Call, Single, Given
<1>8. \A d \in One({"datasets", "grainsets", "joinsets"}) \union One({"datasets", "grainsets", "unionsets"})
               \union Many({"datasets", "unionsets", "joinsets"}) \union Many({"datasets", "grainsets", "joinsets"})
               \union Many({"relationships"}) \union Many({"relationships", "datasets", "grainsets", "unionsets"}) :
        Several(d, "extend", BodyFields)
  <2>1. /\ {"datasets", "grainsets", "joinsets"} \in SUBSET BodyFields
        /\ {"datasets", "grainsets", "unionsets"} \in SUBSET BodyFields
        /\ {"datasets", "unionsets", "joinsets"} \in SUBSET BodyFields
        /\ {"relationships"} \in SUBSET BodyFields
        /\ {"relationships", "datasets", "grainsets", "unionsets"} \in SUBSET BodyFields
    BY DEF BodyFields
  <2> QED BY <1>6, <2>1
<1> HIDE DEF Shaped
<1>9. \A d : Several(d, "extend", BodyFields) \/ Single(d, "mode", {"mode"}) => Shaped(d) BY DEF Shaped
<1>10. PICK x \in DOMAIN Ops : c \in Ops[x] BY DEF Setters
<1>11. c \in DatasetOps \union NestedDatasetOps \union GrainsetOps \union NestedGrainsetOps
             \union UnionsetOps \union NestedUnionsetOps \union JoinsetOps \union NestedJoinsetOps
  BY <1>10 DEF Ops
<1>12. \/ c \in LeafOps \/ c \in InterfaceOps \/ c \in ComplexOps \/ c \in Modes
       \/ c \in One({"datasets", "grainsets", "joinsets"}) \union One({"datasets", "grainsets", "unionsets"})
               \union Many({"datasets", "unionsets", "joinsets"}) \union Many({"datasets", "grainsets", "joinsets"})
               \union Many({"relationships"}) \union Many({"relationships", "datasets", "grainsets", "unionsets"})
  BY <1>11 DEF DatasetOps, NestedDatasetOps, GrainsetOps, NestedGrainsetOps, UnionsetOps, NestedUnionsetOps,
               JoinsetOps, NestedJoinsetOps
<1>13. Shaped(c) BY <1>3, <1>4, <1>5, <1>7, <1>8, <1>9, <1>12
<1> QED BY <1>13 DEF Shaped

LEMMA OptionalFacts ==
  ASSUME NEW S, NEW d \in S
  PROVE  /\ \A b \in Optional(S) : Block(b, d) \in S /\ GetOrInsert(b, d) = Block(b, d)
         /\ \A s : Block({s}, d) = s
         /\ \A s \in S : {s} \in Optional(S)
         /\ {} \in Optional(S) /\ Block({}, d) = d
<1>1. \A s : Block({s}, d) = s BY DEF Block
<1>2. Block({}, d) = d BY DEF Block
<1>3. \A b : GetOrInsert(b, d) = Block(b, d) BY DEF GetOrInsert, Block
<1>4. ASSUME NEW b \in Optional(S) PROVE Block(b, d) \in S
  <2>1. CASE b = {} BY <1>2, <2>1
  <2>2. CASE b # {}
    <3>1. PICK s \in S : b = {s} BY <1>4, <2>2 DEF Optional
    <3> QED BY <1>1, <3>1
  <2> QED BY <2>1, <2>2
<1> QED BY <1>1, <1>2, <1>3, <1>4 DEF Optional

LEMMA DefaultsTyped ==
  /\ StorageDefault \in StorageType /\ KeysDefault \in KeysType /\ LeafExtras \in ExtrasType
  /\ SemanticInterface \in InterfaceType /\ New \in KindType
<1>1. None \in Value /\ "auto" \in Value /\ "all" \in Value BY DEF Value, Given
<1>2. <<>> \in Seq(Given) OBVIOUS
<1>3. StorageDefault \in StorageType BY <1>1, <1>2 DEF StorageDefault, StorageType
<1>4. KeysDefault \in KeysType BY <1>1, <1>2 DEF KeysDefault, KeysType
<1>5. {} \in Optional(StorageType) /\ {} \in Optional(KeysType) BY DEF Optional
<1>6. LeafExtras \in ExtrasType BY <1>1, <1>5 DEF LeafExtras, ExtrasType
<1>7. SemanticInterface \in InterfaceType BY <1>2, <1>5 DEF SemanticInterface, InterfaceType
<1>8. NoChildren \in BodyType BY <1>2 DEF NoChildren, BodyType
<1>9. New \in KindType BY <1>1, <1>6, <1>7, <1>8 DEF New, KindType
<1> QED BY <1>3, <1>4, <1>6, <1>7, <1>9

(* What the setters of a block do to the others: nothing.                  *)
LEMMA StorageSet ==
  ASSUME NEW k \in KindType, NEW s \in StorageType, NEW k2, k2 = WithStorage(k, s)
  PROVE  k2 \in KindType /\ StorageOf(k2) = s /\ k2.interface = k.interface /\ k2.body = k.body
<1>1. {s} \in Optional(StorageType) BY DEF Optional
<1>2. k2 \in KindType /\ k2.extras.storage = {s} /\ k2.interface = k.interface /\ k2.body = k.body
  BY <1>1 DEF WithStorage, KindType, ExtrasType
<1> QED BY <1>2, DefaultsTyped, OptionalFacts DEF StorageOf

LEMMA KeysSet ==
  ASSUME NEW k \in KindType, NEW s \in KeysType, NEW k2, k2 = WithKeys(k, s)
  PROVE  /\ k2 \in KindType /\ KeysOf(k2) = s /\ k2.extras = k.extras /\ k2.body = k.body
         /\ \A f \in InterfaceFields : k2.interface[f] = k.interface[f]
<1>1. {s} \in Optional(KeysType) BY DEF Optional
<1>2. k2 \in KindType /\ k2.interface.keys = {s} /\ k2.extras = k.extras /\ k2.body = k.body
      /\ \A f \in InterfaceFields : k2.interface[f] = k.interface[f]
  BY <1>1 DEF WithKeys, KindType, InterfaceType, InterfaceFields
<1> QED BY <1>2, DefaultsTyped, OptionalFacts DEF KeysOf

(* The same for a field that holds at most one value.                      *)
Told(c, f, v) == IF Replaces(c, f) THEN (IF Writes(c, f) THEN c.arg[1] ELSE None) ELSE v

StorageTold(k, c, k2) ==
  /\ \A f \in {"paths", "tables"} : StorageOf(k2)[f] = Updated(c, f, StorageOf(k)[f])
  /\ \A f \in {"format", "partition_def"} : StorageOf(k2)[f] = Told(c, f, StorageOf(k)[f])
KeysTold(k, c, k2) ==
  /\ \A f \in {"unique", "foreign"} : KeysOf(k2)[f] = Updated(c, f, KeysOf(k)[f])
  /\ KeysOf(k2).primary = Told(c, "primary", KeysOf(k).primary)
InterfaceTold(k, c, k2) == \A f \in InterfaceFields : k2.interface[f] = Updated(c, f, k.interface[f])
BodyTold(k, c, k2) == \A f \in BodyFields : k2.body[f] = Updated(c, f, k.body[f])

LEMMA Fields ==
  /\ DOMAIN StorageDefault = StorageFields /\ DOMAIN KeysDefault = KeysFields
  /\ DOMAIN LeafExtras = ExtraFields \union {"storage"}
  /\ DOMAIN SemanticInterface = InterfaceFields \union {"keys"} /\ DOMAIN NoChildren = BodyFields
  BY DEF StorageDefault, StorageFields, KeysDefault, KeysFields, LeafExtras, ExtraFields, SemanticInterface,
         InterfaceFields, NoChildren, BodyFields

(* A block that a call is not about stays as it is.                        *)
LEMMA StorageUntouched ==
  ASSUME NEW k, NEW c, NEW k2, c.field \notin StorageFields, c.op \notin {"storage", "extras"},
         k2.extras.storage = k.extras.storage
  PROVE  StorageTold(k, c, k2)
<1>1. StorageOf(k2) = StorageOf(k) BY DEF StorageOf
<1>2. \A f \in StorageFields : ~Replaces(c, f) /\ ~Writes(c, f)
  BY Fields DEF Replaces, Writes, StorageFields, KeysFields, InterfaceFields
<1> QED BY <1>1, <1>2 DEF StorageTold, StorageFields, Updated, Told

LEMMA KeysUntouched ==
  ASSUME NEW k, NEW c, NEW k2, c.field \notin KeysFields, c.op \notin {"keys", "semantic_interface"},
         k2.interface.keys = k.interface.keys
  PROVE  KeysTold(k, c, k2)
<1>1. KeysOf(k2) = KeysOf(k) BY DEF KeysOf
<1>2. \A f \in KeysFields : ~Replaces(c, f) /\ ~Writes(c, f)
  BY Fields DEF Replaces, Writes, StorageFields, KeysFields, ExtraFields
<1> QED BY <1>1, <1>2 DEF KeysTold, KeysFields, Updated, Told

LEMMA InterfaceUntouched ==
  ASSUME NEW k, NEW c, NEW k2, c.field \notin InterfaceFields, c.op # "semantic_interface",
         \A f \in InterfaceFields : k2.interface[f] = k.interface[f]
  PROVE  InterfaceTold(k, c, k2)
<1>1. \A f \in InterfaceFields : ~Replaces(c, f) /\ ~Writes(c, f)
  BY Fields DEF Replaces, Writes, StorageFields, KeysFields, ExtraFields, InterfaceFields
<1> QED BY <1>1 DEF InterfaceTold, Updated

LEMMA BodyUntouched ==
  ASSUME NEW k, NEW c, NEW k2, c.field \notin BodyFields, k2.body = k.body
  PROVE  BodyTold(k, c, k2)
<1>1. \A f \in BodyFields : ~Replaces(c, f) /\ ~Writes(c, f)
  BY Fields DEF Replaces, Writes, StorageFields, KeysFields, ExtraFields, InterfaceFields, BodyFields
<1> QED BY <1>1 DEF BodyTold, Updated

LEMMA SetFacts ==
  ASSUME NEW k \in KindType, NEW c \in Setters, NEW k2, k2 = Set(k, c)
  PROVE  /\ k2 \in KindType
         /\ StorageTold(k, c, k2) /\ KeysTold(k, c, k2) /\ InterfaceTold(k, c, k2) /\ BodyTold(k, c, k2)
<1> DEFINE s == StorageOf(k)
           ks == KeysOf(k)
<1>1. s \in StorageType /\ s = GetOrInsert(k.extras.storage, StorageDefault)
  <2>1. k.extras.storage \in Optional(StorageType) BY DEF KindType, ExtrasType
  <2> QED BY <2>1, DefaultsTyped, OptionalFacts DEF StorageOf
<1>2. ks \in KeysType /\ ks = GetOrInsert(k.interface.keys, KeysDefault)
  <2>1. k.interface.keys \in Optional(KeysType) BY DEF KindType, InterfaceType
  <2> QED BY <2>1, DefaultsTyped, OptionalFacts DEF KeysOf
<1> HIDE DEF s, ks
<1> DEFINE Goal == /\ k2 \in KindType
                   /\ StorageTold(k, c, k2) /\ KeysTold(k, c, k2) /\ InterfaceTold(k, c, k2) /\ BodyTold(k, c, k2)
<1>3. ASSUME NEW s2 \in StorageType, k2 = WithStorage(k, s2), StorageTold(k, c, k2),
             c.field \notin KeysFields \union InterfaceFields \union BodyFields,
             c.op \notin {"keys", "semantic_interface"}
      PROVE  Goal
  <2>1. k2 \in KindType /\ k2.interface = k.interface /\ k2.body = k.body BY <1>3, StorageSet
  <2> QED BY <1>3, <2>1, KeysUntouched, InterfaceUntouched, BodyUntouched
<1>4. ASSUME NEW ks2 \in KeysType, k2 = WithKeys(k, ks2), KeysTold(k, c, k2),
             c.field \notin StorageFields \union InterfaceFields \union BodyFields,
             c.op \notin {"storage", "extras", "semantic_interface"}
      PROVE  Goal
  <2>1. /\ k2 \in KindType /\ k2.extras = k.extras /\ k2.body = k.body
        /\ \A f \in InterfaceFields : k2.interface[f] = k.interface[f]
    BY <1>4, KeysSet
  <2> QED BY <1>4, <2>1, StorageUntouched, InterfaceUntouched, BodyUntouched
<1>5. CASE Single(c, "extra", ExtraFields)
  <2>1. PICK x \in Given : c.arg = <<x>> BY <1>5 DEF Single
  <2>2. k2 = [k EXCEPT !.extras[c.field] = x] BY <1>5, <2>1 DEF Set, WithExtra, Single
  <2>3. c.op = "extra" /\ c.field \in ExtraFields BY <1>5 DEF Single
  <2>4. x \in Value BY DEF Value
  <2>5. k2 \in KindType /\ k2.interface = k.interface /\ k2.body = k.body /\ k2.extras.storage = k.extras.storage
    BY <2>2, <2>3, <2>4 DEF KindType, ExtrasType, ExtraFields
  <2>6. c.field \notin StorageFields \union KeysFields \union InterfaceFields \union BodyFields
    BY <2>3 DEF ExtraFields, StorageFields, KeysFields, InterfaceFields, BodyFields
  <2> QED BY <2>3, <2>5, <2>6, StorageUntouched, KeysUntouched, InterfaceUntouched, BodyUntouched
<1>6. CASE Single(c, "storage", {"storage"})
  <2>1. PICK x \in Given : c.arg = <<x>> BY <1>6 DEF Single
  <2> DEFINE s2 == [StorageDefault EXCEPT !.paths = c.arg]
  <2>2. c.op = "storage" /\ c.field = "storage" /\ c.arg \in Seq(Given) BY <1>6, <2>1 DEF Single
  <2>3. k2 = WithStorage(k, s2) BY <2>2 DEF Set
  <2>4. s2 \in StorageType BY <2>2, DefaultsTyped DEF StorageType
  <2>5. StorageOf(k2) = s2 BY <2>3, <2>4, StorageSet
  <2>6. s2.paths = c.arg /\ s2.tables = <<>> /\ s2.format = None /\ s2.partition_def = None BY DEF StorageDefault
  <2>7. /\ \A f \in StorageFields : Replaces(c, f)
        /\ Writes(c, "paths") /\ \A f \in {"tables", "format", "partition_def"} : ~Writes(c, f)
    BY <2>2, Fields DEF Replaces, Writes
  <2> HIDE DEF s2
  <2>8. StorageTold(k, c, k2) BY <2>5, <2>6, <2>7 DEF StorageTold, StorageFields, Updated, Told
  <2>9. c.field \notin KeysFields \union InterfaceFields \union BodyFields
    BY <2>2 DEF KeysFields, InterfaceFields, BodyFields
  <2> QED BY <1>3, <2>2, <2>3, <2>4, <2>8, <2>9
<1>7. CASE Single(c, "in_storage", {"format", "partition_def"})
  <2>1. PICK x \in Given : c.arg = <<x>> BY <1>7 DEF Single
  <2> DEFINE s2 == [s EXCEPT ![c.field] = x]
  <2>2. c.op = "in_storage" /\ c.field \in {"format", "partition_def"} BY <1>7 DEF Single
  <2>3. k2 = WithStorage(k, s2) BY <1>1, <2>1, <2>2 DEF Set, InStorage
  <2>4. x \in Value BY DEF Value
  <2>5. s2 \in StorageType BY <1>1, <2>2, <2>4 DEF StorageType
  <2>6. StorageOf(k2) = s2 BY <2>3, <2>5, StorageSet
  <2>7. \A f \in StorageFields : s2[f] = IF f = c.field THEN x ELSE s[f]
    BY <1>1, <2>2 DEF StorageType, StorageFields
  <2>8. \A f \in StorageFields : (Replaces(c, f) <=> f = c.field) /\ (Writes(c, f) <=> f = c.field)
    BY <2>2 DEF Replaces, Writes
  <2> HIDE DEF s2
  <2>9. StorageTold(k, c, k2) BY <2>1, <2>2, <2>6, <2>7, <2>8 DEF StorageTold, StorageFields, Updated, Told, s
  <2>10. c.field \notin KeysFields \union InterfaceFields \union BodyFields
    BY <2>2 DEF KeysFields, InterfaceFields, BodyFields
  <2> QED BY <1>3, <2>2, <2>3, <2>5, <2>9, <2>10
<1>8. CASE Several(c, "extend_storage", {"paths", "tables"})
  <2> DEFINE s2 == [s EXCEPT ![c.field] = @ \o c.arg]
  <2>1. c.op = "extend_storage" /\ c.field \in {"paths", "tables"} /\ c.arg \in Seq(Given) BY <1>8 DEF Several
  <2>2. k2 = WithStorage(k, s2) BY <1>1, <2>1 DEF Set, ExtendStorage
  <2>3. s.paths \in Seq(Given) /\ s.tables \in Seq(Given) BY <1>1 DEF StorageType
  <2>4. s[c.field] \o c.arg \in Seq(Given) BY <2>1, <2>3
  <2>5. /\ s2 \in StorageType
        /\ \A f \in StorageFields : s2[f] = IF f = c.field THEN s[c.field] \o c.arg ELSE s[f]
    <3> DEFINE v == s[c.field] \o c.arg
    <3>1. s2 = [s EXCEPT ![c.field] = v] OBVIOUS
    <3> HIDE DEF v
    <3>2. v \in Seq(Given) BY <2>4 DEF v
    <3>3. s2 \in StorageType /\ \A f \in StorageFields : s2[f] = IF f = c.field THEN v ELSE s[f]
      BY <1>1, <2>1, <3>1, <3>2 DEF StorageType, StorageFields
    <3> QED BY <3>3 DEF v
  <2>6. StorageOf(k2) = s2 BY <2>2, <2>5, StorageSet
  <2>7. \A f \in StorageFields : ~Replaces(c, f) /\ (Writes(c, f) <=> f = c.field)
    BY <2>1 DEF Replaces, Writes
  <2> HIDE DEF s2
  <2>8. StorageTold(k, c, k2) BY <2>1, <2>5, <2>6, <2>7 DEF StorageTold, StorageFields, Updated, Told, s
  <2>9. c.field \notin KeysFields \union InterfaceFields \union BodyFields
    BY <2>1 DEF KeysFields, InterfaceFields, BodyFields
  <2> QED BY <1>3, <2>1, <2>2, <2>5, <2>8, <2>9
<1>9. CASE Empty(c, "extras")
  <2>1. c.op = "extras" /\ c.field \notin StorageFields \union KeysFields \union InterfaceFields \union BodyFields
        /\ c.arg = <<>>
    BY <1>9 DEF Empty
  <2>2. k2 = [k EXCEPT !.extras = LeafExtras] BY <2>1 DEF Set
  <2>3. k2 \in KindType /\ k2.extras = LeafExtras /\ k2.interface = k.interface /\ k2.body = k.body
    BY <2>2, DefaultsTyped DEF KindType
  <2>4. StorageOf(k2) = StorageDefault BY <2>3 DEF StorageOf, LeafExtras, Block
  <2>5. \A f \in StorageFields : Replaces(c, f) /\ ~Writes(c, f) BY <2>1, Fields DEF Replaces, Writes
  <2>6. StorageTold(k, c, k2)
    BY <2>4, <2>5 DEF StorageTold, StorageDefault, StorageFields, Updated, Told
  <2> QED BY <2>1, <2>3, <2>6, KeysUntouched, InterfaceUntouched, BodyUntouched
<1>10. CASE Single(c, "push", InterfaceFields) \/ Several(c, "replace", InterfaceFields)
  <2> DEFINE v == IF c.op = "push" THEN k.interface[c.field] \o c.arg ELSE c.arg
  <2>1. c.op \in {"push", "replace"} /\ c.field \in InterfaceFields /\ c.arg \in Seq(Given)
    <3>1. \A x \in Given : <<x>> \in Seq(Given) OBVIOUS
    <3>2. CASE Single(c, "push", InterfaceFields) BY <3>1, <3>2 DEF Single
    <3>3. CASE Several(c, "replace", InterfaceFields) BY <3>3 DEF Several
    <3> QED BY <1>10, <3>2, <3>3
  <2>2. \A f \in InterfaceFields : k.interface[f] \in Seq(Given) BY DEF KindType, InterfaceType, InterfaceFields
  <2>3. v \in Seq(Given) BY <2>1, <2>2
  <2>4. k2 = [k EXCEPT !.interface[c.field] = v]
    <3>1. CASE c.op = "push"
      <4>1. PICK x \in Given : c.arg = <<x>> BY <1>10, <3>1 DEF Single, Several
      <4>2. Append(k.interface[c.field], x) = k.interface[c.field] \o <<x>>
        <5> DEFINE w == k.interface[c.field]
        <5>1. w \in Seq(Given) BY <2>1, <2>2
        <5> HIDE DEF w
        <5>2. Append(w, x) = w \o <<x>> BY <5>1
        <5> QED BY <5>2 DEF w
      <4>3. k2 = [k EXCEPT !.interface[c.field] = Append(@, x)] BY <3>1, <4>1 DEF Set, PushEntry
      <4>4. k2 = [k EXCEPT !.interface[c.field] = Append(k.interface[c.field], x)]
        BY <2>1, <4>3 DEF KindType, InterfaceType, InterfaceFields
      <4> QED BY <3>1, <4>1, <4>2, <4>4
    <3>2. CASE c.op = "replace" BY <2>1, <3>2 DEF Set, ReplaceEntries
    <3> QED BY <2>1, <3>1, <3>2
  <2> HIDE DEF v
  <2>5. /\ k2 \in KindType /\ k2.extras = k.extras /\ k2.body = k.body
        /\ k2.interface.keys = k.interface.keys
        /\ \A g \in InterfaceFields : k2.interface[g] = IF g = c.field THEN v ELSE k.interface[g]
    <3> DEFINE face == [k.interface EXCEPT ![c.field] = v]
    <3>1. k.interface \in InterfaceType /\ k2 = [k EXCEPT !.interface = face] BY <2>4 DEF KindType
    <3>2. /\ face \in InterfaceType /\ face.keys = k.interface.keys
          /\ \A g \in InterfaceFields : face[g] = IF g = c.field THEN v ELSE k.interface[g]
      BY <2>1, <2>3, <3>1 DEF InterfaceType, InterfaceFields
    <3> HIDE DEF face
    <3>3. k2 \in KindType /\ k2.extras = k.extras /\ k2.body = k.body /\ k2.interface = face
      BY <3>1, <3>2 DEF KindType
    <3> QED BY <3>2, <3>3
  <2>6. \A f \in InterfaceFields : (Replaces(c, f) <=> f = c.field /\ c.op = "replace") /\ (Writes(c, f) <=> f = c.field)
    BY <2>1 DEF Replaces, Writes
  <2>7. InterfaceTold(k, c, k2) BY <2>1, <2>5, <2>6 DEF InterfaceTold, Updated, v
  <2>8. c.field \notin StorageFields \union KeysFields \union BodyFields
    BY <2>1 DEF StorageFields, KeysFields, InterfaceFields, BodyFields
  <2> QED BY <2>1, <2>5, <2>7, <2>8, StorageUntouched, KeysUntouched, BodyUntouched
<1>11. CASE Single(c, "primary", {"primary"})
  <2>1. PICK x \in Given : c.arg = <<x>> BY <1>11 DEF Single
  <2> DEFINE ks2 == [ks EXCEPT !.primary = x]
  <2>2. c.op = "primary" /\ c.field = "primary" BY <1>11 DEF Single
  <2>3. k2 = WithKeys(k, ks2) BY <1>2, <2>1, <2>2 DEF Set, PrimaryKey
  <2>4. x \in Value BY DEF Value
  <2>5. ks2 \in KeysType /\ ks2.primary = x /\ ks2.unique = ks.unique /\ ks2.foreign = ks.foreign
    BY <1>2, <2>4 DEF KeysType
  <2>6. KeysOf(k2) = ks2 BY <2>3, <2>5, KeysSet
  <2>7. Replaces(c, "primary") /\ Writes(c, "primary")
        /\ \A f \in {"unique", "foreign"} : ~Replaces(c, f) /\ ~Writes(c, f)
    BY <2>2 DEF Replaces, Writes
  <2> HIDE DEF ks2
  <2>8. KeysTold(k, c, k2) BY <2>1, <2>5, <2>6, <2>7 DEF KeysTold, Updated, Told, ks
  <2>9. c.field \notin StorageFields \union InterfaceFields \union BodyFields
    BY <2>2 DEF StorageFields, InterfaceFields, BodyFields
  <2> QED BY <1>4, <2>2, <2>3, <2>5, <2>8, <2>9
<1>12. CASE Single(c, "push_key", {"unique", "foreign"})
  <2>1. PICK x \in Given : c.arg = <<x>> BY <1>12 DEF Single
  <2> DEFINE v == ks[c.field] \o c.arg
             ks2 == [ks EXCEPT ![c.field] = v]
  <2>2. c.op = "push_key" /\ c.field \in {"unique", "foreign"} BY <1>12 DEF Single
  <2>3. ks.unique \in Seq(Given) /\ ks.foreign \in Seq(Given) BY <1>2 DEF KeysType
  <2>4. v \in Seq(Given) /\ v = Append(ks[c.field], x) BY <2>1, <2>2, <2>3
  <2>5. k2 = WithKeys(k, ks2)
    <3>1. k2 = WithKeys(k, [ks EXCEPT ![c.field] = Append(@, x)]) BY <1>2, <2>1, <2>2 DEF Set, PushKey
    <3>2. [ks EXCEPT ![c.field] = Append(@, x)] = [ks EXCEPT ![c.field] = Append(ks[c.field], x)] OBVIOUS
    <3> QED BY <2>4, <3>1, <3>2
  <2> HIDE DEF v
  <2>6. ks2 \in KeysType /\ ks2.primary = ks.primary
        /\ \A f \in {"unique", "foreign"} : ks2[f] = IF f = c.field THEN v ELSE ks[f]
    BY <1>2, <2>2, <2>4 DEF KeysType
  <2> HIDE DEF ks2
  <2>7. KeysOf(k2) = ks2 BY <2>5, <2>6, KeysSet
  <2>8. \A f \in KeysFields : ~Replaces(c, f) /\ (Writes(c, f) <=> f = c.field) BY <2>2 DEF Replaces, Writes
  <2>9. KeysTold(k, c, k2) BY <2>2, <2>6, <2>7, <2>8 DEF KeysTold, KeysFields, Updated, Told, ks, v
  <2>10. c.field \notin StorageFields \union InterfaceFields \union BodyFields
    BY <2>2 DEF StorageFields, InterfaceFields, BodyFields
  <2> QED BY <1>4, <2>2, <2>5, <2>6, <2>9, <2>10
<1>13. CASE Empty(c, "keys")
  <2>1. c.op = "keys" /\ c.field \notin StorageFields \union KeysFields \union InterfaceFields \union BodyFields
    BY <1>13 DEF Empty
  <2>2. k2 = WithKeys(k, KeysDefault) BY <2>1 DEF Set
  <2>3. KeysOf(k2) = KeysDefault BY <2>2, DefaultsTyped, KeysSet
  <2>4. \A f \in KeysFields : Replaces(c, f) /\ ~Writes(c, f) BY <2>1, Fields DEF Replaces, Writes
  <2>5. KeysTold(k, c, k2) BY <2>3, <2>4 DEF KeysTold, KeysDefault, KeysFields, Updated, Told
  <2> QED BY <1>4, <2>1, <2>2, <2>5, DefaultsTyped
<1>14. CASE Empty(c, "semantic_interface")
  <2>1. c.op = "semantic_interface"
        /\ c.field \notin StorageFields \union KeysFields \union InterfaceFields \union BodyFields
    BY <1>14 DEF Empty
  <2>2. k2 = [k EXCEPT !.interface = SemanticInterface] BY <2>1 DEF Set
  <2>3. k2 \in KindType /\ k2.interface = SemanticInterface /\ k2.extras = k.extras /\ k2.body = k.body
    BY <2>2, DefaultsTyped DEF KindType
  <2>4. KeysOf(k2) = KeysDefault BY <2>3 DEF KeysOf, SemanticInterface, Block
  <2>5. \A f \in KeysFields \union InterfaceFields : Replaces(c, f) /\ ~Writes(c, f)
    BY <2>1, Fields DEF Replaces, Writes
  <2>6. KeysTold(k, c, k2)
    <3>1. KeysDefault.primary = None /\ KeysDefault.unique = <<>> /\ KeysDefault.foreign = <<>> BY DEF KeysDefault
    <3>2. \A f \in {"primary", "unique", "foreign"} : Replaces(c, f) /\ ~Writes(c, f) BY <2>5 DEF KeysFields
    <3> QED BY <2>4, <3>1, <3>2 DEF KeysTold, Updated, Told
  <2>7. \A f \in InterfaceFields : SemanticInterface[f] = <<>> BY DEF SemanticInterface, InterfaceFields
  <2>8. InterfaceTold(k, c, k2) BY <2>3, <2>5, <2>7 DEF InterfaceTold, Updated
  <2> QED BY <2>1, <2>3, <2>6, <2>8, StorageUntouched, BodyUntouched
<1>15. CASE Several(c, "extend", BodyFields)
  <2> DEFINE v == k.body[c.field] \o c.arg
  <2>1. c.op = "extend" /\ c.field \in BodyFields /\ c.arg \in Seq(Given) BY <1>15 DEF Several
  <2>2. \A f \in BodyFields : k.body[f] \in Seq(Given) BY DEF KindType, BodyType, BodyFields
  <2>3. v \in Seq(Given) BY <2>1, <2>2
  <2>4. k2 = [k EXCEPT !.body[c.field] = v]
    <3>1. k2 = [k EXCEPT !.body[c.field] = @ \o c.arg] BY <2>1 DEF Set, ExtendBody
    <3> QED BY <2>1, <3>1 DEF KindType, BodyType, BodyFields
  <2> HIDE DEF v
  <2>5. /\ k2 \in KindType /\ k2.interface = k.interface /\ k2.extras = k.extras
        /\ \A g \in BodyFields : k2.body[g] = IF g = c.field THEN v ELSE k.body[g]
    <3> DEFINE body == [k.body EXCEPT ![c.field] = v]
    <3>1. k.body \in BodyType /\ k2 = [k EXCEPT !.body = body] BY <2>4 DEF KindType
    <3>2. body \in BodyType /\ \A g \in BodyFields : body[g] = IF g = c.field THEN v ELSE k.body[g]
      BY <2>1, <2>3, <3>1 DEF BodyType, BodyFields
    <3> HIDE DEF body
    <3>3. k2 \in KindType /\ k2.extras = k.extras /\ k2.interface = k.interface /\ k2.body = body
      BY <3>1, <3>2 DEF KindType
    <3> QED BY <3>2, <3>3
  <2>6. \A f \in BodyFields : ~Replaces(c, f) /\ (Writes(c, f) <=> f = c.field) BY <2>1 DEF Replaces, Writes
  <2>7. BodyTold(k, c, k2) BY <2>1, <2>5, <2>6 DEF BodyTold, Updated, v
  <2>8. c.field \notin StorageFields \union KeysFields \union InterfaceFields
    BY <2>1 DEF StorageFields, KeysFields, InterfaceFields, BodyFields
  <2> QED BY <2>1, <2>5, <2>7, <2>8, StorageUntouched, KeysUntouched, InterfaceUntouched
<1>16. CASE Single(c, "mode", {"mode"})
  <2>1. PICK x \in Given : c.arg = <<x>> BY <1>16 DEF Single
  <2>2. c.op = "mode" /\ c.field = "mode" BY <1>16 DEF Single
  <2>3. k2 = [k EXCEPT !.mode = x] BY <2>1, <2>2 DEF Set
  <2>4. k2 \in KindType /\ k2.extras = k.extras /\ k2.interface = k.interface /\ k2.body = k.body
    BY <2>3 DEF KindType, Value
  <2>5. c.field \notin StorageFields \union KeysFields \union InterfaceFields \union BodyFields
    BY <2>2 DEF StorageFields, KeysFields, InterfaceFields, BodyFields
  <2> QED BY <2>2, <2>4, <2>5, StorageUntouched, KeysUntouched, InterfaceUntouched, BodyUntouched
<1> HIDE DEF Goal
<1>17. Goal
  BY <1>5, <1>6, <1>7, <1>8, <1>9, <1>10, <1>11, <1>12, <1>13, <1>14, <1>15, <1>16, SetterFacts DEF Goal
<1> QED BY <1>17 DEF Goal

(* The inductive invariant: the builder holds, field by field, what is     *)
(* heard of the calls that were made.                                      *)
ChainInv ==
  /\ form \in DOMAIN Ops /\ built \in KindType /\ calls \in Seq(Setters)
  /\ \A f \in {"paths", "tables"} : StorageOf(built)[f] = HeardOf(calls, f)
  /\ \A f \in {"unique", "foreign"} : KeysOf(built)[f] = HeardOf(calls, f)
  /\ \A f \in InterfaceFields : built.interface[f] = HeardOf(calls, f)
  /\ \A f \in BodyFields : built.body[f] = HeardOf(calls, f)
  /\ \A f \in {"format", "partition_def"} :
       StorageOf(built)[f] = IF HeardOf(calls, f) = <<>> THEN None ELSE Head(HeardOf(calls, f))
  /\ KeysOf(built).primary = IF HeardOf(calls, "primary") = <<>> THEN None ELSE Head(HeardOf(calls, "primary"))

LEMMA SettersGive == \A c \in Setters : c.arg \in Seq(Given)
<1> SUFFICES ASSUME NEW c \in Setters PROVE c.arg \in Seq(Given)
  OBVIOUS
<1>1. \A x \in Given : <<x>> \in Seq(Given) OBVIOUS
<1>2. <<>> \in Seq(Given) OBVIOUS
<1>3. \/ \E op, F : Single(c, op, F)
      \/ \E op, F : Several(c, op, F)
      \/ \E op : Empty(c, op)
  BY SetterFacts
<1>4. ASSUME NEW op, NEW F, Single(c, op, F) PROVE c.arg \in Seq(Given) BY <1>1, <1>4 DEF Single
<1>5. ASSUME NEW op, NEW F, Several(c, op, F) PROVE c.arg \in Seq(Given) BY <1>5 DEF Several
<1>6. ASSUME NEW op, Empty(c, op) PROVE c.arg \in Seq(Given) BY <1>2, <1>6 DEF Empty
<1> QED BY <1>3, <1>4, <1>5, <1>6

LEMMA NothingHeard == \A f : HeardOf(<<>>, f) = <<>>
<1> SUFFICES ASSUME NEW f PROVE HeardOf(<<>>, f) = <<>>
  OBVIOUS
<1>1. Len(<<>>) = 0 /\ Len(<<>>) \in Nat OBVIOUS
<1>2. PICK h : Hears(<<>>, f, h, Len(<<>>)) /\ HeardOf(<<>>, f) = h[Len(<<>>)] BY <1>1, HeardByHears
<1>3. h[0] = <<>> BY <1>2 DEF Hears
<1> QED BY <1>1, <1>2, <1>3

(* A call on one of the optional fields has one value.                     *)
LEMMA ToldIsHeard ==
  ASSUME NEW c \in Setters, NEW f \in {"format", "partition_def", "primary"}, NEW v, NEW w,
         v = IF w = <<>> THEN None ELSE Head(w)
  PROVE  Told(c, f, v) = IF Updated(c, f, w) = <<>> THEN None ELSE Head(Updated(c, f, w))
<1>1. CASE Replaces(c, f) /\ Writes(c, f)
  <2>1. \E x \in Given : c.arg = <<x>>
    BY <1>1, SetterFacts
    DEF Replaces, Writes, Single, Several, Empty, StorageFields, KeysFields, InterfaceFields, BodyFields, ExtraFields
  <2>2. PICK x \in Given : c.arg = <<x>> BY <2>1
  <2>3. Head(c.arg) = c.arg[1] /\ c.arg # <<>> BY <2>2
  <2> QED BY <1>1, <2>3 DEF Told, Updated
<1>2. CASE Replaces(c, f) /\ ~Writes(c, f) BY <1>2 DEF Told, Updated
<1>3. CASE ~Replaces(c, f)
  <2>1. ~Writes(c, f)
    BY <1>3, SetterFacts
    DEF Replaces, Writes, Single, Several, Empty, StorageFields, KeysFields, InterfaceFields, BodyFields, ExtraFields
  <2> QED BY <1>3, <2>1 DEF Told, Updated
<1> QED BY <1>1, <1>2, <1>3

LEMMA ChainInvariant == KSpec => []ChainInv
<1>1. KInit => ChainInv
  <2> SUFFICES ASSUME KInit PROVE ChainInv
    OBVIOUS
  <2>1. form \in DOMAIN Ops /\ built = New /\ calls = <<>> BY DEF KInit
  <2>2. StorageOf(New) = StorageDefault /\ KeysOf(New) = KeysDefault
    BY DEF StorageOf, KeysOf, New, LeafExtras, SemanticInterface, Block
  <2>3. /\ StorageDefault.paths = <<>> /\ StorageDefault.tables = <<>>
        /\ StorageDefault.format = None /\ StorageDefault.partition_def = None
    BY DEF StorageDefault
  <2>4. KeysDefault.unique = <<>> /\ KeysDefault.foreign = <<>> /\ KeysDefault.primary = None BY DEF KeysDefault
  <2>5. \A f \in InterfaceFields : New.interface[f] = <<>> BY DEF New, SemanticInterface, InterfaceFields
  <2>6. \A f \in BodyFields : New.body[f] = <<>> BY DEF New, NoChildren, BodyFields
  <2>7. New \in KindType /\ <<>> \in Seq(Setters) BY DefaultsTyped
  <2> QED BY <2>1, <2>2, <2>3, <2>4, <2>5, <2>6, <2>7, NothingHeard DEF ChainInv
<1>2. ChainInv /\ [KNext]_kvars => ChainInv'
  <2> SUFFICES ASSUME ChainInv, [KNext]_kvars PROVE ChainInv'
    OBVIOUS
  <2>1. ASSUME NEW c \in Ops[form], Chain(c) PROVE ChainInv'
    <3>1. c \in Setters BY DEF Setters, ChainInv
    <3>2. built' = Set(built, c) /\ calls' = Append(calls, c) /\ form' = form BY <2>1 DEF Chain
    <3>3. built \in KindType /\ calls \in Seq(Setters) BY DEF ChainInv
    <3>4. built' \in KindType /\ StorageTold(built, c, built') /\ KeysTold(built, c, built')
          /\ InterfaceTold(built, c, built') /\ BodyTold(built, c, built')
      BY <3>1, <3>2, <3>3, SetFacts
    <3>5. \A f : HeardOf(calls', f) = Updated(c, f, HeardOf(calls, f))
      BY <3>1, <3>2, <3>3, SettersGive, HeardAppend
    <3>6. calls' \in Seq(Setters) BY <3>1, <3>2, <3>3
    <3>7. form' \in DOMAIN Ops BY <3>2 DEF ChainInv
    <3>8. \A f \in {"paths", "tables"} : StorageOf(built')[f] = HeardOf(calls', f)
      BY <3>4, <3>5 DEF ChainInv, StorageTold
    <3>9. \A f \in {"unique", "foreign"} : KeysOf(built')[f] = HeardOf(calls', f)
      BY <3>4, <3>5 DEF ChainInv, KeysTold
    <3>10. \A f \in InterfaceFields : built'.interface[f] = HeardOf(calls', f)
      BY <3>4, <3>5 DEF ChainInv, InterfaceTold
    <3>11. \A f \in BodyFields : built'.body[f] = HeardOf(calls', f) BY <3>4, <3>5 DEF ChainInv, BodyTold
    <3>12. ASSUME NEW f \in {"format", "partition_def"}
           PROVE  StorageOf(built')[f] = IF HeardOf(calls', f) = <<>> THEN None ELSE Head(HeardOf(calls', f))
      <4>1. StorageOf(built)[f] = IF HeardOf(calls, f) = <<>> THEN None ELSE Head(HeardOf(calls, f)) BY DEF ChainInv
      <4>2. StorageOf(built')[f] = Told(c, f, StorageOf(built)[f]) BY <3>4 DEF StorageTold
      <4> QED BY <3>1, <3>5, <4>1, <4>2, ToldIsHeard
    <3>13. KeysOf(built').primary
             = IF HeardOf(calls', "primary") = <<>> THEN None ELSE Head(HeardOf(calls', "primary"))
      <4>1. KeysOf(built).primary
              = IF HeardOf(calls, "primary") = <<>> THEN None ELSE Head(HeardOf(calls, "primary"))
        BY DEF ChainInv
      <4>2. KeysOf(built').primary = Told(c, "primary", KeysOf(built).primary) BY <3>4 DEF KeysTold
      <4> QED BY <3>1, <3>5, <4>1, <4>2, ToldIsHeard
    <3> QED BY <3>4, <3>6, <3>7, <3>8, <3>9, <3>10, <3>11, <3>12, <3>13 DEF ChainInv
  <2>2. CASE UNCHANGED kvars BY <2>2 DEF kvars, ChainInv
  <2> QED BY <2>1, <2>2 DEF KNext
<1> QED BY <1>1, <1>2, PTL DEF KSpec

(* A builder holds what the setters were told, whatever their order: every *)
(* list the calls since its last replacement, every optional field the     *)
(* last call that wrote it, for chains of calls of any length.             *)
THEOREM BuilderHoldsWrites == KSpec => []BuilderKeepsWrites
<1>1. ChainInv => BuilderKeepsWrites
  <2> SUFFICES ASSUME ChainInv PROVE BuilderKeepsWrites
    OBVIOUS
  <2>1. Storage = StorageOf(built) /\ Keys = KeysOf(built) BY DEF Storage, Keys, StorageOf, KeysOf
  <2>2. \A f \in DOMAIN ListFields : ListFields[f] = Heard(f) BY <2>1 DEF ListFields, ChainInv, Heard
  <2>3. \A f \in {"dimensions", "measures", "metrics", "filters"} : built.interface[f] = Heard(f)
    BY DEF ChainInv, Heard, InterfaceFields
  <2>4. \A f \in DOMAIN NoChildren : built.body[f] = Heard(f) BY Fields DEF ChainInv, Heard
  <2>5. \A f \in DOMAIN OptionFields : OptionFields[f] = IF Heard(f) = <<>> THEN None ELSE Head(Heard(f))
    BY <2>1 DEF OptionFields, ChainInv, Heard
  <2> QED BY <2>2, <2>3, <2>4, <2>5 DEF BuilderKeepsWrites
<1> QED BY <1>1, ChainInvariant, PTL
=============================================================================
