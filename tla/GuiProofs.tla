------------------------------ MODULE GuiProofs ------------------------------
(***************************************************************************)
(* Proofs that no view shows the data of a run older than the newest       *)
(* Reload Network that was answered, and that the graph on the screen is   *)
(* one of the list the view has, for every network, however many requests  *)
(* and gestures there are and in whatever order the fetches are served.    *)
(***************************************************************************)
EXTENDS Gui, SequenceTheorems, TLAPS

(* With "made" runs made and "told" the newest reload that was answered:   *)
(* an answer that a view waits for is at least as new as that reload, for  *)
(* the views of before were left then; no answer is of a run to come.      *)
FetchOK(f, made, told) ==
    /\ f = [kind |-> f.kind, to |-> f.to, state |-> f.state, run |-> f.run, count |-> f.count]
    /\ f.kind \in {"graphs", "nodes", "init"}
    /\ f.to = "button" => f.kind = "init"
    /\ f.run \in Nat /\ f.run <= made /\ f.count \in Nat
    /\ f.state = "answered" /\ f.to = "view" /\ f.kind # "init" => f.run >= told

IsSeq(q) == \E S : q \in Seq(S)

FetchesOK(q, made, told) == IsSeq(q) /\ \A i \in 1..Len(q) : FetchOK(q[i], made, told)

(* What a view holds, whatever is drawn in it.                             *)
DataOK(v, told) ==
    /\ v = [ready |-> v.ready, loading |-> v.loading, button |-> v.button,
            run |-> v.run, count |-> v.count, drawn |-> v.drawn]
    /\ v.run \in Nat /\ v.count \in Nat
    /\ v.ready => v.run >= told

(* A view with graphs shows one of them, on either page.                   *)
Drawn(v) == v.count > 0 => \E index \in 0..(v.count - 1) : v.drawn = <<v.run, index>>

ViewOK(v, told) == DataOK(v, told) /\ (v.ready => Drawn(v))

TabInv ==
    /\ run \in Nat /\ reloaded \in Nat /\ reloaded <= run /\ IsSeq(graphs)
    /\ FetchesOK(fetches, run, reloaded)
    /\ ViewOK(view, reloaded)

-----------------------------------------------------------------------------
(* Sequences.                                                              *)
LEMMA SeqIsFunction ==
    ASSUME NEW q, IsSeq(q)
    PROVE  Len(q) \in Nat /\ q = [i \in 1..Len(q) |-> q[i]]
  BY DEF IsSeq

LEMMA AppendSeq ==
    ASSUME NEW q, IsSeq(q), NEW x
    PROVE  /\ IsSeq(Append(q, x))
           /\ Len(Append(q, x)) = Len(q) + 1
           /\ \A i \in 1..Len(q) : Append(q, x)[i] = q[i]
           /\ Append(q, x)[Len(q) + 1] = x
  <1>1. PICK S : q \in Seq(S)
    BY DEF IsSeq
  <1>2. q \in Seq(S \cup {x}) /\ x \in S \cup {x}
    BY <1>1
  <1>. QED  BY <1>2 DEF IsSeq

LEMMA RemoveAtSeq ==
    ASSUME NEW q, IsSeq(q), NEW k \in 1..Len(q)
    PROVE  /\ IsSeq(RemoveAt(q, k))
           /\ \A i \in 1..Len(RemoveAt(q, k)) : \E j \in 1..Len(q) : RemoveAt(q, k)[i] = q[j]
  <1>1. PICK S : q \in Seq(S)
    BY DEF IsSeq
  <1>. DEFINE a == SubSeq(q, 1, k - 1)
              b == SubSeq(q, k + 1, Len(q))
  <1>2. a \in Seq(S) /\ Len(a) = k - 1 /\ \A i \in 1..(k - 1) : a[i] = q[i]
    BY <1>1
  <1>3. /\ b \in Seq(S) /\ Len(b) = Len(q) - k
        /\ \A i \in 1..(Len(q) - k) : b[i] = q[k + i]
    BY <1>1
  <1>4. RemoveAt(q, k) = a \o b
    BY DEF RemoveAt
  <1>. HIDE DEF a, b
  <1>5. a \o b \in Seq(S) /\ Len(a \o b) = Len(q) - 1
    <2>1. a \in Seq(S) /\ b \in Seq(S)
      BY <1>2, <1>3
    <2>2. a \o b \in Seq(S) /\ Len(a \o b) = Len(a) + Len(b)
      BY ONLY <2>1, ConcatProperties
    <2>3. Len(q) \in Nat
      BY <1>1
    <2>. QED  BY <1>2, <1>3, <2>2, <2>3
  <1>6. ASSUME NEW i \in 1..Len(a \o b)
        PROVE  \E j \in 1..Len(q) : (a \o b)[i] = q[j]
    <2>1. CASE i <= k - 1
      BY <2>1, <1>1, <1>2, <1>3, <1>5, i \in 1..Len(q)
    <2>2. CASE i > k - 1
      <3>1. (a \o b)[i] = b[i - (k - 1)] /\ i - (k - 1) \in 1..(Len(q) - k)
        BY <2>2, <1>1, <1>2, <1>3, <1>5
      <3>2. (a \o b)[i] = q[i + 1] /\ i + 1 \in 1..Len(q)
        BY <3>1, <1>1, <1>3, <1>5
      <3>. QED  BY <3>2
    <2>. QED  BY <2>1, <2>2, <1>1, <1>5
  <1>. QED  BY <1>4, <1>5, <1>6 DEF IsSeq

-----------------------------------------------------------------------------
(* What the operations on fetches keep.                                    *)
LEMMA LaterFetches ==
    ASSUME NEW q, NEW made \in Nat, NEW told \in Nat, FetchesOK(q, made, told),
           NEW later \in Nat, made <= later
    PROVE  FetchesOK(q, later, told)
  BY DEF FetchesOK, FetchOK

LEMMA NewFetchOK ==
    ASSUME NEW made \in Nat, NEW told \in Nat
    PROVE  /\ \A p : FetchOK(DataOf(p), made, told)
           /\ \A to : FetchOK(Fetch("init", to), made, told)
  BY DEF FetchOK, DataOf, Fetch

LEMMA AppendedFetches ==
    ASSUME NEW q, NEW made \in Nat, NEW told \in Nat, FetchesOK(q, made, told),
           NEW f, FetchOK(f, made, told)
    PROVE  FetchesOK(Append(q, f), made, told)
  <1>1. IsSeq(q) /\ Len(q) \in Nat
    BY SeqIsFunction DEF FetchesOK
  <1>. QED  BY <1>1, AppendSeq DEF FetchesOK

LEMMA RemainingFetches ==
    ASSUME NEW q, NEW made \in Nat, NEW told \in Nat, FetchesOK(q, made, told),
           NEW k \in 1..Len(q)
    PROVE  FetchesOK(RemoveAt(q, k), made, told)
  <1>1. IsSeq(q) /\ \A j \in 1..Len(q) : FetchOK(q[j], made, told)
    BY DEF FetchesOK
  <1>. DEFINE r == RemoveAt(q, k)
  <1>2. IsSeq(r) /\ \A i \in 1..Len(r) : \E j \in 1..Len(q) : r[i] = q[j]
    BY <1>1, RemoveAtSeq
  <1>. HIDE DEF r
  <1>3. ASSUME NEW i \in 1..Len(r)
        PROVE  FetchOK(r[i], made, told)
    <2>1. PICK j \in 1..Len(q) : r[i] = q[j]
      BY <1>2
    <2>. QED  BY <2>1, <1>1
  <1>4. FetchesOK(r, made, told)
    BY <1>2, <1>3 DEF FetchesOK
  <1>. QED  BY <1>4 DEF r

LEMMA ChangedFetch ==
    ASSUME NEW q, NEW made \in Nat, NEW told \in Nat, FetchesOK(q, made, told),
           NEW k \in 1..Len(q), NEW f, FetchOK(f, made, told)
    PROVE  FetchesOK([q EXCEPT ![k] = f], made, told)
  <1>1. PICK S : q \in Seq(S)
    BY DEF FetchesOK, IsSeq
  <1>2. q \in Seq(S \cup {f})
    BY <1>1
  <1>. DEFINE r == [q EXCEPT ![k] = f]
  <1>3. /\ r \in Seq(S \cup {f}) /\ Len(r) = Len(q)
        /\ \A i \in 1..Len(q) : r[i] = IF i = k THEN f ELSE q[i]
    BY <1>2
  <1>4. IsSeq(r)
    BY <1>3 DEF IsSeq
  <1>. HIDE DEF r
  <1>5. FetchesOK(r, made, told)
    BY <1>3, <1>4 DEF FetchesOK
  <1>. QED  BY <1>5 DEF r

(* A function of the places in a queue is a queue.                         *)
LEMMA MappedSeq ==
    ASSUME NEW n \in Nat, NEW F
    PROVE  /\ IsSeq([i \in 1..n |-> F[i]]) /\ Len([i \in 1..n |-> F[i]]) = n
  <1>. DEFINE S == {F[i] : i \in 1..n}
  <1>1. [i \in 1..n |-> F[i]] \in [1..n -> S]
    OBVIOUS
  <1>2. [i \in 1..n |-> F[i]] \in Seq(S) /\ Len([i \in 1..n |-> F[i]]) = n
    BY <1>1
  <1>3. IsSeq([i \in 1..n |-> F[i]])
    <2>. HIDE DEF S
    <2>. QED  BY <1>2 DEF IsSeq
  <1>. QED  BY <1>2, <1>3

LEMMA OrphanedFetches ==
    ASSUME NEW q, NEW made \in Nat, NEW told \in Nat, FetchesOK(q, made, told),
           NEW later \in Nat
    PROVE  FetchesOK(Orphaned(q), made, later)
  <1>. DEFINE F == [i \in 1..Len(q) |->
                       IF q[i].to = "app" THEN q[i] ELSE [q[i] EXCEPT !.to = "nobody"]]
  <1>1. Len(q) \in Nat
    BY SeqIsFunction DEF FetchesOK
  <1>2. Orphaned(q) = [i \in 1..Len(q) |-> F[i]]
    BY DEF Orphaned
  <1>3. IsSeq(Orphaned(q)) /\ Len(Orphaned(q)) = Len(q)
    BY <1>1, <1>2, MappedSeq
  <1>4. ASSUME NEW i \in 1..Len(q)
        PROVE  FetchOK(Orphaned(q)[i], made, later)
    <2>1. FetchOK(q[i], made, told)
      BY DEF FetchesOK
    <2>2. Orphaned(q)[i] = IF q[i].to = "app" THEN q[i] ELSE [q[i] EXCEPT !.to = "nobody"]
      BY DEF Orphaned
    <2>. QED  BY <2>1, <2>2 DEF FetchOK
  <1>. QED  BY <1>3, <1>4 DEF FetchesOK

LEMMA ButtonlessFetches ==
    ASSUME NEW q, NEW made \in Nat, NEW told \in Nat, FetchesOK(q, made, told)
    PROVE  FetchesOK(WithoutButton(q), made, told)
  <1>. DEFINE F == [i \in 1..Len(q) |->
                       IF q[i].to = "button" THEN [q[i] EXCEPT !.to = "view"] ELSE q[i]]
  <1>1. Len(q) \in Nat
    BY SeqIsFunction DEF FetchesOK
  <1>2. WithoutButton(q) = [i \in 1..Len(q) |-> F[i]]
    BY DEF WithoutButton
  <1>3. IsSeq(WithoutButton(q)) /\ Len(WithoutButton(q)) = Len(q)
    BY <1>1, <1>2, MappedSeq
  <1>4. ASSUME NEW i \in 1..Len(q)
        PROVE  FetchOK(WithoutButton(q)[i], made, told)
    <2>1. FetchOK(q[i], made, told)
      BY DEF FetchesOK
    <2>2. WithoutButton(q)[i] = IF q[i].to = "button" THEN [q[i] EXCEPT !.to = "view"] ELSE q[i]
      BY DEF WithoutButton
    <2>. QED  BY <2>1, <2>2 DEF FetchOK
  <1>. QED  BY <1>3, <1>4 DEF FetchesOK

(* Drawing a graph keeps the data of a view, and the index is brought back *)
(* into the list.                                                          *)
LEMMA MinOfTwo ==
    ASSUME NEW a \in Int, NEW b \in Int
    PROVE  Min({a, b}) = IF a <= b THEN a ELSE b
  <1>. DEFINE m == IF a <= b THEN a ELSE b
  <1>1. m \in {a, b} /\ \A y \in {a, b} : m <= y
    OBVIOUS
  <1>2. Min({a, b}) \in {a, b} /\ \A y \in {a, b} : Min({a, b}) <= y
    <2>. HIDE DEF m
    <2>. QED  BY <1>1, Zenon DEF Min
  <1>3. Min({a, b}) <= a /\ Min({a, b}) <= b
    BY <1>2
  <1>. QED  BY <1>2, <1>3

LEMMA SetGraphOK ==
    ASSUME NEW v, NEW e \in Nat, NEW told \in Nat, DataOK(v, told)
    PROVE  ViewOK(SetGraph(v, e), told)
  <1>1. CASE v.count = 0
    BY <1>1 DEF SetGraph, ViewOK, Drawn
  <1>2. CASE v.count # 0
    <2>1. SetGraph(v, e) = [v EXCEPT !.drawn = <<v.run, Min({e, v.count - 1})>>]
      BY <1>2 DEF SetGraph
    <2>2. v.count \in Nat /\ v.count - 1 \in Nat
      BY <1>2 DEF DataOK
    <2>3. Min({e, v.count - 1}) \in 0..(v.count - 1)
      <3>1. Min({e, v.count - 1}) = IF e <= v.count - 1 THEN e ELSE v.count - 1
        BY <2>2, MinOfTwo
      <3>. QED  BY <2>2, <3>1
    <2>. QED  BY <2>1, <2>3 DEF DataOK, ViewOK, Drawn
  <1>. QED  BY <1>1, <1>2

-----------------------------------------------------------------------------
(* What the steps keep.                                                    *)
LEMMA MenuStep ==
    ASSUME TabInv, NEW p, ChangeMenu(p)
    PROVE  TabInv'
  <1>1. run' = run /\ graphs' = graphs /\ reloaded' = reloaded
    BY DEF ChangeMenu, Gesture, server
  <1>2. FetchesOK(Orphaned(fetches), run, reloaded)
    BY OrphanedFetches DEF TabInv
  <1>3. FetchesOK(fetches', run, reloaded)
    BY <1>2, AppendedFetches, NewFetchOK DEF TabInv, ChangeMenu
  <1>4. ViewOK(view', reloaded)
    BY DEF ChangeMenu, Mounted, NoView, ViewOK, DataOK
  <1>. QED  BY <1>1, <1>3, <1>4 DEF TabInv

LEMMA ClickStep ==
    ASSUME TabInv, Click \/ Reload
    PROVE  TabInv'
  <1>1. run' = run /\ graphs' = graphs /\ reloaded' = reloaded
    BY DEF Click, Reload, Gesture, server
  <1>2. \E to : fetches' = Append(fetches, Fetch("init", to))
    BY DEF Click, Reload
  <1>3. FetchesOK(fetches', run, reloaded)
    BY <1>2, AppendedFetches, NewFetchOK DEF TabInv
  <1>4. ViewOK(view', reloaded)
    BY DEF Click, Reload, TabInv, ViewOK, DataOK, Drawn
  <1>. QED  BY <1>1, <1>3, <1>4 DEF TabInv

LEMMA SlideStep ==
    ASSUME TabInv, Slide
    PROVE  TabInv'
  <1>1. run' = run /\ graphs' = graphs /\ reloaded' = reloaded /\ fetches' = fetches
    BY DEF Slide, Gesture, server
  <1>2. ViewOK(view', reloaded)
    <2>1. PICK e \in 0..view.count : view' = SetGraph(view, e)
      BY DEF Slide
    <2>2. e \in Nat /\ DataOK(view, reloaded)
      BY DEF TabInv, ViewOK, DataOK
    <2>. QED  BY <2>1, <2>2, SetGraphOK DEF TabInv
  <1>. QED  BY <1>1, <1>2 DEF TabInv

(* An answer that is received, case by case.                               *)
LEMMA DataStep ==
    ASSUME TabInv, NEW i \in 1..Len(fetches), fetches[i].state = "answered",
           ReceiveData(fetches[i], RemoveAt(fetches, i)), run' = run, graphs' = graphs
    PROVE  TabInv'
  <1>. DEFINE f == fetches[i]
              rest == RemoveAt(fetches, i)
              v == Received(f)
  <1>1. FetchesOK(rest, run, reloaded)
    BY RemainingFetches DEF TabInv
  <1>2. FetchOK(f, run, reloaded)
    BY DEF TabInv, FetchesOK
  <1>3. reloaded' = reloaded
    BY DEF ReceiveData
  <1>4. CASE NoInit(f)
    <2>1. /\ view' = [view EXCEPT !.ready = FALSE, !.loading = FALSE]
          /\ fetches' = rest
      BY <1>4 DEF ReceiveData
    <2>2. ViewOK(view', reloaded)
      BY <2>1 DEF TabInv, ViewOK, DataOK
    <2>. QED  BY <1>1, <1>3, <2>1, <2>2 DEF TabInv
  <1>5. CASE ~NoInit(f)
    <2>1. view' = SetGraph(v, 1) /\ fetches' = WithoutButton(rest)
      BY <1>5 DEF ReceiveData, Ready
    <2>2. FetchesOK(fetches', run, reloaded)
      BY <2>1, <1>1, ButtonlessFetches DEF TabInv
    <2>3. f.run \in Nat /\ f.run >= reloaded /\ f.count \in Nat
      BY <1>2 DEF ReceiveData, FetchOK
    <2>4. DataOK(v, reloaded)
      BY <2>3 DEF DataOK, Received
    <2>5. ViewOK(view', reloaded)
      <3>. HIDE DEF v
      <3>. QED  BY <2>1, <2>4, SetGraphOK DEF TabInv
    <2>. QED  BY <1>3, <2>2, <2>5 DEF TabInv
  <1>. QED  BY <1>4, <1>5

LEMMA InitStep ==
    ASSUME TabInv, NEW i \in 1..Len(fetches),
           ReceiveInit(fetches[i], RemoveAt(fetches, i)), run' = run, graphs' = graphs
    PROVE  TabInv'
  <1>1. FetchesOK(RemoveAt(fetches, i), run, reloaded)
    BY RemainingFetches DEF TabInv
  <1>2. FetchesOK(fetches', run, reloaded)
    BY <1>1, AppendedFetches, NewFetchOK DEF TabInv, ReceiveInit
  <1>3. reloaded' = reloaded /\ ViewOK(view', reloaded)
    BY DEF TabInv, ReceiveInit, ViewOK, DataOK, Drawn
  <1>. QED  BY <1>2, <1>3 DEF TabInv

LEMMA ReloadStep ==
    ASSUME TabInv, NEW i \in 1..Len(fetches),
           ReceiveReload(fetches[i], RemoveAt(fetches, i)), run' = run, graphs' = graphs
    PROVE  TabInv'
  <1>1. FetchesOK(RemoveAt(fetches, i), run, reloaded)
    BY RemainingFetches DEF TabInv
  <1>2. FetchOK(fetches[i], run, reloaded)
    BY DEF TabInv, FetchesOK
  <1>3. reloaded' \in Nat /\ reloaded' <= run
    BY <1>2 DEF TabInv, FetchOK, ReceiveReload, Reloaded
  <1>4. FetchesOK(fetches', run, reloaded')
    BY <1>1, <1>3, OrphanedFetches DEF TabInv, ReceiveReload
  <1>5. ViewOK(view', reloaded')
    BY DEF ReceiveReload, NoView, ViewOK, DataOK
  <1>. QED  BY <1>3, <1>4, <1>5 DEF TabInv

LEMMA ReceiveStep ==
    ASSUME TabInv, Receive
    PROVE  TabInv'
  <1>1. run' = run /\ graphs' = graphs
    BY DEF Receive, server
  <1>2. PICK i \in 1..Len(fetches) :
           /\ fetches[i].state = "answered"
           /\ \/ ReceiveData(fetches[i], RemoveAt(fetches, i))
              \/ ReceiveInit(fetches[i], RemoveAt(fetches, i))
              \/ ReceiveReload(fetches[i], RemoveAt(fetches, i))
              \/ ReceiveNothing(fetches[i], RemoveAt(fetches, i))
    BY DEF Receive
  <1>3. CASE ReceiveNothing(fetches[i], RemoveAt(fetches, i))
    <2>1. FetchesOK(RemoveAt(fetches, i), run, reloaded)
      BY RemainingFetches DEF TabInv
    <2>. QED  BY <1>1, <1>3, <2>1 DEF ReceiveNothing, TabInv
  <1>. QED  BY <1>1, <1>2, <1>3, DataStep, InitStep, ReloadStep

(* An answer given now is of the last run, whatever was fetched.           *)
LEMMA AnsweredOK ==
    ASSUME NEW f, NEW made \in Nat, NEW told \in Nat, told <= made, FetchOK(f, made, told),
           NEW count \in Nat
    PROVE  /\ FetchOK([f EXCEPT !.state = "answered", !.run = made, !.count = count], made, told)
           /\ FetchOK([f EXCEPT !.state = "answered", !.run = made], made, told)
  <1>1. PICK k, t, s, r, c : f = [kind |-> k, to |-> t, state |-> s, run |-> r, count |-> c]
    BY DEF FetchOK
  <1>2. k \in {"graphs", "nodes", "init"} /\ (t = "button" => k = "init") /\ c \in Nat
    BY <1>1 DEF FetchOK
  <1>3. /\ [f EXCEPT !.state = "answered", !.run = made, !.count = count]
           = [kind |-> k, to |-> t, state |-> "answered", run |-> made, count |-> count]
        /\ [f EXCEPT !.state = "answered", !.run = made]
           = [kind |-> k, to |-> t, state |-> "answered", run |-> made, count |-> c]
    <2>. DEFINE a == [f EXCEPT !.state = "answered"]
                b == [a EXCEPT !.run = made]
                d == [b EXCEPT !.count = count]
    <2>1. a = [kind |-> k, to |-> t, state |-> "answered", run |-> r, count |-> c]
      BY <1>1
    <2>2. b = [kind |-> k, to |-> t, state |-> "answered", run |-> made, count |-> c]
      <3>. HIDE DEF a
      <3>. QED  BY <2>1
    <2>3. d = [kind |-> k, to |-> t, state |-> "answered", run |-> made, count |-> count]
      <3>. HIDE DEF b
      <3>. QED  BY <2>2
    <2>. QED  BY ONLY <2>2, <2>3
  <1>4. \A n \in Nat : FetchOK([kind |-> k, to |-> t, state |-> "answered", run |-> made, count |-> n],
                       made, told)
    BY <1>2 DEF FetchOK
  <1>. QED  BY <1>2, <1>3, <1>4

(* The server: a run is made or not, and what is answered is of the last.  *)
LEMMA HandleStep ==
    ASSUME TabInv, Handle
    PROVE  TabInv'
  <1>1. reloaded' = reloaded /\ view' = view
    BY DEF Handle
  <1>2. PICK i \in 1..Len(fetches) : HandleRead(i) \/ HandleInit(i)
    BY DEF Handle
  <1>3. FetchOK(fetches[i], run, reloaded)
    BY DEF TabInv, FetchesOK
  <1>4. CASE HandleRead(i)
    <2>1. /\ run' = run /\ graphs' = graphs
          /\ fetches' = [fetches EXCEPT ![i] = AnsweredWith(fetches[i])]
      BY <1>4 DEF HandleRead, server
    <2>2. FetchOK(AnsweredWith(fetches[i]), run, reloaded)
      <3>1. FetchOK([fetches[i] EXCEPT !.state = "answered", !.run = run, !.count = Len(graphs)],
                    run, reloaded)
        <4>1. run \in Nat /\ reloaded \in Nat /\ reloaded <= run /\ Len(graphs) \in Nat
          BY SeqIsFunction DEF TabInv
        <4>. QED  BY <1>3, <4>1, AnsweredOK, Zenon
      <3>. QED  BY <3>1 DEF AnsweredWith
    <2>3. FetchesOK(fetches', run, reloaded)
      BY <2>1, <2>2, ChangedFetch DEF TabInv
    <2>. QED  BY <1>1, <2>1, <2>3 DEF TabInv
  <1>5. CASE HandleInit(i)
    <2>1. /\ run' = run + 1 /\ graphs' = <<>>
          /\ fetches' = [fetches EXCEPT ![i] = [fetches[i] EXCEPT !.state = "handled"]]
      BY <1>5, SeqIsFunction DEF HandleInit, GetInit, MakeITop, TabInv, FetchesOK
    <2>2. FetchOK([fetches[i] EXCEPT !.state = "handled"], run, reloaded)
      BY <1>3 DEF TabInv, FetchOK
    <2>3. FetchesOK(fetches', run, reloaded)
      BY <2>1, <2>2, ChangedFetch DEF TabInv
    <2>4. FetchesOK(fetches', run + 1, reloaded)
      BY <2>3, LaterFetches DEF TabInv
    <2>5. IsSeq(<<>>)
      BY DEF IsSeq
    <2>. QED  BY <1>1, <2>1, <2>4, <2>5 DEF TabInv
  <1>. QED  BY <1>2, <1>4, <1>5

LEMMA ComputeStep ==
    ASSUME TabInv, Compute
    PROVE  TabInv'
  <1>. DEFINE F == [i \in 1..Len(fetches) |->
                     IF fetches[i].state = "handled" /\ request' = "none"
                     THEN [fetches[i] EXCEPT !.state = "answered", !.run = run]
                     ELSE fetches[i]]
  <1>1. Work /\ fetches' = F /\ UNCHANGED <<page, view, reloaded, gestures>>
    BY Zenon DEF Compute
  <1>2. run' = run /\ IsSeq(graphs')
    <2>1. Work
      BY <1>1, Zenon
    <2>2. UNCHANGED <<run, generator, late, typed>>
      BY <2>1, Zenon DEF Work
    <2>3. graphs' = graphs \/ \E x : graphs' = Append(graphs, x)
      BY <2>1, Zenon DEF Work, Steps, EndOfPhase, Phase3OfRequest
    <2>. QED  BY <2>2, <2>3, AppendSeq DEF TabInv
  <1>3. Len(fetches) \in Nat
    BY SeqIsFunction DEF TabInv, FetchesOK
  <1>4. IsSeq(F) /\ Len(F) = Len(fetches)
    <2>1. F = [i \in 1..Len(fetches) |-> F[i]]
      OBVIOUS
    <2>. HIDE DEF F
    <2>. QED  BY <1>3, <2>1, MappedSeq
  <1>5. ASSUME NEW i \in 1..Len(fetches)
        PROVE  FetchOK(F[i], run, reloaded)
    <2>1. FetchOK(fetches[i], run, reloaded)
      BY DEF TabInv, FetchesOK
    <2>2. FetchOK([fetches[i] EXCEPT !.state = "answered", !.run = run], run, reloaded)
      <3>1. run \in Nat /\ reloaded \in Nat /\ reloaded <= run /\ 0 \in Nat
        BY DEF TabInv
      <3>. QED  BY <2>1, <3>1, AnsweredOK, Zenon
    <2>3. F[i] \in {fetches[i], [fetches[i] EXCEPT !.state = "answered", !.run = run]}
      OBVIOUS
    <2>. HIDE DEF F
    <2>. QED  BY <2>1, <2>2, <2>3
  <1>6. FetchesOK(F, run, reloaded)
    <2>. HIDE DEF F
    <2>. QED  BY <1>4, <1>5 DEF FetchesOK
  <1>. HIDE DEF F
  <1>. QED  BY <1>1, <1>2, <1>6 DEF TabInv

LEMMA OthersStep ==
    ASSUME TabInv, Others
    PROVE  TabInv'
  <1>1. view' = view /\ reloaded' = reloaded /\ fetches' = fetches
    BY DEF Others, browser
  <1>2. run' \in {run, run + 1} /\ graphs' \in {graphs, <<>>}
    <2>1. CASE TraceArrives
      BY <2>1 DEF TraceArrives
    <2>2. CASE Typed
      BY <2>2 DEF Typed, GetPhase1, GetPhase2, GetPhase3Step, MakeITop, Continue, Answered500
    <2>. QED  BY <2>1, <2>2 DEF Others
  <1>3. FetchesOK(fetches, run', reloaded) /\ run' \in Nat /\ run <= run'
    BY <1>2, LaterFetches DEF TabInv
  <1>4. IsSeq(<<>>)
    BY DEF IsSeq
  <1>. QED  BY <1>1, <1>2, <1>3, <1>4 DEF TabInv

LEMMA TabInvariant == GuiSpec => []TabInv
  <1>1. GuiInit => TabInv
    <2>. SUFFICES ASSUME GuiInit PROVE TabInv
      OBVIOUS
    <2>1. run = 0 /\ graphs = <<>> /\ fetches = <<>> /\ reloaded = 0 /\ view = NoView
      BY DEF GuiInit, WebInit
    <2>2. FetchesOK(<<>>, 0, 0) /\ IsSeq(<<>>)
      BY DEF FetchesOK, IsSeq
    <2>. QED  BY <2>1, <2>2 DEF TabInv, NoView, ViewOK, DataOK
  <1>2. TabInv /\ [GuiNext]_all => TabInv'
    <2>. SUFFICES ASSUME TabInv, [GuiNext]_all PROVE TabInv'
      OBVIOUS
    <2>1. CASE UNCHANGED all
      BY <2>1 DEF all, server, browser, TabInv
    <2>. QED  BY <2>1, MenuStep, ClickStep, SlideStep, ReceiveStep, HandleStep,
                 ComputeStep, OthersStep DEF GuiNext
  <1>. QED  BY <1>1, <1>2, PTL DEF GuiSpec

(* After Reload Network was answered, no view shows the data of an older   *)
(* run: the answer leaves the page, and with it all that was on its way to *)
(* a view, while a view mounted later is served by a server that has made  *)
(* that run.                                                               *)
THEOREM ReloadedViewsAreFresh == GuiSpec => []ReloadedViewsFresh
  <1>1. TabInv => ReloadedViewsFresh
    BY DEF TabInv, ViewOK, DataOK, ReloadedViewsFresh
  <1>. QED  BY <1>1, TabInvariant, PTL

(* The graph on the screen is one of the list that the slider goes         *)
(* through: a list that comes in is drawn from at once, at an index that   *)
(* setGraph brings into the list, and no other list is in the view then.   *)
THEOREM ViewsDrawTheirLists == GuiSpec => []DrawsItsList
  <1>1. TabInv => DrawsItsList
    BY DEF TabInv, ViewOK, Drawn, DrawsItsList
  <1>. QED  BY <1>1, TabInvariant, PTL
=============================================================================
