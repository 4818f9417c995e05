----------------------------- MODULE ToolVPProofs -----------------------------
(***************************************************************************)
(* Theorems about ToolVP, for every set of tasks, tools and VPs, every     *)
(* nesting depth and every choice of the tasks that copy a context.        *)
(*                                                                         *)
(* The open calls of a task are a stack, and the invariant says what the   *)
(* tokens in it are: the variable holds the VP of the innermost call, and  *)
(* each call's token is what the variable held below that call, down to    *)
(* the value with which the task started.  RestoredAfterCalls and          *)
(* SendsOwnVP only speak of the top and the bottom of the stack and are    *)
(* not inductive: leaving a call restores whatever its token says.         *)
(***************************************************************************)
EXTENDS ToolVP, SequenceTheorems, TLAPS

\* What a task's variable held when the i-th of its calls c set its own VP, if
\* the task started with the value e.
Below(c, e, i) == IF i = 1 THEN e ELSE c[i - 1].vp

\* The variable holds h, the tokens of the calls c what lies below each.
Stacked(c, h, e) ==
    /\ \A i \in 1..Len(c) : c[i].token = Below(c, e, i)
    /\ h = Below(c, e, Len(c) + 1)

\* A task that does not run has no call, and waits for no VP.
IdleInv == \A t \in Tasks \ live : calls[t] = <<>> /\ signing[t] = None

StackInv == \A t \in Tasks : Stacked(calls[t], header[t], entry[t])

\* Calls of different tasks have different VPs, since each is signed afresh.
FreshInv ==
    /\ \A t \in Tasks : \A i \in 1..Len(calls[t]) : calls[t][i].vp \in issued
    /\ \A t, u \in Tasks : t # u =>
         \A i \in 1..Len(calls[t]), j \in 1..Len(calls[u]) :
           calls[t][i].vp # calls[u][j].vp

Inv == TypeOK /\ IdleInv /\ StackInv /\ SendsOwnVP /\ FreshInv

-----------------------------------------------------------------------------
\* Opening a call leaves the calls below it alone.
LEMMA PushFacts ==
    ASSUME NEW S, NEW s \in Seq(S), NEW e \in S
    PROVE  /\ Append(s, e) \in Seq(S)
           /\ Len(Append(s, e)) = Len(s) + 1
           /\ \A i \in 1..Len(s) : Append(s, e)[i] = s[i]
           /\ Append(s, e)[Len(s) + 1] = e
<1>1. Append(s, e) \in Seq(S)
    OBVIOUS
<1>2. Len(Append(s, e)) = Len(s) + 1 /\ Append(s, e)[Len(s) + 1] = e
    OBVIOUS
<1>3. \A i \in 1..Len(s) : Append(s, e)[i] = s[i]
    OBVIOUS
<1> QED
    BY <1>1, <1>2, <1>3

\* So does leaving one.
LEMMA PopFacts ==
    ASSUME NEW S, NEW s \in Seq(S), s # <<>>
    PROVE  /\ Len(s) \in Nat \ {0}
           /\ SubSeq(s, 1, Len(s) - 1) \in Seq(S)
           /\ Len(SubSeq(s, 1, Len(s) - 1)) = Len(s) - 1
           /\ \A i \in 1..(Len(s) - 1) : SubSeq(s, 1, Len(s) - 1)[i] = s[i]
<1>1. Len(s) \in Nat \ {0}
    OBVIOUS
<1> DEFINE n == Len(s) - 1
<1>2. n \in Nat /\ n <= Len(s)
    BY <1>1
<1>3. \A i \in 1..n : s[i] \in S
    BY <1>2
<1>4. /\ SubSeq(s, 1, n) \in Seq(S)
      /\ Len(SubSeq(s, 1, n)) = IF 1 <= n THEN n - 1 + 1 ELSE 0
      /\ \A i \in 1..(n - 1 + 1) : SubSeq(s, 1, n)[i] = s[1 + i - 1]
    <2>1. 1 \in Int /\ n \in Int
        BY <1>2
    <2> QED
        BY <1>3, <2>1, SubSeqProperties
<1>5. n - 1 + 1 = n /\ \A i \in 1..n : 1 + i - 1 = i
    BY <1>2
<1> QED
    BY <1>1, <1>2, <1>4, <1>5

\* The innermost call is one of the task's calls.
LEMMA InnermostFacts ==
    ASSUME TypeOK, NEW t \in Tasks, InCall(t)
    PROVE  /\ calls[t] \in Seq(Call)
           /\ Len(calls[t]) \in 1..Len(calls[t])
           /\ Innermost(t) = calls[t][Len(calls[t])]
           /\ Innermost(t) \in Call
    BY DEF TypeOK, InCall, Innermost

\* The invariant holds before any task starts.
LEMMA InitInv == Init => Inv
<1> SUFFICES ASSUME Init PROVE Inv
    OBVIOUS
<1>1. TypeOK
    BY DEF Init, TypeOK
<1>2. IdleInv /\ StackInv /\ SendsOwnVP /\ FreshInv
    BY DEF Init, IdleInv, StackInv, Stacked, Below, SendsOwnVP, FreshInv
<1> QED
    BY <1>1, <1>2 DEF Inv

\* What EnterTool does, with the VP that it got.
Entered(t, v, e) ==
    /\ v \in VPs \ issued
    /\ e = [tool |-> signing[t], vp |-> v, token |-> header[t]]
    /\ issued' = issued \cup {v}
    /\ header' = [header EXCEPT ![t] = v]
    /\ calls' = [calls EXCEPT ![t] = Append(calls[t], e)]

\* EnterTool pushes a call whose token is what the variable held.
LEMMA EnterFacts ==
    ASSUME TypeOK, NEW t \in Tasks, EnterTool(t)
    PROVE  \E v \in VPs : \E e \in Call : Entered(t, v, e)
<1>1. PICK v \in VPs \ issued :
          /\ issued' = issued \cup {v}
          /\ header' = [header EXCEPT ![t] = v]
          /\ calls' = [calls EXCEPT ![t] =
                Append(@, [tool |-> signing[t], vp |-> v, token |-> header[t]])]
    BY DEF EnterTool
<1> DEFINE e == [tool |-> signing[t], vp |-> v, token |-> header[t]]
<1>2. e \in Call
    BY DEF TypeOK, EnterTool, Call
<1>3. Entered(t, v, e)
    BY <1>1 DEF Entered
<1> QED
    BY <1>1, <1>2, <1>3

\* Every step preserves the types.
LEMMA NextType == TypeOK /\ [Next]_vars => TypeOK'
<1> SUFFICES ASSUME TypeOK, [Next]_vars PROVE TypeOK'
    OBVIOUS
<1> USE DEF TypeOK
<1>1. ASSUME NEW t \in Tasks, StartThread(t) PROVE TypeOK'
    BY <1>1 DEF StartThread
<1>2. ASSUME NEW t \in Tasks, End(t) PROVE TypeOK'
    BY <1>2 DEF End, Running
<1>3. ASSUME NEW t \in Tasks, NEW u \in Tasks, StartCopy(t, u) PROVE TypeOK'
    BY <1>3 DEF StartCopy
<1>4. ASSUME NEW t \in Tasks, CallTool(t) PROVE TypeOK'
    BY <1>4 DEF CallTool
<1>5. ASSUME NEW t \in Tasks, SignFails(t) PROVE TypeOK'
    BY <1>5 DEF SignFails
<1>6. ASSUME NEW t \in Tasks, EnterTool(t) PROVE TypeOK'
    <2>1. PICK v \in VPs, e \in Call : Entered(t, v, e)
        BY <1>6, EnterFacts
    <2>2. calls' \in [Tasks -> Seq(Call)]
        <3>1. Append(calls[t], e) \in Seq(Call)
            BY <2>1
        <3> QED
            BY <2>1, <3>1 DEF Entered
    <2>3. header' \in [Tasks -> VPs \cup {None}] /\ issued' \subseteq VPs
        BY <2>1 DEF Entered
    <2> QED
        BY <1>6, <2>2, <2>3 DEF EnterTool
<1>7. ASSUME NEW t \in Tasks, Send(t) PROVE TypeOK'
    <2> DEFINE r == [task |-> t, vp |-> header[t],
                     tool |-> IF InCall(t) THEN Innermost(t).tool ELSE None,
                     own |-> IF InCall(t) THEN Innermost(t).vp ELSE None]
    <2>1. InCall(t) => Innermost(t).tool \in Tools /\ Innermost(t).vp \in VPs
        BY InnermostFacts DEF Call
    <2>2. r \in Request
        BY <2>1 DEF Request
    <2>3. sent' = sent \cup {r}
        BY <1>7 DEF Send
    <2> QED
        BY <1>7, <2>2, <2>3 DEF Send
<1>8. ASSUME NEW t \in Tasks, LeaveTool(t) PROVE TypeOK'
    <2>1. Innermost(t).token \in VPs \cup {None}
        BY <1>8, InnermostFacts DEF LeaveTool, Call
    <2>2. SubSeq(calls[t], 1, Len(calls[t]) - 1) \in Seq(Call)
        BY <1>8, PopFacts DEF LeaveTool, InCall
    <2>3. calls' \in [Tasks -> Seq(Call)]
        BY <1>8, <2>2 DEF LeaveTool
    <2>4. header' \in [Tasks -> VPs \cup {None}]
        BY <1>8, <2>1 DEF LeaveTool
    <2> QED
        BY <1>8, <2>3, <2>4 DEF LeaveTool
<1>9. CASE UNCHANGED vars
    BY <1>9 DEF vars
<1> QED
    BY <1>1, <1>2, <1>3, <1>4, <1>5, <1>6, <1>7, <1>8, <1>9 DEF Next

\* The types are an invariant of every instance.
THEOREM ToolVPTypeOK == Spec => []TypeOK
<1>1. Init => TypeOK
    BY InitInv DEF Inv
<1> QED
    BY <1>1, NextType, PTL DEF Spec

-----------------------------------------------------------------------------
\* A step keeps idle tasks without calls: only a running task opens one, and
\* only a task without calls ends.
LEMMA NextIdle == TypeOK /\ IdleInv /\ [Next]_vars => IdleInv'
<1> SUFFICES ASSUME TypeOK, IdleInv, [Next]_vars PROVE IdleInv'
    OBVIOUS
<1> USE DEF TypeOK, IdleInv
<1>1. ASSUME NEW t \in Tasks, StartThread(t) \/ Send(t) PROVE IdleInv'
    BY <1>1 DEF StartThread, Send
<1>2. ASSUME NEW t \in Tasks, End(t) PROVE IdleInv'
    BY <1>2 DEF End, Running, InCall
<1>3. ASSUME NEW t \in Tasks, NEW u \in Tasks, StartCopy(t, u) PROVE IdleInv'
    BY <1>3 DEF StartCopy
<1>4. ASSUME NEW t \in Tasks, CallTool(t) \/ SignFails(t) PROVE IdleInv'
    BY <1>4 DEF CallTool, SignFails, Running
<1>5. ASSUME NEW t \in Tasks, EnterTool(t) PROVE IdleInv'
    <2>1. t \in live /\ live' = live
        BY <1>5 DEF EnterTool
    <2>2. \A u \in Tasks \ {t} : calls'[u] = calls[u] /\ signing'[u] = signing[u]
        BY <1>5 DEF EnterTool
    <2> QED
        BY <2>1, <2>2
<1>6. ASSUME NEW t \in Tasks, LeaveTool(t) PROVE IdleInv'
    BY <1>6 DEF LeaveTool, Running
<1>7. CASE UNCHANGED vars
    BY <1>7 DEF vars
<1> QED
    BY <1>1, <1>2, <1>3, <1>4, <1>5, <1>6, <1>7 DEF Next

\* A task without calls has its entry value; one with calls the innermost VP.
LEMMA StackTop ==
    ASSUME NEW c \in Seq(Call), NEW h, NEW e, Stacked(c, h, e)
    PROVE  IF c = <<>> THEN h = e ELSE h = c[Len(c)].vp
    BY DEF Stacked, Below

\* A task that starts, with any value in its variable.
LEMMA StackStart ==
    ASSUME NEW e
    PROVE  Stacked(<<>>, e, e)
    BY DEF Stacked, Below

\* Opening a call whose token is what the variable holds.
LEMMA StackPush ==
    ASSUME NEW c \in Seq(Call), NEW h, NEW e, Stacked(c, h, e),
           NEW call \in Call, call.token = h
    PROVE  Stacked(Append(c, call), call.vp, e)
<1> DEFINE d == Append(c, call)
           n == Len(c)
<1>1. /\ n \in Nat
      /\ Len(d) = n + 1
      /\ \A i \in 1..n : d[i] = c[i]
      /\ d[n + 1] = call
    BY PushFacts
<1> HIDE DEF d
<1>2. ASSUME NEW i \in 1..(n + 1) PROVE Below(d, e, i) = Below(c, e, i)
    <2>1. i = 1 \/ i - 1 \in 1..n
        BY <1>1
    <2> QED
        BY <1>1, <2>1 DEF Below
<1>3. \A i \in 1..Len(d) : d[i].token = Below(d, e, i)
    <2>1. \A i \in 1..n : d[i].token = Below(d, e, i)
        BY <1>1, <1>2 DEF Stacked
    <2>2. d[n + 1].token = Below(d, e, n + 1)
        BY <1>1, <1>2 DEF Stacked
    <2> QED
        BY <1>1, <2>1, <2>2
<1>4. call.vp = Below(d, e, Len(d) + 1)
    BY <1>1 DEF Below
<1>5. Stacked(d, call.vp, e)
    BY <1>3, <1>4 DEF Stacked
<1> QED
    BY <1>5 DEF d

\* Leaving a call and taking its token's value back.
LEMMA StackPop ==
    ASSUME NEW c \in Seq(Call), c # <<>>, NEW h, NEW e, Stacked(c, h, e)
    PROVE  Stacked(SubSeq(c, 1, Len(c) - 1), c[Len(c)].token, e)
<1> DEFINE n == Len(c)
           d == SubSeq(c, 1, n - 1)
<1>1. /\ n \in Nat \ {0}
      /\ Len(d) = n - 1
      /\ \A i \in 1..(n - 1) : d[i] = c[i]
    BY PopFacts
<1> HIDE DEF d
<1>2. ASSUME NEW i \in 1..n PROVE Below(d, e, i) = Below(c, e, i)
    <2>1. i = 1 \/ i - 1 \in 1..(n - 1)
        BY <1>1
    <2> QED
        BY <1>1, <2>1 DEF Below
<1>3. \A i \in 1..Len(d) : d[i].token = Below(d, e, i)
    BY <1>1, <1>2 DEF Stacked
<1>4. c[n].token = Below(d, e, Len(d) + 1)
    BY <1>1, <1>2 DEF Stacked
<1>5. Stacked(d, c[n].token, e)
    BY <1>3, <1>4 DEF Stacked
<1> QED
    BY <1>5 DEF d

\* The tokens of the open calls stay what lies below them.
LEMMA NextStack == TypeOK /\ IdleInv /\ StackInv /\ [Next]_vars => StackInv'
<1> SUFFICES ASSUME TypeOK, IdleInv, StackInv, [Next]_vars,
                    NEW t \in Tasks
             PROVE  Stacked(calls'[t], header'[t], entry'[t])
    BY DEF StackInv
<1>1. calls[t] \in Seq(Call) /\ Stacked(calls[t], header[t], entry[t])
    BY DEF TypeOK, StackInv
<1>2. CASE calls'[t] = calls[t] /\ header'[t] = header[t] /\ entry'[t] = entry[t]
    BY <1>1, <1>2
<1>3. CASE calls'[t] = <<>> /\ header'[t] = entry'[t]
    BY <1>3, StackStart
<1>4. CASE EnterTool(t)
    <2>1. PICK v \in VPs, e \in Call : Entered(t, v, e)
        BY <1>4, EnterFacts
    <2>2. e.token = header[t] /\ e.vp = v
        BY <2>1 DEF Entered
    <2>3. calls'[t] = Append(calls[t], e) /\ header'[t] = v /\ entry'[t] = entry[t]
        BY <1>4, <2>1 DEF Entered, EnterTool, TypeOK
    <2> QED
        BY <1>1, <2>2, <2>3, StackPush
<1>5. CASE LeaveTool(t)
    <2>1. calls[t] # <<>>
        BY <1>5 DEF LeaveTool, InCall
    <2>2. /\ calls'[t] = SubSeq(calls[t], 1, Len(calls[t]) - 1)
          /\ header'[t] = calls[t][Len(calls[t])].token
          /\ entry'[t] = entry[t]
        BY <1>5 DEF LeaveTool, TypeOK, Innermost
    <2> QED
        BY <1>1, <2>1, <2>2, StackPop
<1>6. ASSUME NEW u \in Tasks, End(u)
      PROVE  \/ calls'[t] = calls[t] /\ header'[t] = header[t] /\ entry'[t] = entry[t]
             \/ calls'[t] = <<>> /\ header'[t] = entry'[t]
    BY <1>6 DEF End, InCall, TypeOK
<1>7. ASSUME NEW u \in Tasks, NEW w \in Tasks, StartCopy(u, w)
      PROVE  \/ calls'[t] = calls[t] /\ header'[t] = header[t] /\ entry'[t] = entry[t]
             \/ calls'[t] = <<>> /\ header'[t] = entry'[t]
    BY <1>7 DEF StartCopy, IdleInv, TypeOK
<1>8. ASSUME NEW u \in Tasks \ {t}, EnterTool(u) \/ LeaveTool(u)
      PROVE  calls'[t] = calls[t] /\ header'[t] = header[t] /\ entry'[t] = entry[t]
    BY <1>8 DEF EnterTool, LeaveTool, TypeOK
<1>9. ASSUME NEW u \in Tasks,
             StartThread(u) \/ Send(u) \/ CallTool(u) \/ SignFails(u)
      PROVE  calls'[t] = calls[t] /\ header'[t] = header[t] /\ entry'[t] = entry[t]
    BY <1>9 DEF StartThread, Send, CallTool, SignFails
<1>10. CASE UNCHANGED vars
    BY <1>1, <1>10 DEF vars
<1> QED
    BY <1>2, <1>3, <1>4, <1>5, <1>6, <1>7, <1>8, <1>9, <1>10 DEF Next

\* A request carries what the variable holds, and inside a call that is the
\* innermost call's VP.
LEMMA NextSends == TypeOK /\ StackInv /\ SendsOwnVP /\ [Next]_vars => SendsOwnVP'
<1> SUFFICES ASSUME TypeOK, StackInv, SendsOwnVP, [Next]_vars PROVE SendsOwnVP'
    OBVIOUS
<1>1. CASE sent' = sent
    BY <1>1 DEF SendsOwnVP
<1>2. ASSUME NEW t \in Tasks, Send(t) PROVE SendsOwnVP'
    <2> DEFINE r == [task |-> t, vp |-> header[t],
                     tool |-> IF InCall(t) THEN Innermost(t).tool ELSE None,
                     own |-> IF InCall(t) THEN Innermost(t).vp ELSE None]
    <2>1. sent' = sent \cup {r}
        BY <1>2 DEF Send
    <2>2. ASSUME InCall(t) PROVE header[t] = Innermost(t).vp
        BY <2>2, InnermostFacts, StackTop DEF StackInv, InCall
    <2>3. r.tool # None => r.vp = r.own
        BY <2>2
    <2> QED
        BY <2>1, <2>3 DEF SendsOwnVP
<1> QED
    BY <1>1, <1>2 DEF Next, StartThread, StartCopy, End, CallTool, SignFails,
                     EnterTool, LeaveTool, vars

\* A VP that is signed afresh is in no open call; a call that is left takes
\* its VP with it.
LEMMA NextFresh == TypeOK /\ FreshInv /\ [Next]_vars => FreshInv'
<1> SUFFICES ASSUME TypeOK, FreshInv, [Next]_vars PROVE FreshInv'
    OBVIOUS
<1>1. CASE calls' = calls /\ issued \subseteq issued'
    BY <1>1 DEF FreshInv
<1>2. ASSUME NEW t \in Tasks, EnterTool(t) PROVE FreshInv'
    <2>1. PICK v \in VPs, e \in Call : Entered(t, v, e)
        BY <1>2, EnterFacts
    <2>2. /\ v \notin issued /\ issued' = issued \cup {v} /\ e.vp = v
          /\ calls' = [calls EXCEPT ![t] = Append(calls[t], e)]
        BY <2>1 DEF Entered
    <2>3. \A u \in Tasks : \A i \in 1..Len(calls'[u]) :
            \/ i \in 1..Len(calls[u]) /\ calls'[u][i] = calls[u][i]
            \/ u = t /\ i = Len(calls[t]) + 1 /\ calls'[u][i] = e
        <3>1. \A u \in Tasks \ {t} : calls'[u] = calls[u]
            BY <2>2
        <3>2. calls'[t] = Append(calls[t], e) /\ calls[t] \in Seq(Call)
            BY <2>2 DEF TypeOK
        <3>3. \A i \in 1..Len(calls'[t]) :
                \/ i \in 1..Len(calls[t]) /\ calls'[t][i] = calls[t][i]
                \/ i = Len(calls[t]) + 1 /\ calls'[t][i] = e
            BY <3>2, PushFacts
        <3> QED
            BY <3>1, <3>3
    <2> QED
        BY <2>2, <2>3 DEF FreshInv
<1>3. ASSUME NEW t \in Tasks, LeaveTool(t) PROVE FreshInv'
    <2>1. /\ issued' = issued /\ calls[t] # <<>>
          /\ calls' = [calls EXCEPT ![t] = SubSeq(calls[t], 1, Len(calls[t]) - 1)]
        BY <1>3 DEF LeaveTool, InCall
    <2>2. \A u \in Tasks : \A i \in 1..Len(calls'[u]) :
            i \in 1..Len(calls[u]) /\ calls'[u][i] = calls[u][i]
        <3>1. \A u \in Tasks \ {t} : calls'[u] = calls[u]
            BY <2>1
        <3>2. calls'[t] = SubSeq(calls[t], 1, Len(calls[t]) - 1) /\ calls[t] \in Seq(Call)
            BY <2>1 DEF TypeOK
        <3>3. \A i \in 1..Len(calls'[t]) :
                i \in 1..Len(calls[t]) /\ calls'[t][i] = calls[t][i]
            BY <2>1, <3>2, PopFacts
        <3> QED
            BY <3>1, <3>3
    <2> QED
        BY <2>1, <2>2 DEF FreshInv
<1> QED
    BY <1>1, <1>2, <1>3 DEF Next, StartThread, StartCopy, End, CallTool, SignFails,
                           Send, vars

\* The invariant is inductive.
LEMMA AlwaysInv == Spec => []Inv
<1>1. Inv /\ [Next]_vars => Inv'
    BY NextType, NextIdle, NextStack, NextSends, NextFresh DEF Inv
<1> QED
    BY InitInv, <1>1, PTL DEF Spec

-----------------------------------------------------------------------------
\* Every request sent inside a wrapped call carries that call's own VP, after
\* any nesting of calls, any exceptions and any interleaving of tasks.
THEOREM ToolVPSendsOwnVP == Spec => []SendsOwnVP
<1>1. Inv => SendsOwnVP
    BY DEF Inv
<1> QED
    BY AlwaysInv, <1>1, PTL

\* Once its calls have ended a task's variable is what it was when the task
\* started: the finally clauses unwind the stack to its bottom.
THEOREM ToolVPRestoredAfterCalls == Spec => []RestoredAfterCalls
<1>1. Inv => RestoredAfterCalls
    <2> SUFFICES ASSUME Inv, NEW t \in Tasks, ~InCall(t) PROVE header[t] = entry[t]
        BY DEF RestoredAfterCalls
    <2>1. calls[t] = <<>> /\ calls[t] \in Seq(Call)
        BY DEF InCall, Inv, TypeOK
    <2> QED
        BY <2>1, StackTop DEF Inv, StackInv
<1> QED
    BY AlwaysInv, <1>1, PTL

\* Two tasks share a VP only when one of them started with it, since the VPs of
\* their own calls were signed one by one.
THEOREM ToolVPNoSharedVP == Spec => []NoSharedVP
<1>1. Inv => NoSharedVP
    <2> SUFFICES ASSUME Inv, NEW t \in Tasks, NEW u \in Tasks, t # u,
                        header[t] = header[u]
                 PROVE  header[t] \in {entry[t], entry[u]}
        BY DEF NoSharedVP
    <2>1. \A x \in Tasks : \/ header[x] = entry[x]
                           \/ \E i \in 1..Len(calls[x]) : header[x] = calls[x][i].vp
        <3> SUFFICES ASSUME NEW x \in Tasks
                     PROVE  \/ header[x] = entry[x]
                            \/ \E i \in 1..Len(calls[x]) : header[x] = calls[x][i].vp
            OBVIOUS
        <3>1. calls[x] # <<>> => Len(calls[x]) \in 1..Len(calls[x])
            BY InnermostFacts DEF Inv, InCall
        <3>2. calls[x] \in Seq(Call) /\ Stacked(calls[x], header[x], entry[x])
            BY DEF Inv, TypeOK, StackInv
        <3> QED
            BY <3>1, <3>2, StackTop
    <2> QED
        BY <2>1 DEF Inv, FreshInv
<1> QED
    BY AlwaysInv, <1>1, PTL

\* Where no task starts with a copied context, the variable is empty outside a
\* wrapped call, as current_helix_vp_headers() says; ToolVPOutlives shows that
\* the hypothesis is needed.
THEOREM ToolVPEmptyOutsideCalls ==
    ASSUME CopyTasks = {}
    PROVE  Spec => []EmptyOutsideCalls
<1> DEFINE Empty == entry = [t \in Tasks |-> None]
<1>1. Init => Empty
    BY DEF Init
<1>2. TypeOK /\ Empty /\ [Next]_vars => Empty'
    BY DEF Next, StartThread, StartCopy, End, CallTool, SignFails, EnterTool,
           LeaveTool, Send, vars
<1>3. Inv /\ Empty => EmptyOutsideCalls
    <2> SUFFICES ASSUME Inv, Empty, NEW t \in Tasks, header[t] # None
                 PROVE  \E u \in Tasks : \E i \in 1..Len(calls[u]) :
                          calls[u][i].vp = header[t]
        BY DEF EmptyOutsideCalls
    <2>1. calls[t] \in Seq(Call) /\ Stacked(calls[t], header[t], entry[t])
        BY DEF Inv, TypeOK, StackInv
    <2>2. calls[t] # <<>> /\ header[t] = calls[t][Len(calls[t])].vp
        BY <2>1, StackTop
    <2>3. Len(calls[t]) \in 1..Len(calls[t])
        BY <2>2, InnermostFacts DEF Inv, InCall
    <2> QED
        BY <2>2, <2>3
<1>4. Inv => TypeOK
    BY DEF Inv
<1> QED
    BY AlwaysInv, <1>1, <1>2, <1>3, <1>4, PTL DEF Spec
=============================================================================
