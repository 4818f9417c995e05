-------------------------------- MODULE ToolVP --------------------------------
(***************************************************************************)
(* The VP of the tool call in progress: src/src/helix_sdk/tool_vp.py and   *)
(* the wrapped tools of helix_langchain and helix_crewai.                  *)
(*                                                                         *)
(* A wrapped tool's _run signs a fresh VP, puts it in a ContextVar, runs   *)
(* the original tool and resets the variable, also when the tool raises.   *)
(* The original tool reads it with current_helix_vp_headers(); it may call *)
(* other wrapped tools and start threads and asyncio tasks.                *)
(*                                                                         *)
(* A task is one flow of control with a context of its own: a thread, a    *)
(* worker of a pool (which serves many calls), an asyncio task.            *)
(***************************************************************************)
EXTENDS Naturals, Sequences

CONSTANTS
    Tasks,
    Tools,      \* wrapped tools: each has its agent, target service and user
    VPs,        \* presentations the server can sign; it never signs one twice
    CopyTasks,  \* tasks started with a copy of their creator's context
                \* (create_task, to_thread); the others start with an empty one
    MaxDepth,   \* bound: wrapped calls open at once in a task
    None        \* no VP in the variable; no call

ASSUME ToolVPAssumption ==
    /\ CopyTasks \subseteq Tasks
    /\ MaxDepth \in Nat
    /\ None \notin VPs \cup Tools

VARIABLES
    live,       \* tasks that run
    header,     \* _current_vp_headers in each task's context
    calls,      \* each task's open wrapped calls, innermost last
    signing,    \* the tool whose VP the task waits for
    issued,     \* VPs signed so far
    entry,      \* history: the variable when the task started
    sent        \* history: protected requests

vars == <<live, header, calls, signing, issued, entry, sent>>

\* An open call: its tool, the VP signed for it and the token, that is the
\* value which reset() restores.
Call == [tool: Tools, vp: VPs, token: VPs \cup {None}]

\* A protected request: who sent it, in which call, with which VP.
Request == [task: Tasks, tool: Tools \cup {None}, vp: VPs \cup {None},
            own: VPs \cup {None}]

Init ==
    /\ live = {}
    /\ header = [t \in Tasks |-> None]
    /\ calls = [t \in Tasks |-> <<>>]
    /\ signing = [t \in Tasks |-> None]
    /\ issued = {}
    /\ entry = [t \in Tasks |-> None]
    /\ sent = {}

InCall(t)    == calls[t] # <<>>
Innermost(t) == calls[t][Len(calls[t])]
Running(t)   == t \in live /\ signing[t] = None

-----------------------------------------------------------------------------
\* A thread, or a worker, with an empty context.
StartThread(t) ==
    /\ t \notin live \cup CopyTasks
    /\ live' = live \cup {t}
    /\ UNCHANGED <<header, calls, signing, issued, entry, sent>>

\* A task that inherits a copy of the creator's context, wherever that stands.
StartCopy(t, u) ==
    /\ Running(t)
    /\ u \in CopyTasks \ live
    /\ live' = live \cup {u}
    /\ header' = [header EXCEPT ![u] = header[t]]
    /\ entry' = [entry EXCEPT ![u] = header[t]]
    /\ UNCHANGED <<calls, signing, issued, sent>>

\* A task ends once its calls have; its context goes with it.
End(t) ==
    /\ Running(t)
    /\ ~InCall(t)
    /\ live' = live \ {t}
    /\ header' = [header EXCEPT ![t] = None]
    /\ entry' = [entry EXCEPT ![t] = None]
    /\ UNCHANGED <<calls, signing, issued, sent>>

\* _run asks the API for a VP, and waits: other tasks go on.
CallTool(t) ==
    /\ Running(t)
    /\ Len(calls[t]) < MaxDepth
    /\ \E w \in Tools : signing' = [signing EXCEPT ![t] = w]
    /\ UNCHANGED <<live, header, calls, issued, entry, sent>>

\* sign_vp raises: nothing was set and nothing is reset. If it was the answer
\* that went missing, the server has signed a VP which nobody gets.
SignFails(t) ==
    /\ signing[t] # None
    /\ signing' = [signing EXCEPT ![t] = None]
    /\ \/ issued' = issued
       \/ \E lost \in VPs \ issued : issued' = issued \cup {lost}
    /\ UNCHANGED <<live, header, calls, entry, sent>>

\* Mutant: the header is kept in a module global, which every task sees.
EnterTool_Global(t) ==
    /\ signing[t] # None
    /\ \E v \in VPs \ issued :
         /\ issued' = issued \cup {v}
         /\ header' = [u \in Tasks |-> v]
         /\ calls' = [calls EXCEPT ![t] =
                        Append(@, [tool |-> signing[t], vp |-> v, token |-> header[t]])]
    /\ signing' = [signing EXCEPT ![t] = None]
    /\ UNCHANGED <<live, entry, sent>>

\* Mutant: an answer without a VP is taken for one (get in place of []).
EnterTool_NoVP(t) ==
    /\ signing[t] # None
    /\ header' = [header EXCEPT ![t] = None]
    /\ calls' = [calls EXCEPT ![t] =
                   Append(@, [tool |-> signing[t], vp |-> None, token |-> header[t]])]
    /\ signing' = [signing EXCEPT ![t] = None]
    /\ UNCHANGED <<live, issued, entry, sent>>

\* The VP arrives; helix_vp_context sets it and the original tool starts.
EnterTool(t) ==
    /\ signing[t] # None
    /\ \E v \in VPs \ issued :
         /\ issued' = issued \cup {v}
         /\ header' = [header EXCEPT ![t] = v]
         /\ calls' = [calls EXCEPT ![t] =
                        Append(@, [tool |-> signing[t], vp |-> v, token |-> header[t]])]
    /\ signing' = [signing EXCEPT ![t] = None]
    /\ UNCHANGED <<live, entry, sent>>

\* The tool reads current_helix_vp_headers() and sends its request.
Send(t) ==
    /\ Running(t)
    /\ sent' = sent \cup
         {[task |-> t, vp |-> header[t],
           tool |-> IF InCall(t) THEN Innermost(t).tool ELSE None,
           own |-> IF InCall(t) THEN Innermost(t).vp ELSE None]}
    /\ UNCHANGED <<live, header, calls, signing, issued, entry>>

\* Mutant: set({}) in place of reset(token).
LeaveTool_Clear(t) ==
    /\ Running(t)
    /\ InCall(t)
    /\ header' = [header EXCEPT ![t] = None]
    /\ calls' = [calls EXCEPT ![t] = SubSeq(@, 1, Len(@) - 1)]
    /\ UNCHANGED <<live, signing, issued, entry, sent>>

\* Mutant: no finally, so that a tool which raises leaves its VP behind.
LeaveTool_NoFinally(t) ==
    /\ Running(t)
    /\ InCall(t)
    /\ header' \in {header, [header EXCEPT ![t] = Innermost(t).token]}
    /\ calls' = [calls EXCEPT ![t] = SubSeq(@, 1, Len(@) - 1)]
    /\ UNCHANGED <<live, signing, issued, entry, sent>>

\* The original tool returns or raises; either way the finally clause restores
\* the token's value. Who called _run, a wrapped tool perhaps, goes on.
LeaveTool(t) ==
    /\ Running(t)
    /\ InCall(t)
    /\ header' = [header EXCEPT ![t] = Innermost(t).token]
    /\ calls' = [calls EXCEPT ![t] = SubSeq(@, 1, Len(@) - 1)]
    /\ UNCHANGED <<live, signing, issued, entry, sent>>

Next ==
    \E t \in Tasks :
      \/ StartThread(t) \/ End(t)
      \/ \E u \in Tasks : StartCopy(t, u)
      \/ CallTool(t) \/ SignFails(t) \/ EnterTool(t)
      \/ Send(t)
      \/ LeaveTool(t)

Spec == Init /\ [][Next]_vars

-----------------------------------------------------------------------------
\* Every variable has its type.
TypeOK ==
    /\ live \subseteq Tasks
    /\ header \in [Tasks -> VPs \cup {None}]
    /\ calls \in [Tasks -> Seq(Call)]
    /\ signing \in [Tasks -> Tools \cup {None}]
    /\ issued \subseteq VPs
    /\ entry \in [Tasks -> VPs \cup {None}]
    /\ sent \subseteq Request

\* Every request sent inside a wrapped call carries that call's own VP: not an
\* outer or an earlier call's, nor another task's, whatever raised on the way.
SendsOwnVP == \A r \in sent : r.tool # None => r.vp = r.own

\* Between wrapped calls a task's variable is what it was when the task
\* started, so that a pooled worker takes no VP into its next job.
RestoredAfterCalls == \A t \in Tasks : ~InCall(t) => header[t] = entry[t]

\* No two tasks have the same VP in their variable unless one of them started
\* with a copy, directly or not, of a context that had it.
NoSharedVP ==
    \A t, u \in Tasks :
      t # u /\ header[t] = header[u] /\ header[t] # None =>
        header[t] \in {entry[t], entry[u]}

\* tool_vp.py:57-58: "The headers to send with the protected request made
\* inside a wrapped tool ... Empty outside a wrapped call": what a task sees is
\* the VP of a call that is open.
EmptyOutsideCalls ==
    \A t \in Tasks : header[t] # None =>
      \E u \in Tasks : \E i \in 1..Len(calls[u]) : calls[u][i].vp = header[t]
=============================================================================
