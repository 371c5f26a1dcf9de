----------------------------- MODULE Ownership -----------------------------
(***************************************************************************)
(* The ownership discipline of the compiler: the flow analysis that        *)
(* accepts or rejects a function body (compiler/src/sema.cpp), the drop    *)
(* lists it computes, and the C that compiler/src/codegen.cpp emits from   *)
(* them.                                                                   *)
(*                                                                         *)
(* First the analyser walks a body, one statement after the other; an      *)
(* action is enabled only where the analyser reports nothing, so every     *)
(* body the model writes is one its flow analysis accepts.  Then the       *)
(* emitted code runs: conditions go either way, owners are pointers that a *)
(* move clears, and drops are guarded by the pointer.                      *)
(***************************************************************************)
EXTENDS Integers, Sequences, SequencesExt

CONSTANTS
    Bodies,     \* the bodies examined: the parameters, the bindings the
                \* body starts with, the kinds of the later ones, the
                \* statement forms, and a bound on statements and block ends
    MaxLocals,  \* bound: locals of a body
    MaxRounds   \* bound: loop rounds of an execution

(* What a local's type asks for: "own" when requiresDrop, "result" when    *)
(* isResult; "var" for a mutableBinding, which a parameter is not.  A      *)
(* "hidden" local is the compiler's own and has no name in the program.    *)
ASSUME BodiesAssumption ==
    \A b \in Bodies : /\ b.params \in Seq(SUBSET {"own", "result"})
                      /\ b.first \in Seq(SUBSET {"own", "result", "var"})
                      /\ b.kinds \subseteq SUBSET {"own", "result", "var"}
                      /\ Len(b.params \o b.first) <= MaxLocals /\ b.size \in Nat
ASSUME BoundsAssumption == MaxLocals \in Nat /\ MaxRounds \in Nat

VARIABLES
    body,       \* which bodies this behaviour is about
    kinds,      \* model_.functions[..].locals: the kind of each local
    flow,       \* moveStates_, resultOutstanding_ and loanStates_
    scopes,     \* scopes_, outermost first
    frames,     \* the blocks being analysed, innermost first
    jumps,      \* loopJumps_
    code,       \* the body, with the drops the analysis attached
    pc,         \* 0 while the body is analysed, then the statement that runs
    ended,      \* how the execution ended
    slot,       \* run time: the object a local points to, 0 for NULL
    heap,       \* run time: the objects that were not freed
    unread,     \* run time: the local holds a Result nothing has looked at
    borrows,    \* run time: the sequences the running loops iterate
    rounds

analysis == <<body, kinds, flow, scopes, frames, jumps, code>>
execution == <<slot, heap, unread, borrows, rounds, ended>>
vars == <<analysis, pc, execution>>

Locals == 1 .. MaxLocals
Objects == 1 .. 2 * MaxLocals
Null == 0

Owned(v) == "own" \in kinds[v]
MustUse(v) == "result" \in kinds[v]
Mutable(v) == "var" \in kinds[v]
Declared == 1 .. Len(kinds)
Visible == UNION Range(scopes)

NoFlow == [move |-> [v \in Locals |-> "Available"],
           due  |-> [v \in Locals |-> FALSE],
           loan |-> [v \in Locals |-> "None"]]

(* The innermost frame is a block of one of these constructs; `before' is  *)
(* `outer' the scopes around it, `base' those a jump leaves alone, `arms'  *)
(* the arms already analysed.                                              *)
Frame(form, at, base) ==
    [form |-> form, at |-> at, outer |-> Len(scopes), base |-> base, count |-> Len(kinds),
     jumps |-> jumps, before |-> flow, arms |-> <<>>, returns |-> FALSE]

(* A statement; `forgets' marks the ones whose effect the analysis does    *)
(* not follow, and is read by the properties only.                         *)
Token(op, v) ==
    [op |-> op, local |-> v, from |-> 0, drops |-> {}, leaves |-> {}, loop |-> 0,
     exit |-> 0, arms |-> <<>>, skip |-> FALSE, forgets |-> FALSE]

(* Locals of the kinds ks are added after n others, each with its value.   *)
Declares(n, ks) == [i \in DOMAIN ks |-> Token("declare", n + i)]
MustHandle(kind) == "result" \in kind /\ "hidden" \notin kind
Born(f, n, ks) ==
    [f EXCEPT !.due = [v \in Locals |-> @[v] \/ (v - n \in DOMAIN ks /\ MustHandle(ks[v - n]))]]

(* The parameters, then the declarations a body starts with.               *)
Init ==
    /\ body \in Bodies /\ kinds = body.params \o body.first
    /\ flow = Born(NoFlow, 0, kinds)
    /\ scopes = <<1 .. Len(kinds)>>
    /\ frames = <<[form |-> "function", at |-> 0, outer |-> 0, base |-> 0, count |-> Len(kinds),
                   jumps |-> 0, before |-> NoFlow, arms |-> <<>>, returns |-> FALSE]>>
    /\ jumps = 0 /\ code = Declares(Len(body.params), body.first) /\ pc = 0 /\ ended = "no"
    /\ slot = [v \in Locals |-> IF v \in DOMAIN body.params /\ Owned(v) THEN v ELSE Null]
    /\ heap = {v \in DOMAIN body.params : Owned(v)}
    /\ unread = Born(NoFlow, 0, body.params).due
    /\ borrows = {} /\ rounds = 0

-----------------------------------------------------------------------------
(* The analysis of a use.                                                  *)

(* A name may be inspected (FDN2073, FDN2065, FDN2066) ...                 *)
Readable(v) ==
    /\ v \in Visible /\ "hidden" \notin kinds[v]
    /\ flow.loan[v] # "Edit"
    /\ Owned(v) => flow.move[v] = "Available"

(* ... and consumed (FDN2067).                                             *)
Consumable(v) == Readable(v) /\ (Owned(v) => flow.loan[v] = "None")

(* Any mention of a Result handles it.                                     *)
Inspected(f, v) == [f EXCEPT !.due[v] = FALSE]
Consumed(f, v) ==
    [Inspected(f, v) EXCEPT !.move[v] = IF Owned(v) THEN "Moved" ELSE @]
Given(f, v) == [f EXCEPT !.move[v] = "Available", !.due[v] = MustUse(v)]

(* addLocal into the innermost scope.                                      *)
Added(kind, f) ==
    /\ Len(kinds) < MaxLocals
    /\ kinds' = Append(kinds, kind)
    /\ scopes' = [scopes EXCEPT ![Len(scopes)] = @ \cup {Len(kinds) + 1}]
    /\ flow' = Born(f, Len(kinds), <<kind>>)

(* scopeDrops, activeDrops and activeDropsFrom: the owners among the       *)
(* locals of the scopes above the first n.                                 *)
LocalsFrom(n) == UNION {scopes[i] : i \in n + 1 .. Len(scopes)}
DropsFrom(n) == {v \in LocalsFrom(n) : Owned(v)}

(* reportScope and reportScopesFrom report nothing (FDN2052).              *)
HandledFrom(n) == \A v \in LocalsFrom(n) : ~flow.due[v]

Analysing == pc = 0 /\ Len(code) < body.size
Has(form) == Analysing /\ form \in body.forms

(* What every statement does: the analysed statement joins the body, and a *)
(* statement that leaves the block marks it as returning.                  *)
Statement(token, returns) ==
    /\ code' = Append(code, token)
    /\ frames' = [frames EXCEPT ![1].returns = @ \/ returns]

-----------------------------------------------------------------------------
(* The analysis of a statement.                                            *)

(* const v = own ..., or a call; const v = w.                              *)
Declare(kind) ==
    /\ Has("declare")
    /\ Added(kind, flow)
    /\ Statement(Token("declare", Len(kinds) + 1), FALSE)
    /\ UNCHANGED <<body, jumps, pc, execution>>

DeclareFrom(w, kind) ==
    /\ Has("declare") /\ Consumable(w)
    /\ kind \ {"var"} = kinds[w] \ {"var"}
    /\ Added(kind, Consumed(flow, w))
    /\ Statement([Token("declare", Len(kinds) + 1) EXCEPT !.from = w], FALSE)
    /\ UNCHANGED <<body, jumps, pc, execution>>

(* A call with $v, an own method, discard v.                               *)
Consume(v) ==
    /\ Has("consume") /\ Consumable(v)
    /\ flow' = Consumed(flow, v)
    /\ Statement(Token("consume", v), FALSE)
    /\ UNCHANGED <<body, kinds, scopes, jumps, pc, execution>>

(* A call with v, a match on v.                                            *)
Read(v) ==
    /\ Has("read") /\ Readable(v)
    /\ flow' = Inspected(flow, v)
    /\ Statement(Token("read", v), FALSE)
    /\ UNCHANGED <<body, kinds, scopes, jumps, pc, execution>>

(* v = ... with a new value (FDN2013, FDN2075, FDN2052).                   *)
MutAssignable(v) == v \in Visible /\ Mutable(v) /\ ~(MustUse(v) /\ flow.due[v])
Assignable(v) ==
    /\ v \in Visible /\ Mutable(v)
    /\ flow.loan[v] = "None"
    /\ ~(MustUse(v) /\ flow.due[v])
Assign(v) ==
    /\ Has("assign") /\ Assignable(v)
    /\ flow' = Given(flow, v)
    /\ Statement(Token("assign", v), FALSE)
    /\ UNCHANGED <<body, kinds, scopes, jumps, pc, execution>>

(* discard (replace v with ...) (FDN2135, FDN2075).                        *)
Replace(v) ==
    /\ Has("replace") /\ Readable(v) /\ Mutable(v) /\ flow.loan[v] = "None"
    /\ flow' = Given(flow, v)
    /\ Statement(Token("replace", v), FALSE)
    /\ UNCHANGED <<body, kinds, scopes, jumps, pc, execution>>

(* v.field = ... (FDN2077): v is inspected, and a view loan of it is not   *)
(* looked at.                                                              *)
EditPlace(v) ==
    /\ Has("edit") /\ Readable(v) /\ Mutable(v) /\ Owned(v)
    /\ flow' = Inspected(flow, v)
    /\ Statement([Token("edit", v) EXCEPT !.forgets = flow.loan[v] # "None"], FALSE)
    /\ UNCHANGED <<body, kinds, scopes, jumps, pc, execution>>

(* return, and return w.                                                   *)
Return(w) ==
    /\ Has("return") /\ (w # 0 => Consumable(w))
    /\ LET f == IF w = 0 THEN flow ELSE Consumed(flow, w)
       IN (\A v \in Declared : ~f.due[v]) /\ flow' = f
    /\ Statement([Token("return", w) EXCEPT !.drops = DropsFrom(0), !.leaves = Visible], TRUE)
    /\ UNCHANGED <<body, kinds, scopes, jumps, pc, execution>>

Panic ==
    /\ Has("panic")
    /\ flow' = [flow EXCEPT !.due = NoFlow.due]
    /\ Statement(Token("panic", 0), TRUE)
    /\ UNCHANGED <<body, kinds, scopes, jumps, pc, execution>>

(* break and continue drop the scopes above loopScopeBases_.back().  What  *)
(* was moved on the way to them takes part in no merge.                    *)
Unmoved(frame) == \A v \in 1 .. frame.count : flow.move[v] = frame.before.move[v]
LoopAt(i) == frames[i].form \in {"while", "for"} /\ \A j \in 1 .. i - 1 : frames[j].form \notin {"while", "for"}
MutJumpBase(i) == Len(scopes) - 1
JumpBase(i) == frames[i].base
Jump(op, i) ==
    /\ Has(op) /\ LoopAt(i)
    /\ HandledFrom(JumpBase(i))
    /\ jumps' = jumps + 1
    /\ Statement([Token(op, 0) EXCEPT !.drops = DropsFrom(JumpBase(i)), !.leaves = LocalsFrom(frames[i].base),
                                      !.loop = frames[i].at, !.forgets = ~Unmoved(frames[i])], TRUE)
    /\ UNCHANGED <<body, kinds, flow, scopes, pc, execution>>

-----------------------------------------------------------------------------
(* The analysis of a construct: analyzeBlock with the saved flow.          *)

(* The end of a block: its scope is reported and goes, its drops stay.     *)
EndToken(op) ==
    [Token(op, 0) EXCEPT !.drops = DropsFrom(Len(scopes) - 1), !.leaves = scopes[Len(scopes)]]

(* restoreMoves, restoreOutstanding, restoreLoans: what a construct leaves *)
(* is about the locals it started with.                                    *)
Cut(f, n) == [move |-> [v \in Locals |-> IF v <= n THEN f.move[v] ELSE "Available"],
              due  |-> [v \in Locals |-> v <= n /\ f.due[v]],
              loan |-> [v \in Locals |-> IF v <= n THEN f.loan[v] ELSE "None"]]

(* A construct starts: what it holds itself gets a scope around it, what   *)
(* its block binds is in the block's scope.                                *)
Open(form, held, token, f, bound) ==
    /\ LET n == Len(kinds)
           m == n + Len(held)
           outer == IF held = <<>> THEN scopes ELSE Append(scopes, n + 1 .. m)
       IN /\ m + Len(bound) <= MaxLocals
          /\ kinds' = kinds \o held \o bound
          /\ scopes' = Append(outer, m + 1 .. m + Len(bound))
          /\ flow' = Born(f, n, held \o bound)
          /\ code' = code \o Declares(n, held) \o <<token>> \o Declares(m, bound)
          /\ frames' = <<Frame(form, Len(code) + Len(held) + 1, Len(outer))>> \o frames
    /\ UNCHANGED <<body, jumps, pc, execution>>

(* The enclosing block after a construct whose flow is f; the construct's  *)
(* head learns where it ends.                                              *)
Close(token, f, returns) ==
    /\ code' = Append([code EXCEPT ![frames[1].at].exit = Len(code) + 1,
                                   ![frames[1].at].skip = Len(frames[1].arms) = 0], token)
    /\ frames' = [Tail(frames) EXCEPT ![1].returns = @ \/ returns]
    /\ flow' = f
    /\ scopes' = SubSeq(scopes, 1, frames[1].outer)
    /\ UNCHANGED <<body, kinds, jumps, pc, execution>>

Arm == [returns |-> frames[1].returns, flow |-> Cut(flow, frames[1].count)]

(* The first arm of an if, a match or a select; what the arm of a match or *)
(* a select binds is its first declaration.                                *)
Branching == {"if", "match", "select"}
OpenBranch(form, bound) ==
    /\ Has(form) /\ (form = "if" => bound = <<>>)
    /\ Open(form, <<>>, [Token("branch", 0) EXCEPT !.arms = <<Len(code) + 1>>], flow, bound)

(* else, or the next arm of a match or a select: from the flow before.     *)
NextArm(bound) ==
    /\ Analysing /\ frames[1].form \in Branching
    /\ frames[1].form = "if" => frames[1].arms = <<>> /\ bound = <<>>
    /\ Len(kinds) + Len(bound) <= MaxLocals
    /\ HandledFrom(Len(scopes) - 1)
    /\ code' = Append([code EXCEPT ![frames[1].at].arms = Append(@, Len(code) + 1)],
                      [EndToken("arm") EXCEPT !.loop = frames[1].at]) \o Declares(Len(kinds), bound)
    /\ frames' = [frames EXCEPT ![1].arms = Append(@, Arm), ![1].returns = FALSE]
    /\ kinds' = kinds \o bound
    /\ flow' = Born(frames[1].before, Len(kinds), bound)
    /\ scopes' = [scopes EXCEPT ![Len(scopes)] = Len(kinds) + 1 .. Len(kinds) + Len(bound)]
    /\ UNCHANGED <<body, jumps, pc, execution>>

(* mergeMoves, mergeLoans and the merge of the outstanding Results over    *)
(* the arms that go on.                                                    *)
Going(arms) == {i \in DOMAIN arms : ~arms[i].returns}
MutMergeMoves(before, arms) ==
    [v \in Locals |-> IF Going(arms) = {} THEN before.move[v]
                      ELSE arms[CHOOSE i \in Going(arms) : \A j \in Going(arms) : j <= i].flow.move[v]]
MergeMoves(before, arms) ==
    [v \in Locals |->
        LET states == {arms[i].flow.move[v] : i \in Going(arms)}
        IN IF states = {} THEN before.move[v]
           ELSE IF \E s \in states : states = {s} THEN CHOOSE s \in states : TRUE
           ELSE "MaybeMoved"]
MutMergeDue(form, before, arms) ==
    [v \in Locals |-> Going(arms) # {} /\ \A i \in Going(arms) : arms[i].flow.due[v]]
MergeDue(form, before, arms) ==
    [v \in Locals |-> \/ \E i \in Going(arms) : arms[i].flow.due[v]
                      \/ form = "select" /\ Going(arms) = {} /\ before.due[v]]
MergeLoan(before, arms) ==
    [v \in Locals |->
        LET loans == {arms[i].flow.loan[v] : i \in Going(arms)}
        IN IF loans = {} THEN before.loan[v]
           ELSE IF "Edit" \in loans THEN "Edit" ELSE IF "View" \in loans THEN "View" ELSE "None"]

(* An if without else goes on from the flow before it.                     *)
CloseBranch ==
    /\ Analysing /\ frames[1].form \in Branching
    /\ frames[1].form # "if" => frames[1].arms # <<>>
    /\ HandledFrom(Len(scopes) - 1)
    /\ LET before == frames[1].before
           arms == Append(frames[1].arms, Arm)
           all == IF Len(arms) = 1 THEN Append(arms, [returns |-> FALSE, flow |-> before]) ELSE arms
       IN Close(EndToken("end"),
                [move |-> MergeMoves(before, all), due |-> MergeDue(frames[1].form, before, all),
                 loan |-> MergeLoan(before, all)],
                Going(all) = {})

(* const v = call() else e { ... }: the error is a local of the block,     *)
(* without a name if the program gives it none; the block must exit        *)
(* (FDN2054), then v is bound in the flow before it.                       *)
OpenGuard(error, named) ==
    /\ Has("guard")
    /\ LET bound == IF named THEN error ELSE [i \in DOMAIN error |-> error[i] \cup {"hidden"}]
       IN Open("guard", <<>>, Token("guard", 0), flow, bound)

CloseGuard(kind) ==
    /\ Analysing /\ frames[1].form = "guard" /\ frames[1].returns
    /\ Len(kinds) < MaxLocals
    /\ HandledFrom(Len(scopes) - 1)
    /\ LET v == Len(kinds) + 1
           outer == Front(scopes)
       IN /\ kinds' = Append(kinds, kind)
          /\ scopes' = [outer EXCEPT ![Len(outer)] = @ \cup {v}]
          /\ flow' = Born(Cut(frames[1].before, frames[1].count), Len(kinds), <<kind>>)
          /\ code' = Append([code EXCEPT ![frames[1].at].exit = Len(code) + 1], Token("declare", v))
    /\ frames' = Tail(frames)
    /\ UNCHANGED <<body, jumps, pc, execution>>

OpenWhile == Has("while") /\ Open("while", <<>>, Token("while", 0), flow, <<>>)

(* for ... in v borrows the root of the sequence for the body (FDN2073):   *)
(* an edit loan of a mutable place (FDN2202) if its elements are edited or *)
(* it is an iterator.  The value is a local of each round that owns what   *)
(* an iterator produces; of a sequence it is a view, an edit or a copy.    *)
OpenFor(v, loan, value) ==
    /\ Has("for") /\ Readable(v) /\ Owned(v)
    /\ loan = "Edit" => Mutable(v) /\ flow.loan[v] = "None"
    /\ loan = "View" => \A i \in DOMAIN value : "own" \notin value[i]
    /\ Open("for", <<>>, Token("for", v),
            [flow EXCEPT !.loan[v] = IF loan = "Edit" THEN loan ELSE IF @ = "None" THEN loan ELSE @], value)

(* An iterator that is no place is held by the loop, in a scope around the *)
(* rounds', and is dropped when the loop is left.                          *)
OpenIterator(value) ==
    /\ Has("for")
    /\ LET s == Len(kinds) + 1
       IN Open("for", <<{"own", "hidden"}>>, [Token("for", s) EXCEPT !.drops = {s}], flow, value)

(* The body is analysed once; it must leave every outer local as it was    *)
(* (FDN2079), unless it never reaches its end or a jump.                   *)
LoopKeeps(frame) == (~frame.returns \/ jumps # frame.jumps) => Unmoved(frame)
CloseLoop ==
    /\ Analysing /\ frames[1].form \in {"while", "for"}
    /\ HandledFrom(frames[1].outer) /\ LoopKeeps(frames[1])
    /\ LET before == frames[1].before
       IN Close([EndToken("loop end") EXCEPT !.loop = frames[1].at],
                [before EXCEPT !.due = [v \in Locals |-> v <= frames[1].count /\ (@[v] \/ flow.due[v])]],
                FALSE)

(* The end of the function's body; the emitted code is called.             *)
CloseFunction ==
    /\ pc = 0 /\ Len(frames) = 1 /\ HandledFrom(0)
    /\ code' = Append(code, [EndToken("return") EXCEPT !.drops = DropsFrom(0)])
    /\ pc' = 1
    /\ UNCHANGED <<body, kinds, flow, scopes, frames, jumps, execution>>

-----------------------------------------------------------------------------
(* The emitted code.                                                       *)

Running(op) == pc > 0 /\ ended = "no" /\ code[pc].op = op
Here == code[pc]
Goto(target) == pc' = target /\ UNCHANGED <<analysis, ended>>
Fresh(h) == CHOOSE o \in Objects : o \notin h \cup {b.object : b \in borrows}

(* emitDrops: the guarded drop of each local frees and clears it.          *)
Dropped(S) == [v \in Locals |-> IF v \in S THEN Null ELSE slot[v]]
Freed(S) == heap \ {slot[v] : v \in S}
EmitDrops(S) == slot' = Dropped(S) /\ heap' = Freed(S) /\ UNCHANGED unread

(* emitMove copies the pointer and clears its source.                      *)
Taken(w) == [slot EXCEPT ![w] = Null]

RunDeclare ==
    /\ Running("declare") /\ Goto(pc + 1)
    /\ LET v == Here.local
           w == Here.from
           o == Fresh(heap)
       IN /\ IF w # 0 THEN slot' = [Taken(w) EXCEPT ![v] = slot[w]] /\ UNCHANGED heap
             ELSE IF Owned(v) THEN slot' = [slot EXCEPT ![v] = o] /\ heap' = heap \cup {o}
             ELSE UNCHANGED <<slot, heap>>
          /\ unread' = [u \in Locals |-> IF u = v THEN MustHandle(kinds[v]) ELSE u # w /\ unread[u]]
    /\ UNCHANGED <<borrows, rounds>>

RunConsume ==
    /\ Running("consume") /\ Goto(pc + 1)
    /\ slot' = Taken(Here.local) /\ heap' = heap \ {slot[Here.local]}
    /\ unread' = [unread EXCEPT ![Here.local] = FALSE]
    /\ UNCHANGED <<borrows, rounds>>

RunRead ==
    /\ Running("read") /\ Goto(pc + 1)
    /\ unread' = [unread EXCEPT ![Here.local] = FALSE]
    /\ UNCHANGED <<slot, heap, borrows, rounds>>

(* The value, the drop of the target, the store; an edit does the same to  *)
(* what the object holds.                                                  *)
RunAssign ==
    /\ Running("assign") \/ Running("replace") \/ Running("edit")
    /\ Goto(pc + 1)
    /\ LET v == Here.local
           o == Fresh(heap)
       IN /\ IF Owned(v) THEN slot' = [slot EXCEPT ![v] = o] /\ heap' = Freed({v}) \cup {o}
             ELSE UNCHANGED <<slot, heap>>
          /\ unread' = [unread EXCEPT ![v] = MustUse(v) /\ Here.op # "edit"]
    /\ UNCHANGED <<borrows, rounds>>

(* The value goes to the caller before the drops.                          *)
RunReturn ==
    /\ Running("return")
    /\ LET S == Here.drops \cup (IF Here.local = 0 THEN {} ELSE {Here.local})
       IN slot' = Dropped(S) /\ heap' = Freed(S)
    /\ unread' = [v \in Locals |-> v # Here.local /\ unread[v]]
    /\ borrows' = {} /\ ended' = "returned"
    /\ UNCHANGED <<analysis, pc, rounds>>

RunPanic ==
    /\ Running("panic") /\ ended' = "panicked"
    /\ UNCHANGED <<analysis, pc, slot, heap, unread, borrows, rounds>>

(* An arm is chosen; its end, or the next arm's start, drops its locals.   *)
RunBranch ==
    /\ Running("branch")
    /\ \/ \E i \in DOMAIN Here.arms : Goto(Here.arms[i] + 1)
       \/ Here.skip /\ Goto(Here.exit + 1)
    /\ UNCHANGED <<slot, heap, unread, borrows, rounds>>

RunArmEnd ==
    /\ \/ Running("arm") /\ Goto(code[Here.loop].exit + 1)
       \/ Running("end") /\ Goto(pc + 1)
    /\ EmitDrops(Here.drops)
    /\ UNCHANGED <<borrows, rounds>>

RunGuard ==
    /\ Running("guard")
    /\ Goto(pc + 1) \/ Goto(Here.exit)
    /\ UNCHANGED <<slot, heap, unread, borrows, rounds>>

(* The head of a loop: a for evaluates its sequence when it is entered,    *)
(* and drops the iterator it holds when it is left.                        *)
Borrowed(at) == {b \in borrows : b.at = at}
RunLoop ==
    /\ Running("while") \/ Running("for")
    /\ \/ /\ rounds < MaxRounds /\ rounds' = rounds + 1 /\ Goto(pc + 1) /\ EmitDrops({})
          /\ borrows' = IF Here.op = "for" /\ Borrowed(pc) = {}
                        THEN borrows \cup {[at |-> pc, object |-> slot[Here.local]]} ELSE borrows
       \/ /\ Goto(Here.exit + 1) /\ borrows' = borrows \ Borrowed(pc)
          /\ EmitDrops(Here.drops) /\ UNCHANGED rounds

RunBack ==
    /\ Running("loop end") \/ Running("continue")
    /\ EmitDrops(Here.drops) /\ Goto(Here.loop)
    /\ UNCHANGED <<borrows, rounds>>

RunBreak ==
    /\ Running("break")
    /\ EmitDrops(Here.drops \cup code[Here.loop].drops) /\ Goto(code[Here.loop].exit + 1)
    /\ borrows' = borrows \ Borrowed(Here.loop)
    /\ UNCHANGED rounds

-----------------------------------------------------------------------------
(* What a construct binds for its block: nothing, or one const.            *)
Bindings == {<<>>} \cup {<<kind>> : kind \in {k \in body.kinds : "var" \notin k}}

Analyse ==
    \/ \E kind \in body.kinds : \/ Declare(kind) \/ CloseGuard(kind)
                                \/ \E w \in Locals : DeclareFrom(w, kind)
    \/ \E v \in Locals : Consume(v) \/ Read(v) \/ Assign(v) \/ Replace(v) \/ EditPlace(v)
    \/ \E w \in 0 .. MaxLocals : Return(w)
    \/ Panic
    \/ \E op \in {"break", "continue"}, i \in 1 .. Len(frames) : Jump(op, i)
    \/ \E bound \in Bindings :
          \/ \E form \in Branching : OpenBranch(form, bound)
          \/ NextArm(bound)
          \/ \E named \in BOOLEAN : OpenGuard(bound, named)
          \/ \E v \in Locals, loan \in {"View", "Edit"} : OpenFor(v, loan, bound)
          \/ OpenIterator(bound)
    \/ CloseBranch \/ OpenWhile \/ CloseLoop \/ CloseFunction

Execute ==
    \/ RunDeclare \/ RunConsume \/ RunRead \/ RunAssign \/ RunReturn \/ RunPanic
    \/ RunBranch \/ RunArmEnd \/ RunGuard \/ RunLoop \/ RunBack \/ RunBreak

Next == Analyse \/ Execute

Spec == Init /\ [][Next]_vars

-----------------------------------------------------------------------------
(* What acceptance promises about the emitted code.                        *)

Live == pc > 0 /\ ended = "no"
Used == {Here.from} \cup
        (IF Here.op \in {"consume", "read", "replace", "edit", "for", "return"} THEN {Here.local} ELSE {})

(* Using a moved place is a compile-time error (docs/language.md:720): a   *)
(* statement of an accepted body that uses an owner finds it there,        *)
(* whichever branches and rounds led to it.                                *)
UsesFindValue == Live => \A v \in Used \ {0} : Owned(v) => slot[v] # Null

(* No Result is replaced, or leaves its scope, before anything looked at   *)
(* it (docs/language.md:768).                                              *)
ResultsAreHandled ==
    Live => /\ Here.op = "assign" => ~unread[Here.local]
            /\ \A v \in Here.leaves : unread[v] => v = Here.local

(* What a for iterates stays alive while it iterates: the loop holds its   *)
(* loan until it is left (docs/language.md:511, 731, 940).                 *)
BorrowsAreLive == \A b \in borrows : b.object \in heap

(* Every owner is dropped exactly once on every way out of its scope: each *)
(* object that is not freed is in exactly one slot, no slot points to a    *)
(* freed object, and a function that returns leaves none behind.           *)
OwnedOnce ==
    pc > 0 =>
        /\ \A o \in heap : \E v \in Declared : slot[v] = o /\ \A u \in Declared : slot[u] = o => u = v
        /\ \A v \in Declared : slot[v] # Null => slot[v] \in heap
        /\ ended = "returned" => heap = {}

(* The first three do not hold of every accepted body.  They do where no   *)
(* break or continue is reached with another move of an outer local than   *)
(* its loop started with, no Result from outside a loop gets a value in    *)
(* it, and no place is edited while a loop has a view of it.               *)
Forgotten(ops) == \E i \in DOMAIN code : code[i].op \in ops /\ code[i].forgets
Jumps == {"break", "continue"}
InLoop(i) == \E h \in 1 .. i : code[h].op \in {"while", "for"} /\ i < code[h].exit
ResultsOutsideLoops ==
    \A i \in DOMAIN code : code[i].op \in {"assign", "replace"} /\ MustUse(code[i].local) => ~InLoop(i)

(* Moves are followed exactly through branches, early returns, guards,     *)
(* loops, and the jumps that leave the outer owners as the loop found      *)
(* them.                                                                   *)
MovesAreSound == Live /\ ~Forgotten(Jumps) => UsesFindValue

(* Results are followed exactly through branches, early returns, guards    *)
(* and jumps that leave their scopes.                                      *)
ResultsAreSound == Live /\ ResultsOutsideLoops => ResultsAreHandled

(* An owner a loop iterates is there when the loop begins, and is neither  *)
(* moved, nor assigned, nor replaced, nor edited before it ends.           *)
LoansAreSound == ~Forgotten(Jumps \cup {"edit"}) => BorrowsAreLive
=============================================================================
