---------------------------- MODULE ProgressProofs ----------------------------
(***************************************************************************)
(* Proofs that the parser makes progress, for every family of texts and    *)
(* bound: each node below the outermost block is built from a token at      *)
(* least, and no token is passed three times.  Neither fact is inductive:  *)
(* a node is returned long after its first token, by code that no longer    *)
(* shows how it started.  IInv keeps what the stacks promise in between:    *)
(* code that can still return a node other than a block belongs to a        *)
(* function that has moved past a token, unless it is about to.            *)
(***************************************************************************)
EXTENDS ParserProofs, ParserProgress, ProductionProofs

(* The token the parser moved past last, 0 before the first.               *)
Last == IF moved = <<>> THEN 0 ELSE moved[Len(moved)].at

(* The activation has moved past a token.                                  *)
Fed(a) == a.begun < Len(moved)

AfterNo == ~pushed /\ Last = cur - 1 /\ cur > 1 /\ toks[cur - 1] = "NO"

(* Code and locals are one stack.  All code but the running function's is   *)
(* settled; the running function's is ready at the current token.          *)
StacksAgree ==
  /\ code = [k \in 1 .. Len(acts) |-> code[k]]
  /\ \A k \in 1 .. Len(acts) : acts[k].begun <= Len(moved)
  /\ \A k \in 1 .. Len(acts) - 1 : Settled(code[k], Fed(acts[k]))
  /\ acts # <<>> =>
       Ready(code[Len(acts)], Fed(acts[Len(acts)]), tok, ~pushed, AfterNo)

(* The place k is one where a token may be pushed back.                    *)
PutBackAt(k) == k > 1 /\ toks[k - 1] = "NO" /\ toks[k] # "SCROLL"

(* The current token follows the last one passed; or it is that one, which  *)
(* had been pushed back before it was passed and so comes again.           *)
LastMove ==
  /\ \A i \in DOMAIN moved : moved[i].at \in 1 .. cur
  /\ IF pushed THEN Last = cur - 1 /\ PutBackAt(cur)
     ELSE \/ Last = cur - 1
          \/ /\ Last = cur /\ PutBackAt(cur)
             /\ Len(moved) > 1 => moved[Len(moved) - 1].at < cur

IInv == StacksAgree /\ LastMove /\ RereadOnlyAfterNo /\ NodesConsume

----------------------------------------------------------------------------
(* The two stacks.                                                         *)

LEMMA StackTypes ==
  ASSUME Inv, StacksAgree
  PROVE  /\ acts \in Seq(Locals) /\ Len(acts) \in Nat
         /\ moved \in Seq(Moves) /\ Len(moved) \in Nat
         /\ \A k \in 1 .. Len(acts) : acts[k].begun \in Nat
         /\ Len(code) = Len(acts)
         /\ code \in Seq({code[k] : k \in 1 .. Len(acts)})
<1>1. /\ acts \in Seq(Locals) /\ Len(acts) \in Nat
      /\ moved \in Seq(Moves) /\ Len(moved) \in Nat
  BY DEF Inv, TypeOK, Locals, Moves
<1>. DEFINE n == Len(acts)
            S == {code[k] : k \in 1 .. n}
<1>2. code \in [1 .. n -> S]
  BY DEF StacksAgree
<1>3. n \in Nat
  BY <1>1
<1>. HIDE DEF n, S
<1>4. code \in Seq(S)
  BY <1>2, <1>3, SeqDef
<1>5. Len(code) = n
  BY <1>2, <1>3, <1>4, LenProperties
<1>6. \A k \in 1 .. Len(acts) : acts[k] \in Locals
  BY <1>1
<1>7. \A k \in 1 .. Len(acts) : acts[k].begun \in Nat
  BY <1>6 DEF Locals
<1>. QED  BY <1>1, <1>4, <1>5, <1>7 DEF n, S

LEMMA RunningCode ==
  ASSUME Inv, StacksAgree, Running
  PROVE  /\ Len(acts) \in 1 .. Len(acts) /\ Body = code[Len(acts)]
         /\ Ready(Body, Fed(acts[Len(acts)]), tok, ~pushed, AfterNo)
         /\ Fed(acts[Len(acts)]) \in BOOLEAN
         /\ (~pushed) \in BOOLEAN /\ AfterNo \in BOOLEAN
<1>1. acts # <<>> /\ Len(acts) > 0
  BY StackTypes DEF Running
<1>. QED  BY <1>1, StackTypes DEF Body, StacksAgree, Fed, AfterNo

(* What each kind of step leaves of the stacks: the running function goes   *)
(* on with the code b, ...                                                 *)
LEMMA GoOnStacks ==
  ASSUME Inv, StacksAgree, Running, NEW b,
         code' = [code EXCEPT ![Len(code)] = b]
  PROVE  /\ code' = [k \in 1 .. Len(acts) |-> code'[k]]
         /\ code'[Len(acts)] = b
         /\ \A k \in 1 .. Len(acts) - 1 : code'[k] = code[k]
<1>. DEFINE n == Len(acts)
<1>1. n \in 1 .. n /\ n \in Nat /\ Len(code) = n
  BY StackTypes, RunningCode
<1>2. code = [k \in 1 .. n |-> code[k]]
  BY DEF StacksAgree
<1>3. code' = [k \in 1 .. n |-> IF k = n THEN b ELSE code[k]]
  BY <1>1, <1>2
<1>4. /\ code' = [k \in 1 .. n |-> code'[k]] /\ code'[n] = b
      /\ \A k \in 1 .. n : k # n => code'[k] = code[k]
  BY <1>1, <1>3
<1>5. \A k \in 1 .. n - 1 : k \in 1 .. n /\ k # n
  BY <1>1
<1>. QED  BY <1>4, <1>5

(* ... calls a function, ...                                               *)
LEMMA CallStacks ==
  ASSUME Inv, StacksAgree, Running, NEW b, Call(b)
  PROVE  /\ Len(acts') = Len(acts) + 1
         /\ code' = [k \in 1 .. Len(acts) + 1 |-> code'[k]]
         /\ acts'[Len(acts) + 1].begun = Len(moved)
         /\ code'[Len(acts) + 1] = b
         /\ \A k \in 1 .. Len(acts) : acts'[k] = acts[k]
         /\ code'[Len(acts)] = Tail(Body)
         /\ \A k \in 1 .. Len(acts) - 1 : code'[k] = code[k]
<1>. DEFINE n == Len(acts)
            a == [at |-> cur, begun |-> Len(moved), fields |-> {}]
            S == {code[k] : k \in 1 .. n} \cup {Tail(Body), b}
            caller == [code EXCEPT ![n] = Tail(Body)]
<1>1. /\ n \in 1 .. n /\ n \in Nat /\ Len(code) = n /\ code \in Seq(S)
      /\ Len(moved) \in Nat /\ acts \in Seq(Locals)
  <2>1. \A T : {code[k] : k \in 1 .. n} \subseteq T =>
          Seq({code[k] : k \in 1 .. n}) \subseteq Seq(T)
    OBVIOUS
  <2>2. code \in Seq(S)
    BY <2>1, StackTypes
  <2>. QED  BY <2>2, StackTypes, RunningCode
<1>2. acts' = Append(acts, a) /\ code' = Append(caller, b)
  BY <1>1 DEF Call
<1>3. a \in Locals /\ a.begun = Len(moved)
  BY DEF Inv, TypeOK, StreamType, Locals, cur
<1>. HIDE DEF a, S
<1>4. /\ Len(acts') = n + 1 /\ acts'[n + 1] = a
      /\ \A k \in 1 .. n : acts'[k] = acts[k]
  BY <1>1, <1>2, <1>3, AppendProperties
<1>5. Tail(Body) \in S /\ b \in S
  BY DEF S
<1>6. /\ caller \in Seq(S) /\ Len(caller) = n /\ caller[n] = Tail(Body)
      /\ \A k \in 1 .. n - 1 : caller[k] = code[k]
  BY <1>1, <1>5, ExceptSeq
<1>. HIDE DEF caller
<1>7. /\ code' \in Seq(S) /\ Len(code') = n + 1 /\ code'[n + 1] = b
      /\ \A k \in 1 .. n : code'[k] = caller[k]
  BY <1>1, <1>2, <1>5, <1>6, AppendProperties
<1>8. code' = [k \in 1 .. n + 1 |-> code'[k]]
  BY <1>7, LenProperties
<1>. QED  BY <1>1, <1>3, <1>4, <1>6, <1>7, <1>8

(* ... or ends.                                                            *)
LEMMA LeaveStacks ==
  ASSUME Inv, StacksAgree, Running, Leave
  PROVE  /\ Len(acts') = Len(acts) - 1
         /\ acts' # <<>> => Len(acts) - 1 \in 1 .. Len(acts) - 1
         /\ code' = [k \in 1 .. Len(acts) - 1 |-> code'[k]]
         /\ \A k \in 1 .. Len(acts) - 1 : acts'[k] = acts[k] /\ code'[k] = code[k]
<1>. DEFINE n == Len(acts)
            S == {code[k] : k \in 1 .. n}
<1>1. /\ n \in 1 .. n /\ n \in Nat /\ Len(code) = n /\ code \in Seq(S)
      /\ acts \in Seq(Locals)
  BY StackTypes, RunningCode
<1>. HIDE DEF S
<1>2. code' = SubSeq(code, 1, n - 1) /\ acts' = SubSeq(acts, 1, n - 1)
  BY <1>1 DEF Leave
<1>3. /\ acts' \in Seq(Locals) /\ Len(acts') = n - 1
      /\ \A k \in 1 .. n - 1 : acts'[k] = acts[k]
  BY <1>1, <1>2
<1>4. /\ code' \in Seq(S) /\ Len(code') = n - 1
      /\ \A k \in 1 .. n - 1 : code'[k] = code[k]
  BY <1>1, <1>2
<1>5. code' = [k \in 1 .. n - 1 |-> code'[k]]
  BY <1>4, LenProperties
<1>. QED  BY <1>1, <1>3, <1>4, <1>5

(* The history only grows, so what was fed stays fed.                      *)
Grows == Len(moved) <= Len(moved') /\ Len(moved') \in Nat

LEMMA GoOnKeepsStacks ==
  ASSUME Inv, StacksAgree, Running, Grows, NEW b, GoOnWith(b),
         Ready(b, Fed(acts[Len(acts)])', tok', ~pushed', AfterNo')
  PROVE  StacksAgree'
<1>. DEFINE n == Len(acts)
<1>1. n \in 1 .. n /\ n \in Nat /\ Len(moved) \in Nat
  BY StackTypes, RunningCode
<1>2. acts' = acts /\ code' = [code EXCEPT ![Len(code)] = b]
  BY DEF GoOnWith
<1>3. \A k \in 1 .. n : acts[k].begun \in Nat
  BY StackTypes
<1>4. /\ code' = [k \in 1 .. n |-> code'[k]] /\ code'[n] = b
      /\ \A k \in 1 .. n - 1 : code'[k] = code[k]
  BY <1>2, GoOnStacks
<1>5. \A k \in 1 .. n : acts[k].begun <= Len(moved')
  <2>1. \A k \in 1 .. n : acts[k].begun <= Len(moved)
    BY DEF StacksAgree
  <2>. QED  BY <1>1, <1>3, <2>1 DEF Grows
<1>6. ASSUME NEW k \in 1 .. n - 1
      PROVE  Settled(code[k], acts[k].begun < Len(moved'))
  <2>1. Settled(code[k], Fed(acts[k]))
    BY DEF StacksAgree
  <2>2. k \in 1 .. n
    BY <1>1
  <2>3. Fed(acts[k]) => acts[k].begun < Len(moved')
    BY <1>1, <1>3, <2>2 DEF Fed, Grows
  <2>4. Fed(acts[k]) \in BOOLEAN /\ (acts[k].begun < Len(moved')) \in BOOLEAN
    BY DEF Fed
  <2>. QED  BY <2>1, <2>3, <2>4, SettledLater
<1>7. Ready(b, acts[n].begun < Len(moved'), tok', ~pushed', AfterNo')
  BY <1>2 DEF Fed
<1>8. \A k \in 1 .. n - 1 : Settled(code'[k], acts[k].begun < Len(moved'))
  BY <1>4, <1>6
<1>. QED  BY <1>2, <1>4, <1>5, <1>7, <1>8 DEF StacksAgree, Fed

(* A call: the caller's code is settled, the new code is ready.            *)
LEMMA CallKeepsStacks ==
  ASSUME Inv, StacksAgree, Running, NEW b, Call(b),
         Settled(Tail(Body), Fed(acts[Len(acts)])),
         Ready(b, FALSE, tok, ~pushed, AfterNo)
  PROVE  StacksAgree'
<1>. DEFINE n == Len(acts)
<1>1. n \in 1 .. n /\ n \in Nat /\ Len(moved) \in Nat
  BY StackTypes, RunningCode
<1>2. /\ Len(acts') = n + 1
      /\ code' = [k \in 1 .. n + 1 |-> code'[k]]
      /\ acts'[n + 1].begun = Len(moved) /\ code'[n + 1] = b
      /\ \A k \in 1 .. n : acts'[k] = acts[k]
      /\ code'[n] = Tail(Body)
      /\ \A k \in 1 .. n - 1 : code'[k] = code[k]
  BY CallStacks
<1>3. /\ moved' = moved /\ tok' = tok /\ pushed' = pushed /\ AfterNo' = AfterNo
  BY DEF Call, Stay, tok, cur, AfterNo, Last
<1>4. \A k \in 1 .. n + 1 : acts'[k].begun <= Len(moved)
  <2>1. \A k \in 1 .. n : acts[k].begun <= Len(moved)
    BY DEF StacksAgree
  <2>. QED  BY <1>1, <1>2, <2>1
<1>5. \A k \in 1 .. n : Settled(code'[k], acts'[k].begun < Len(moved))
  <2>1. \A k \in 1 .. n - 1 : Settled(code[k], acts[k].begun < Len(moved))
    BY DEF StacksAgree, Fed
  <2>2. Settled(Tail(Body), acts[n].begun < Len(moved))
    BY DEF Fed
  <2>3. ASSUME NEW k \in 1 .. n
        PROVE  Settled(code'[k], acts'[k].begun < Len(moved))
    <3>1. acts'[k] = acts[k]
      BY <1>2
    <3>2. k = n \/ (k \in 1 .. n - 1 /\ code'[k] = code[k])
      BY <1>1, <1>2
    <3>. QED  BY <1>2, <2>1, <2>2, <3>1, <3>2, Zenon
  <2>. QED  BY <2>3
<1>6. Ready(code'[n + 1], acts'[n + 1].begun < Len(moved), tok, ~pushed, AfterNo)
  <2>1. (acts'[n + 1].begun < Len(moved)) = FALSE
    BY <1>1, <1>2
  <2>. QED  BY <1>2, <2>1, Zenon
<1>. QED  BY <1>1, <1>2, <1>3, <1>4, <1>5, <1>6 DEF StacksAgree, Fed

(* The end of a function: the caller's settled code is ready.              *)
LEMMA LeaveKeepsStacks ==
  ASSUME Inv, StacksAgree, Running, Leave
  PROVE  StacksAgree'
<1>. DEFINE n == Len(acts)
<1>1. n \in 1 .. n /\ n \in Nat
  BY StackTypes, RunningCode
<1>2. /\ Len(acts') = n - 1 /\ (acts' # <<>> => n - 1 \in 1 .. n - 1)
      /\ code' = [k \in 1 .. n - 1 |-> code'[k]]
      /\ \A k \in 1 .. n - 1 : acts'[k] = acts[k] /\ code'[k] = code[k]
  BY LeaveStacks
<1>3. moved' = moved
  BY DEF Leave, Stay
<1>4. /\ \A k \in 1 .. n - 1 : acts'[k].begun <= Len(moved)
      /\ \A k \in 1 .. n - 1 : Settled(code'[k], acts'[k].begun < Len(moved))
  <2>1. /\ \A k \in 1 .. n : acts[k].begun <= Len(moved)
        /\ \A k \in 1 .. n - 1 : Settled(code[k], acts[k].begun < Len(moved))
    BY DEF StacksAgree, Fed
  <2>. QED  BY <1>1, <1>2, <2>1
<1>5. \A k \in 1 .. n - 1 :
        Ready(code'[k], acts'[k].begun < Len(moved), tok', ~pushed', AfterNo')
  BY <1>4 DEF Ready
<1>. QED  BY <1>2, <1>3, <1>4, <1>5 DEF StacksAgree, Fed

----------------------------------------------------------------------------
(* The history of the tokens passed.                                       *)

LEMMA HistoryTypes ==
  ASSUME Inv
  PROVE  /\ moved \in Seq(Moves) /\ Len(moved) \in Nat
         /\ DOMAIN moved = 1 .. Len(moved)
         /\ \A i \in 1 .. Len(moved) : moved[i].at \in Nat
         /\ toks \in Seq(Token) /\ cur \in Nat /\ cur > 0 /\ cur = Len(toks)
         /\ pushed \in BOOLEAN
         /\ Last \in Nat
         /\ Last = IF Len(moved) = 0 THEN 0 ELSE moved[Len(moved)].at
<1>1. /\ moved \in Seq(Moves) /\ Len(moved) \in Nat
      /\ DOMAIN moved = 1 .. Len(moved) /\ (moved = <<>> <=> Len(moved) = 0)
  BY DEF Inv, TypeOK, Moves
<1>2. /\ toks \in Seq(Token) /\ cur \in Nat /\ cur > 0 /\ cur = Len(toks)
      /\ pushed \in BOOLEAN
  BY DEF Inv, TypeOK, StreamType, cur
<1>3. \A i \in 1 .. Len(moved) : moved[i] \in Moves
  BY <1>1
<1>4. \A i \in 1 .. Len(moved) : moved[i].at \in Nat
  BY <1>3 DEF Moves
<1>5. Last = IF Len(moved) = 0 THEN 0 ELSE moved[Len(moved)].at
  BY <1>1 DEF Last
<1>6. Last \in Nat
  BY <1>1, <1>4, <1>5
<1>. QED  BY <1>1, <1>2, <1>4, <1>5, <1>6

(* What Parser.next does to the stream and the history.                    *)
LEMMA MoveOnCases ==
  ASSUME Inv, NEW use \in Uses, MoveOn(use)
  PROVE  /\ pushed' = FALSE /\ cur' \in Nat
         /\ IF tok = EOF THEN moved' = moved /\ toks' = toks
            ELSE /\ moved' \in Seq(Moves) /\ Len(moved') = Len(moved) + 1
                 /\ moved'[Len(moved) + 1].at = cur
                 /\ \A i \in 1 .. Len(moved) : moved'[i] = moved[i]
                 /\ IF pushed THEN toks' = toks
                    ELSE /\ cur' = cur + 1
                         /\ \A i \in 1 .. cur : toks'[i] = toks[i]
<1>1. /\ Advance(Room)
      /\ moved' = IF tok = EOF THEN moved
                  ELSE Append(moved, [at |-> cur, use |-> use])
  BY DEF MoveOn
<1>2. [at |-> cur, use |-> use] \in Moves
  BY HistoryTypes DEF Moves
<1>3. tok # EOF => /\ moved' \in Seq(Moves) /\ Len(moved') = Len(moved) + 1
                   /\ moved'[Len(moved) + 1].at = cur
                   /\ \A i \in 1 .. Len(moved) : moved'[i] = moved[i]
  <2>1. SUFFICES ASSUME tok # EOF
                 PROVE  /\ moved' \in Seq(Moves) /\ Len(moved') = Len(moved) + 1
                        /\ moved'[Len(moved) + 1].at = cur
                        /\ \A i \in 1 .. Len(moved) : moved'[i] = moved[i]
    OBVIOUS
  <2>2. moved' = Append(moved, [at |-> cur, use |-> use])
    BY <1>1, <2>1
  <2>3. moved \in Seq(Moves)
    BY HistoryTypes
  <2>4. /\ moved' \in Seq(Moves) /\ Len(moved') = Len(moved) + 1
        /\ moved'[Len(moved) + 1] = [at |-> cur, use |-> use]
        /\ \A i \in 1 .. Len(moved) : moved'[i] = moved[i]
    BY <1>2, <2>2, <2>3, AppendProperties
  <2>. QED  BY <2>4
<1>4. CASE pushed
  <2>1. pushed' = FALSE /\ toks' = toks
    BY <1>1, <1>4 DEF Advance
  <2>. QED  BY <1>1, <1>3, <1>4, <2>1, HistoryTypes DEF cur
<1>5. CASE ~pushed /\ tok = EOF
  <2>1. pushed' = FALSE /\ toks' = toks
    BY <1>1, <1>5, HistoryTypes DEF Advance, streamVars
  <2>. QED  BY <1>1, <1>5, <2>1, HistoryTypes DEF cur
<1>6. CASE ~pushed /\ tok # EOF
  <2>1. Scan(Room) /\ pushed' = pushed
    BY <1>1, <1>6 DEF Advance
  <2>2. PICK t \in IF unterminated THEN {EOF} ELSE Upcoming(cur + 1, Room) :
          toks' = Append(toks, t)
    BY <2>1 DEF Scan
  <2>3. /\ Len(toks') = Len(toks) + 1
        /\ \A i \in 1 .. Len(toks) : toks'[i] = toks[i]
    <3>1. toks \in Seq(Token \cup {t}) /\ t \in Token \cup {t}
      BY HistoryTypes
    <3>. QED  BY <2>2, <3>1, AppendProperties
  <2>4. cur' = cur + 1 /\ cur' \in Nat /\ pushed' = FALSE
    BY <1>6, <2>1, <2>3, HistoryTypes DEF cur
  <2>. QED  BY <1>3, <1>6, <2>3, <2>4, HistoryTypes
<1>. QED  BY <1>4, <1>5, <1>6, HistoryTypes

(* RereadOnlyAfterNo for the move number i of the history m in the text ts.  *)
InOrder(m, ts, i) ==
  LET k == m[i].at
      before == IF i = 1 THEN 0 ELSE m[i - 1].at
  IN  k # before + 1 =>
        /\ k = before
        /\ i > 2 => m[i - 2].at < k
        /\ k > 1 /\ ts[k - 1] = "NO" /\ ts[k] # "SCROLL"

(* Passing the current token adds a reread only where one may be.          *)
LEMMA PassKeepsRereads ==
  ASSUME Inv, LastMove, RereadOnlyAfterNo,
         \A i \in 1 .. cur : toks'[i] = toks[i],
         moved' \in Seq(Moves), Len(moved') = Len(moved) + 1,
         moved'[Len(moved) + 1].at = cur,
         \A i \in 1 .. Len(moved) : moved'[i] = moved[i]
  PROVE  RereadOnlyAfterNo'
<1>. DEFINE n == Len(moved)
<1>0. /\ n \in Nat /\ cur \in Nat /\ cur > 0 /\ DOMAIN moved = 1 .. n
      /\ DOMAIN moved' = 1 .. n + 1 /\ Last \in Nat
      /\ Last = IF n = 0 THEN 0 ELSE moved[n].at
      /\ \A i \in 1 .. n : moved[i].at \in Nat
  BY HistoryTypes
<1>1. \A i \in 1 .. n : moved[i].at \in 1 .. cur
  BY <1>0 DEF LastMove
<1>2. ASSUME NEW i \in 1 .. n
      PROVE  InOrder(moved', toks', i)
  <2>1. InOrder(moved, toks, i)
    BY <1>0 DEF RereadOnlyAfterNo, InOrder
  <2>2. /\ moved'[i] = moved[i]
        /\ i # 1 => moved'[i - 1] = moved[i - 1]
        /\ i > 2 => moved'[i - 2] = moved[i - 2]
    BY <1>0, SMTT(30)
  <2>3. /\ moved[i].at \in 1 .. cur
        /\ toks'[moved[i].at] = toks[moved[i].at]
        /\ moved[i].at > 1 => toks'[moved[i].at - 1] = toks[moved[i].at - 1]
    BY <1>0, <1>1
  <2>. QED  BY <2>1, <2>2, <2>3 DEF InOrder
<1>3. ASSUME NEW i, i = n + 1
      PROVE  InOrder(moved', toks', i)
  <2>1. moved'[i].at = cur
    BY <1>3
  <2>2. (IF i = 1 THEN 0 ELSE moved'[i - 1].at) = Last
    BY <1>0, <1>3
  <2>3. CASE Last = cur - 1
    BY <1>0, <2>1, <2>2, <2>3 DEF InOrder
  <2>4. CASE Last = cur
    <3>1. /\ PutBackAt(cur)
          /\ n > 1 => moved[n - 1].at < cur
      BY <1>0, <2>4, HistoryTypes DEF LastMove
    <3>2. /\ cur > 1 /\ toks'[cur - 1] = "NO" /\ toks'[cur] # "SCROLL"
      BY <1>0, <3>1 DEF PutBackAt
    <3>3. i > 2 => moved'[i - 2].at < cur
      BY <1>0, <1>3, <3>1
    <3>. QED  BY <1>0, <2>1, <2>2, <2>4, <3>2, <3>3 DEF InOrder
  <2>. QED  BY <1>0, <2>3, <2>4 DEF LastMove
<1>4. \A i \in DOMAIN moved' : InOrder(moved', toks', i)
  BY <1>0, <1>2, <1>3
<1>. QED  BY <1>4 DEF RereadOnlyAfterNo, InOrder

(* A call of Parser.next keeps the history in order and adds to it, unless  *)
(* the text is at its end.                                                 *)
LEMMA MoveKeepsHistory ==
  ASSUME Inv, LastMove, RereadOnlyAfterNo, NEW use \in Uses, MoveOn(use)
  PROVE  /\ LastMove' /\ RereadOnlyAfterNo'
         /\ Grows /\ pushed' = FALSE
         /\ tok # EOF => Len(moved) < Len(moved')
         /\ ~pushed /\ tok = "NO" => AfterNo'
<1>. DEFINE n == Len(moved)
<1>0. /\ n \in Nat /\ moved \in Seq(Moves) /\ cur \in Nat /\ cur > 0
      /\ DOMAIN moved = 1 .. n /\ Last \in Nat
      /\ Last = IF n = 0 THEN 0 ELSE moved[n].at
      /\ \A i \in 1 .. n : moved[i].at \in Nat
  BY HistoryTypes
<1>1. \A i \in 1 .. n : moved[i].at \in 1 .. cur
  BY <1>0 DEF LastMove
<1>2. pushed' = FALSE /\ cur' \in Nat
  BY MoveOnCases
<1>3. CASE tok = EOF
  <2>1. moved' = moved /\ toks' = toks
    BY <1>3, MoveOnCases
  <2>2. cur' = cur /\ Last' = Last
    BY <2>1 DEF cur, Last
  <2>3. PutBackAt(cur)' <=> PutBackAt(cur)
    BY <2>1, <2>2 DEF PutBackAt
  <2>4. LastMove'
    BY <1>2, <2>1, <2>2, <2>3 DEF LastMove
  <2>5. RereadOnlyAfterNo'
    BY <2>1 DEF RereadOnlyAfterNo
  <2>6. tok # "NO"
    BY <1>3 DEF EOF
  <2>. QED  BY <1>0, <1>2, <1>3, <2>1, <2>4, <2>5, <2>6 DEF Grows
<1>4. CASE tok # EOF
  <2>1. /\ moved' \in Seq(Moves) /\ Len(moved') = n + 1
        /\ moved'[n + 1].at = cur
        /\ \A i \in 1 .. n : moved'[i] = moved[i]
        /\ IF pushed THEN toks' = toks
           ELSE /\ cur' = cur + 1
                /\ \A i \in 1 .. cur : toks'[i] = toks[i]
    BY <1>4, MoveOnCases
  <2>2. \A i \in 1 .. cur : toks'[i] = toks[i]
    BY <2>1
  <2>3. RereadOnlyAfterNo'
    BY <2>1, <2>2, PassKeepsRereads
  <2>4. DOMAIN moved' = 1 .. n + 1 /\ Last' = cur
    BY <1>0, <2>1 DEF Last
  <2>5. cur <= cur'
    BY <1>0, <2>1 DEF cur
  <2>6. \A i \in DOMAIN moved' : moved'[i].at \in 1 .. cur'
    <3>1. ASSUME NEW i \in DOMAIN moved'
          PROVE  moved'[i].at \in 1 .. cur'
      <4>1. i = n + 1 \/ i \in 1 .. n
        BY <1>0, <2>4
      <4>. QED  BY <1>0, <1>1, <1>2, <2>1, <2>5, <4>1
    <3>. QED  BY <3>1
  <2>7. CASE pushed
    <3>1. toks' = toks /\ cur' = cur
      BY <2>1, <2>7 DEF cur
    <3>2. Last = cur - 1 /\ PutBackAt(cur)
      BY <2>7 DEF LastMove
    <3>3. PutBackAt(cur)'
      BY <3>1, <3>2 DEF PutBackAt
    <3>4. n + 1 > 1 => moved'[n].at < cur'
      BY <1>0, <2>1, <3>1, <3>2
    <3>5. Len(moved') > 1 => moved'[Len(moved') - 1].at < cur'
      BY <1>0, <2>1, <3>4
    <3>6. LastMove'
      BY <1>2, <2>4, <2>6, <3>1, <3>3, <3>5 DEF LastMove
    <3>. QED  BY <1>0, <1>2, <2>1, <2>3, <2>7, <3>6 DEF Grows
  <2>8. CASE ~pushed
    <3>1. cur' = cur + 1
      BY <2>1, <2>8
    <3>2. Last' = cur' - 1
      BY <1>0, <2>4, <3>1
    <3>3. LastMove'
      BY <1>2, <2>6, <3>2 DEF LastMove
    <3>4. tok = "NO" => toks'[cur' - 1] = "NO"
      BY <1>0, <2>2, <3>1 DEF tok
    <3>5. tok = "NO" => AfterNo'
      BY <1>0, <1>2, <3>1, <3>2, <3>4 DEF AfterNo
    <3>. QED  BY <1>0, <1>2, <2>1, <2>3, <3>3, <3>5 DEF Grows
  <2>. QED  BY <2>7, <2>8
<1>. QED  BY <1>3, <1>4

(* A step that moves past nothing.                                         *)
LEMMA StayKeepsHistory ==
  ASSUME Inv, LastMove, RereadOnlyAfterNo, Stay
  PROVE  /\ LastMove' /\ RereadOnlyAfterNo'
         /\ Grows /\ moved' = moved /\ pushed' = pushed
         /\ tok' = tok /\ AfterNo' = AfterNo
<1>1. moved' = moved /\ toks' = toks /\ pushed' = pushed
  BY DEF Stay
<1>2. cur' = cur /\ Last' = Last /\ tok' = tok
  BY <1>1 DEF cur, Last, tok
<1>3. AfterNo' = AfterNo
  BY <1>1, <1>2 DEF AfterNo
<1>4. PutBackAt(cur)' <=> PutBackAt(cur)
  BY <1>1, <1>2 DEF PutBackAt
<1>5. LastMove'
  BY <1>1, <1>2, <1>4 DEF LastMove
<1>6. RereadOnlyAfterNo'
  BY <1>1 DEF RereadOnlyAfterNo
<1>. QED  BY <1>1, <1>2, <1>3, <1>5, <1>6, HistoryTypes DEF Grows

----------------------------------------------------------------------------
(* The instructions.                                                       *)

(* An instruction that moves past the current token and is done.           *)
LEMMA MovingIsSafe ==
  ASSUME Inv, IInv, Running, Body # <<>>,
         Ins.op \in {"want", "got", "next", "lit", "skip", "anyIdentifier"},
         Ins.op = "want" => tok \in Ins.on,
         NEW use \in Uses, MoveOn(use), Done
  PROVE  IInv'
<1>. DEFINE a == acts[Len(acts)]
            fed2 == a.begun < Len(moved')
<1>1. StacksAgree /\ LastMove /\ RereadOnlyAfterNo /\ NodesConsume
  BY DEF IInv
<1>2. /\ Ready(Body, Fed(a), tok, ~pushed, AfterNo)
      /\ Fed(a) \in BOOLEAN /\ (~pushed) \in BOOLEAN /\ AfterNo \in BOOLEAN
      /\ Len(acts) \in 1 .. Len(acts)
  BY <1>1, RunningCode
<1>3. /\ LastMove' /\ RereadOnlyAfterNo'
      /\ Grows /\ pushed' = FALSE
      /\ tok # EOF => Len(moved) < Len(moved')
      /\ ~pushed /\ tok = "NO" => AfterNo'
  BY <1>1, MoveKeepsHistory
<1>4. /\ a.begun \in Nat /\ a.begun <= Len(moved) /\ Len(moved) \in Nat
  BY <1>1, <1>2, StackTypes DEF StacksAgree
<1>5. (Fed(a) => fed2) /\ (tok # EOF => fed2)
  BY <1>3, <1>4 DEF Fed, Grows
<1>6. fed2 \in BOOLEAN /\ AfterNo' \in BOOLEAN
  BY DEF AfterNo
<1>7. Ready(Tail(Body), fed2, tok', TRUE, AfterNo')
  <2>. HIDE DEF fed2
  <2>. QED  BY <1>2, <1>3, <1>5, <1>6, ReadyAfterMove, ZenonT(30) DEF Ins
<1>8. GoOnWith(Tail(Body)) /\ acts' = acts /\ nodes' = nodes
  BY DEF Done, GoOnWith
<1>9. Ready(Tail(Body), Fed(a)', tok', ~pushed', AfterNo')
  <2>1. Fed(a)' = fed2
    BY <1>8 DEF Fed
  <2>2. (~pushed') = TRUE
    BY <1>3
  <2>. QED  BY <1>7, <2>1, <2>2, Zenon
<1>10. StacksAgree'
  BY <1>1, <1>3, <1>8, <1>9, GoOnKeepsStacks
<1>11. NodesConsume'
  BY <1>1, <1>8 DEF NodesConsume, NodesOf
<1>. QED  BY <1>3, <1>10, <1>11 DEF IInv

(* An instruction that moves past nothing and goes on with the code b.      *)
LEMMA StayingIsSafe ==
  ASSUME Inv, IInv, Running, Stay, NEW b, GoOnWith(b),
         Ready(b, Fed(acts[Len(acts)]), tok, ~pushed, AfterNo)
  PROVE  IInv'
<1>. DEFINE a == acts[Len(acts)]
<1>1. StacksAgree /\ LastMove /\ RereadOnlyAfterNo /\ NodesConsume
  BY DEF IInv
<1>2. /\ LastMove' /\ RereadOnlyAfterNo'
      /\ Grows /\ moved' = moved /\ pushed' = pushed
      /\ tok' = tok /\ AfterNo' = AfterNo
  BY <1>1, StayKeepsHistory
<1>3. acts' = acts /\ nodes' = nodes
  BY DEF GoOnWith
<1>4. Ready(b, Fed(a)', tok', ~pushed', AfterNo')
  <2>1. Fed(a)' = Fed(a)
    BY <1>2, <1>3 DEF Fed
  <2>. QED  BY <1>2, <2>1, Zenon
<1>5. StacksAgree'
  BY <1>1, <1>2, <1>4, GoOnKeepsStacks
<1>6. NodesConsume'
  BY <1>1, <1>3 DEF NodesConsume, NodesOf
<1>. QED  BY <1>2, <1>5, <1>6 DEF IInv

(* An instruction that moves past nothing and is done.                     *)
LEMMA PassingOverIsSafe ==
  ASSUME Inv, IInv, Running, Body # <<>>, Stay, Done,
         \/ Ins.op \in {"got", "syntaxError", "collect", "discard"}
         \/ Ins.op = "want" /\ tok \notin Ins.on
  PROVE  IInv'
<1>. DEFINE a == acts[Len(acts)]
<1>1. /\ Ready(Body, Fed(a), tok, ~pushed, AfterNo)
      /\ Fed(a) \in BOOLEAN /\ (~pushed) \in BOOLEAN /\ AfterNo \in BOOLEAN
  BY RunningCode DEF IInv
<1>2. Settled(Body, Fed(a))
  BY <1>1, SettledAtStay DEF Ins
<1>3. Settled(Tail(Body), Fed(a))
  BY <1>1, <1>2, SettledTail
<1>4. Ready(Tail(Body), Fed(a), tok, ~pushed, AfterNo)
  BY <1>3 DEF Ready
<1>. QED  BY <1>4, StayingIsSafe DEF Done

LEMMA WantIsSafe ==
  ASSUME Inv, IInv, Want
  PROVE  IInv'
<1>1. /\ Running /\ Body # <<>> /\ Ins.op = "want" /\ Done
      /\ \/ tok \in Ins.on /\ MoveOn("syntax")
         \/ tok \notin Ins.on /\ Stay
  BY DEF Want, At
<1>2. "syntax" \in Uses
  BY DEF Uses
<1>3. CASE tok \in Ins.on /\ MoveOn("syntax")
  BY <1>1, <1>2, <1>3, MovingIsSafe
<1>4. CASE tok \notin Ins.on /\ Stay
  BY <1>1, <1>4, PassingOverIsSafe
<1>. QED  BY <1>1, <1>3, <1>4

LEMMA GotIsSafe ==
  ASSUME Inv, IInv, Got
  PROVE  IInv'
<1>1. /\ Running /\ Body # <<>> /\ Ins.op = "got" /\ Done
      /\ MoveOn("syntax") \/ Stay
  BY DEF Got, At
<1>2. "syntax" \in Uses
  BY DEF Uses
<1>3. CASE MoveOn("syntax")
  BY <1>1, <1>2, <1>3, MovingIsSafe
<1>4. CASE Stay
  BY <1>1, <1>4, PassingOverIsSafe
<1>. QED  BY <1>1, <1>3, <1>4

LEMMA TakeTokenIsSafe ==
  ASSUME Inv, IInv, TakeToken
  PROVE  IInv'
<1>1. /\ Running /\ Body # <<>> /\ Ins.op \in {"next", "lit", "skip"} /\ Done
  BY DEF TakeToken, At
<1>2. \E use \in Uses : MoveOn(use)
  <2>1. {"syntax", "text", "lost"} = Uses
    BY DEF Uses
  <2>. QED  BY <1>1, <2>1, Zenon DEF TakeToken
<1>. QED  BY <1>1, <1>2, MovingIsSafe

LEMMA AnyIdentifierIsSafe ==
  ASSUME Inv, IInv, AnyIdentifier
  PROVE  IInv'
<1>1. /\ Running /\ Body # <<>> /\ Ins.op = "anyIdentifier" /\ Done
      /\ MoveOn("text") \/ MoveOn("lost")
  BY DEF AnyIdentifier, At
<1>2. "text" \in Uses /\ "lost" \in Uses
  BY DEF Uses
<1>. QED  BY <1>1, <1>2, MovingIsSafe

LEMMA ComplainIsSafe ==
  ASSUME Inv, IInv, Complain
  PROVE  IInv'
  BY PassingOverIsSafe DEF Complain, At

(* A turn of collectTokens: the running code stays, and it is settled.     *)
LEMMA CollectIsSafe ==
  ASSUME Inv, IInv, Collect
  PROVE  IInv'
<1>. DEFINE a == acts[Len(acts)]
            fed2 == a.begun < Len(moved')
            use == IF Ins.op = "collect" THEN "text" ELSE "lost"
<1>1. Running /\ Body # <<>> /\ Ins.op \in {"collect", "discard"}
  BY DEF Collect, At
<1>2. CASE Done /\ Stay
  BY <1>1, <1>2, PassingOverIsSafe
<1>3. CASE MoveOn(use) /\ UNCHANGED <<pc, code, acts, nodes>>
  <2>1. StacksAgree /\ LastMove /\ RereadOnlyAfterNo /\ NodesConsume
    BY DEF IInv
  <2>2. use \in Uses
    BY DEF Uses
  <2>3. /\ LastMove' /\ RereadOnlyAfterNo' /\ Grows
    BY <1>3, <2>1, <2>2, MoveKeepsHistory
  <2>4. /\ Ready(Body, Fed(a), tok, ~pushed, AfterNo)
        /\ Fed(a) \in BOOLEAN /\ (~pushed) \in BOOLEAN /\ AfterNo \in BOOLEAN
        /\ Len(acts) \in 1 .. Len(acts) /\ Body = code[Len(acts)]
    BY <1>1, <2>1, RunningCode
  <2>5. Settled(Body, Fed(a))
    BY <1>1, <2>4, SettledAtStay DEF Ins
  <2>6. /\ a.begun \in Nat /\ Len(moved) \in Nat /\ Len(code) = Len(acts)
        /\ Len(acts) \in Nat
    BY <2>1, <2>4, StackTypes
  <2>7. Fed(a) => fed2
    BY <2>3, <2>6 DEF Fed, Grows
  <2>8. Settled(Body, fed2)
    <3>1. fed2 \in BOOLEAN
      OBVIOUS
    <3>. HIDE DEF fed2
    <3>. QED  BY <2>4, <2>5, <2>7, <3>1, SettledLater
  <2>9. Ready(Body, Fed(a)', tok', ~pushed', AfterNo')
    <3>1. Fed(a)' = fed2
      BY <1>3 DEF Fed
    <3>2. Settled(Body, Fed(a)')
      BY <2>8, <3>1, Zenon
    <3>. QED  BY <3>2 DEF Ready
  <2>10. code = [code EXCEPT ![Len(code)] = Body]
    <3>1. code = [k \in 1 .. Len(acts) |-> code[k]]
      BY <2>1 DEF StacksAgree
    <3>. QED  BY <2>4, <2>6, <3>1
  <2>11. GoOnWith(Body)
    BY <1>3, <2>10 DEF GoOnWith
  <2>12. StacksAgree'
    BY <1>1, <2>1, <2>3, <2>9, <2>11, GoOnKeepsStacks
  <2>13. NodesConsume'
    BY <1>3, <2>1 DEF NodesConsume, NodesOf
  <2>. QED  BY <2>3, <2>12, <2>13 DEF IInv
<1>. QED  BY <1>2, <1>3 DEF Collect

LEMMA BranchIsSafe ==
  ASSUME Inv, IInv, Branch
  PROVE  IInv'
<1>. DEFINE a == acts[Len(acts)]
<1>1. /\ Running /\ Body # <<>> /\ Ins.op \in {"if", "while", "until"} /\ Stay
  BY DEF Branch, At
<1>2. /\ Ready(Body, Fed(a), tok, ~pushed, AfterNo)
      /\ Fed(a) \in BOOLEAN /\ (~pushed) \in BOOLEAN /\ AfterNo \in BOOLEAN
  BY <1>1, RunningCode DEF IInv
<1>3. CASE Ins.op = "if"
  <2>. DEFINE c == IF tok \in Ins.on THEN Ins.then ELSE Ins.else
  <2>1. GoOnWith(c \o Tail(Body))
    BY <1>3, Zenon DEF Branch
  <2>2. Ready(c \o Tail(Body), Fed(a), tok, ~pushed, AfterNo)
    BY <1>1, <1>2, <1>3, ReadyAfterIf DEF Ins
  <2>. HIDE DEF c
  <2>. QED  BY <1>1, <2>1, <2>2, StayingIsSafe
<1>4. CASE Ins.op \in {"while", "until"}
  <2>1. /\ Ready(Tail(Body), Fed(a), tok, ~pushed, AfterNo)
        /\ (Ins.op = "while" /\ tok \in Ins.on)
             \/ (Ins.op = "until" /\ tok \notin Ins.on)
           => Ready(Ins.body \o Body, Fed(a), tok, ~pushed, AfterNo)
    BY <1>1, <1>2, <1>4, ReadyAfterLoopTest DEF Ins
  <2>2. CASE Ins.op = "while"
    <3>1. GoOnWith(IF tok \in Ins.on THEN Ins.body \o Body ELSE Tail(Body))
      BY <2>2, Zenon DEF Branch
    <3>. QED  BY <1>1, <2>1, <2>2, <3>1, StayingIsSafe
  <2>3. CASE Ins.op = "until"
    <3>1. GoOnWith(IF tok \in Ins.on THEN Tail(Body) ELSE Ins.body \o Body)
      BY <2>3, Zenon DEF Branch
    <3>. QED  BY <1>1, <2>1, <2>3, <3>1, StayingIsSafe
  <2>. QED  BY <1>4, <2>2, <2>3
<1>. QED  BY <1>1, <1>3, <1>4

(* A call, of a function known or chosen by the current token.              *)
LEMMA CallingIsSafe ==
  ASSUME Inv, IInv, Running, NEW b, Call(b),
         Settled(Tail(Body), Fed(acts[Len(acts)])),
         Ready(b, FALSE, tok, ~pushed, AfterNo)
  PROVE  IInv'
<1>1. StacksAgree /\ LastMove /\ RereadOnlyAfterNo /\ NodesConsume
  BY DEF IInv
<1>2. Stay /\ nodes' = nodes
  BY DEF Call
<1>3. LastMove' /\ RereadOnlyAfterNo'
  BY <1>1, <1>2, StayKeepsHistory
<1>4. StacksAgree'
  BY <1>1, CallKeepsStacks
<1>5. NodesConsume'
  BY <1>1, <1>2 DEF NodesConsume, NodesOf
<1>. QED  BY <1>3, <1>4, <1>5 DEF IInv

LEMMA CallIsSafe ==
  ASSUME Inv, IInv, CallFunction \/ ParseProcStmt
  PROVE  IInv'
<1>. DEFINE a == acts[Len(acts)]
<1>1. Running /\ Body # <<>>
  BY DEF CallFunction, ParseProcStmt, At
<1>2. /\ Ready(Body, Fed(a), tok, ~pushed, AfterNo)
      /\ Fed(a) \in BOOLEAN /\ (~pushed) \in BOOLEAN /\ AfterNo \in BOOLEAN
  BY <1>1, RunningCode DEF IInv
<1>3. CASE CallFunction
  <2>1. Ins.op = "call" /\ Call(Ins.body)
    BY <1>3 DEF CallFunction, At
  <2>2. Settled(Tail(Body), Fed(a)) /\ Ready(Ins.body, FALSE, tok, ~pushed, AfterNo)
    BY <1>1, <1>2, <2>1, ReadyAfterCall DEF Ins
  <2>. QED  BY <1>1, <2>1, <2>2, CallingIsSafe
<1>4. CASE ParseProcStmt
  <2>1. Ins.op = "parseProcStmt" /\ Call(Statement(tok))
    BY <1>4 DEF ParseProcStmt, At
  <2>2. Settled(Body, Fed(a))
    BY <1>1, <1>2, <2>1, SettledAtStay DEF Ins
  <2>3. Settled(Tail(Body), Fed(a))
    BY <1>1, <1>2, <2>2, SettledTail
  <2>4. tok \in Token
    BY HistoryTypes DEF tok
  <2>5. Ready(Statement(tok), FALSE, tok, ~pushed, AfterNo)
    BY <1>2, <2>4, ReadyAfterStatementCall
  <2>. QED  BY <1>1, <2>1, <2>3, <2>5, CallingIsSafe
<1>. QED  BY <1>3, <1>4

(* A pushback: the token before the current one is a NO, just passed.      *)
LEMMA PutBackIsSafe ==
  ASSUME Inv, IInv, PutBack
  PROVE  IInv'
<1>. DEFINE a == acts[Len(acts)]
<1>0. StacksAgree /\ LastMove /\ RereadOnlyAfterNo /\ NodesConsume
  BY DEF IInv
<1>1. /\ Running /\ Body # <<>> /\ Ins.op = "pushBack" /\ Done
      /\ pushed' = TRUE /\ toks' = toks /\ moved' = moved
  BY DEF PutBack, PushBack, At
<1>2. /\ Ready(Body, Fed(a), tok, ~pushed, AfterNo)
      /\ Fed(a) \in BOOLEAN /\ (~pushed) \in BOOLEAN /\ AfterNo \in BOOLEAN
  BY <1>0, <1>1, RunningCode
<1>3. AfterNo /\ tok # "SCROLL" /\ Settled(Tail(Body), Fed(a))
  BY <1>1, <1>2, ReadyAtPushBack DEF Ins
<1>4. cur' = cur /\ Last' = Last /\ tok' = tok
  BY <1>1 DEF cur, Last, tok
<1>5. Last = cur - 1 /\ PutBackAt(cur)
  BY <1>3 DEF AfterNo, PutBackAt, tok
<1>6. PutBackAt(cur)'
  BY <1>1, <1>4, <1>5 DEF PutBackAt
<1>7. LastMove'
  <2>1. \A i \in DOMAIN moved : moved[i].at \in 1 .. cur
    BY <1>0 DEF LastMove
  <2>. QED  BY <1>1, <1>4, <1>5, <1>6, <2>1 DEF LastMove
<1>8. RereadOnlyAfterNo'
  BY <1>0, <1>1 DEF RereadOnlyAfterNo
<1>9. GoOnWith(Tail(Body)) /\ acts' = acts /\ nodes' = nodes
  BY <1>1 DEF Done, GoOnWith
<1>10. Ready(Tail(Body), Fed(a)', tok', ~pushed', AfterNo')
  <2>1. Fed(a)' = Fed(a)
    BY <1>1, <1>9 DEF Fed
  <2>2. Settled(Tail(Body), Fed(a)')
    BY <1>3, <2>1, Zenon
  <2>. QED  BY <2>2 DEF Ready
<1>11. Grows
  BY <1>1, HistoryTypes DEF Grows
<1>12. StacksAgree'
  BY <1>0, <1>1, <1>9, <1>10, <1>11, GoOnKeepsStacks
<1>13. NodesConsume'
  BY <1>0, <1>9 DEF NodesConsume, NodesOf
<1>. QED  BY <1>7, <1>8, <1>12, <1>13 DEF IInv

LEMMA ReturnIsSafe ==
  ASSUME Inv, IInv, Return
  PROVE  IInv'
<1>1. StacksAgree /\ LastMove /\ RereadOnlyAfterNo /\ NodesConsume
  BY DEF IInv
<1>2. Running /\ Leave /\ Stay /\ nodes' = nodes
  BY DEF Return, Leave
<1>3. LastMove' /\ RereadOnlyAfterNo'
  BY <1>1, <1>2, StayKeepsHistory
<1>4. StacksAgree'
  BY <1>1, <1>2, LeaveKeepsStacks
<1>5. NodesConsume'
  BY <1>1, <1>2 DEF NodesConsume, NodesOf
<1>. QED  BY <1>3, <1>4, <1>5 DEF IInv

(* A node is made by a function that has moved past a token, or is a block. *)
LEMMA ReturnNodeIsSafe ==
  ASSUME Inv, IInv, ReturnNode
  PROVE  IInv'
<1>. DEFINE a == acts[Len(acts)]
            n == [kind |-> Ins.kind, from |-> a.at, to |-> cur,
                  begun |-> a.begun, ended |-> Len(moved),
                  fields |-> a.fields \cup Ins.fields]
<1>1. StacksAgree /\ LastMove /\ RereadOnlyAfterNo /\ NodesConsume
  BY DEF IInv
<1>2. /\ Running /\ Leave /\ Stay /\ Body # <<>> /\ Ins.op = "node"
      /\ Ins.kind \in Kinds /\ Ins.fields \subseteq Fields
      /\ nodes' = Append(nodes, n)
  BY DEF ReturnNode, Leave, At
<1>3. LastMove' /\ RereadOnlyAfterNo'
  BY <1>1, <1>2, StayKeepsHistory
<1>4. StacksAgree'
  BY <1>1, <1>2, LeaveKeepsStacks
<1>5. /\ Ready(Body, Fed(a), tok, ~pushed, AfterNo)
      /\ Fed(a) \in BOOLEAN /\ (~pushed) \in BOOLEAN /\ AfterNo \in BOOLEAN
  BY <1>1, <1>2, RunningCode
<1>6. Ins.kind = "Block" \/ Fed(a)
  BY <1>2, <1>5, NodeAtReturn DEF Ins
<1>7. n.kind \in Kinds \ {"Block"} => n.begun < n.ended
  BY <1>6 DEF Fed
<1>8. nodes \in Seq(Nodes)
  BY DEF Inv, TypeOK, Nodes
<1>. HIDE DEF n
<1>9. \A i \in DOMAIN nodes' : nodes'[i] = n \/ \E j \in DOMAIN nodes : nodes'[i] = nodes[j]
  <2>1. nodes \in Seq(Nodes \cup {n}) /\ n \in Nodes \cup {n}
    BY <1>8
  <2>. QED  BY <1>2, <2>1, AppendProperties
<1>10. NodesConsume'
  BY <1>1, <1>7, <1>9 DEF NodesConsume, NodesOf
<1>. QED  BY <1>3, <1>4, <1>10 DEF IInv

(* A field is set in the locals: where they began stays.                   *)
LEMMA SetFieldsStacks ==
  ASSUME Inv, StacksAgree, SetFields
  PROVE  /\ Len(acts') = Len(acts)
         /\ \A k \in 1 .. Len(acts) : acts'[k].begun = acts[k].begun
<1>. DEFINE n == Len(acts)
            r == [acts[n] EXCEPT !.fields = @ \cup Ins.fields]
<1>1. n \in 1 .. n /\ acts \in Seq(Locals)
  BY StackTypes, RunningCode DEF SetFields, At
<1>2. acts[n] \in Locals /\ Ins.fields \subseteq Fields
  BY <1>1 DEF SetFields
<1>3. r \in Locals /\ r.begun = acts[n].begun
  BY <1>2 DEF Locals
<1>4. acts' = [acts EXCEPT ![n] = r]
  BY DEF SetFields
<1>. HIDE DEF r
<1>. QED  BY <1>1, <1>3, <1>4, ExceptSeq

LEMMA SetFieldsIsSafe ==
  ASSUME Inv, IInv, SetFields
  PROVE  IInv'
<1>. DEFINE n == Len(acts)
<1>1. StacksAgree /\ LastMove /\ RereadOnlyAfterNo /\ NodesConsume
  BY DEF IInv
<1>2. /\ Running /\ Stay /\ Body # <<>> /\ Ins.op = "set"
      /\ code' = [code EXCEPT ![Len(code)] = Tail(Body)]
      /\ nodes' = nodes
  BY DEF SetFields, At
<1>3. /\ Ready(Body, Fed(acts[n]), tok, ~pushed, AfterNo)
      /\ Fed(acts[n]) \in BOOLEAN /\ (~pushed) \in BOOLEAN /\ AfterNo \in BOOLEAN
      /\ n \in 1 .. n
  BY <1>1, <1>2, RunningCode
<1>4. Settled(Tail(Body), Fed(acts[n]))
  <2>1. Settled(Body, Fed(acts[n]))
    BY <1>2, <1>3, SettledAtStay DEF Ins
  <2>. QED  BY <1>2, <1>3, <2>1, SettledTail
<1>5. /\ n \in Nat
      /\ \A k \in 1 .. n : acts[k].begun <= Len(moved)
      /\ \A k \in 1 .. n - 1 : Settled(code[k], acts[k].begun < Len(moved))
  BY <1>1, StackTypes DEF StacksAgree, Fed
<1>6. /\ code' = [k \in 1 .. n |-> code'[k]] /\ code'[n] = Tail(Body)
      /\ \A k \in 1 .. n - 1 : code'[k] = code[k]
  BY <1>1, <1>2, GoOnStacks
<1>7. /\ Len(acts') = n
      /\ \A k \in 1 .. n : acts'[k].begun = acts[k].begun
  BY <1>1, SetFieldsStacks
<1>8. /\ LastMove' /\ RereadOnlyAfterNo' /\ moved' = moved
  BY <1>1, <1>2, StayKeepsHistory
<1>9. StacksAgree'
  <2>1. \A k \in 1 .. n : acts'[k].begun <= Len(moved)
    BY <1>5, <1>7
  <2>2. Settled(Tail(Body), acts[n].begun < Len(moved))
    BY <1>4 DEF Fed
  <2>3. ASSUME NEW k \in 1 .. n
        PROVE  Settled(code'[k], acts[k].begun < Len(moved))
    <3>1. k = n \/ k \in 1 .. n - 1
      BY <1>5
    <3>. QED  BY <1>5, <1>6, <2>2, <3>1, Zenon
  <2>4. ASSUME NEW k \in 1 .. n
        PROVE  Settled(code'[k], acts'[k].begun < Len(moved))
    <3>1. Settled(code'[k], acts[k].begun < Len(moved))
      BY <2>3
    <3>2. acts'[k].begun = acts[k].begun
      BY <1>7
    <3>. QED  BY <3>1, <3>2
  <2>5. Ready(code'[n], acts'[n].begun < Len(moved), tok', ~pushed', AfterNo')
    BY <1>3, <2>4 DEF Ready
  <2>6. \A k \in 1 .. n - 1 : Settled(code'[k], acts'[k].begun < Len(moved))
    BY <1>5, <2>4
  <2>. QED  BY <1>6, <1>7, <1>8, <2>1, <2>5, <2>6 DEF StacksAgree, Fed
<1>10. NodesConsume'
  BY <1>1, <1>2 DEF NodesConsume, NodesOf
<1>. QED  BY <1>8, <1>9, <1>10 DEF IInv

LEMMA OptionalSemicolonIsSafe ==
  ASSUME Inv, IInv, OptionalSemicolon
  PROVE  IInv'
<1>1. StacksAgree /\ LastMove /\ RereadOnlyAfterNo /\ NodesConsume
  BY DEF IInv
<1>2. /\ acts = <<>> /\ acts' = acts /\ code' = code /\ nodes' = nodes
      /\ MoveOn("syntax") \/ Stay
  BY DEF OptionalSemicolon
<1>3. "syntax" \in Uses
  BY DEF Uses
<1>4. LastMove' /\ RereadOnlyAfterNo'
  BY <1>1, <1>2, <1>3, MoveKeepsHistory, StayKeepsHistory
<1>5. StacksAgree'
  BY <1>1, <1>2 DEF StacksAgree
<1>6. NodesConsume'
  BY <1>1, <1>2 DEF NodesConsume, NodesOf
<1>. QED  BY <1>4, <1>5, <1>6 DEF IInv

(* The steps that change none of the variables IInv is about.              *)
LEMMA IdleIsSafe ==
  ASSUME Inv, IInv, Stay, UNCHANGED <<code, acts, nodes>>
  PROVE  IInv'
<1>1. StacksAgree /\ LastMove /\ RereadOnlyAfterNo /\ NodesConsume
  BY DEF IInv
<1>2. /\ LastMove' /\ RereadOnlyAfterNo' /\ moved' = moved /\ pushed' = pushed
      /\ tok' = tok /\ AfterNo' = AfterNo
  BY <1>1, StayKeepsHistory
<1>3. \A k : Fed(acts[k])' = Fed(acts[k])
  BY <1>2 DEF Fed
<1>4. StacksAgree'
  BY <1>1, <1>2 DEF StacksAgree, Fed
<1>5. NodesConsume'
  BY <1>1 DEF NodesConsume, NodesOf
<1>. QED  BY <1>2, <1>4, <1>5 DEF IInv

(* Parse starts in parseBlock, which returns no node but blocks.           *)
LEMMA StartsReady ==
  ASSUME Init
  PROVE  IInv
<1>1. /\ code = <<parseBlock>> /\ moved = <<>> /\ nodes = <<>>
      /\ acts = <<[at |-> 1, begun |-> 0, fields |-> {}]>>
      /\ pushed = FALSE
  BY DEF Init, StreamInit
<1>2. cur = 1
  BY DEF Init, StreamInit, cur
<1>3. parseBlock \in Seq(Code({"Block"}))
  <2>. DEFINE X == Plain({"Block"}) \cup Loops \cup BlockCalls
  <2>1. Plain({"Block"}) \subseteq X /\ Loops \subseteq X
    OBVIOUS
  <2>2. Code({"Block"}) = Nested(X)
    BY DEF Code
  <2>. HIDE DEF X
  <2>. QED  BY <2>1, <2>2, BlockForms, NestedHolds
<1>4. /\ Len(acts) = 1 /\ acts[1].begun = 0 /\ code[1] = parseBlock
      /\ code = [k \in 1 .. 1 |-> code[k]] /\ Len(moved) = 0
      /\ 1 - 1 = 0 /\ 1 .. 0 = {}
  <2>. HIDE <1>3
  <2>. QED  BY <1>1
<1>5. Settled(parseBlock, Fed(acts[1]))
  BY <1>3 DEF Settled
<1>6. Ready(parseBlock, Fed(acts[1]), tok, ~pushed, AfterNo)
  BY <1>5 DEF Ready
<1>7. StacksAgree
  BY <1>4, <1>6 DEF StacksAgree
<1>8. Last = 0
  BY <1>1 DEF Last
<1>9. LastMove
  BY <1>1, <1>2, <1>8 DEF LastMove
<1>10. RereadOnlyAfterNo /\ NodesConsume
  BY <1>1 DEF RereadOnlyAfterNo, NodesConsume, NodesOf
<1>. QED  BY <1>7, <1>9, <1>10 DEF IInv

----------------------------------------------------------------------------
(* All the steps.                                                          *)

LEMMA NextIsSafe ==
  ASSUME Inv, IInv, [Next]_vars
  PROVE  IInv'
<1>1. CASE ExpectEndOfInput
  BY <1>1, IdleIsSafe DEF ExpectEndOfInput
<1>2. CASE UNCHANGED vars
  BY <1>2, IdleIsSafe DEF vars, Stay
<1>3. CASE Returned
  BY <1>2, <1>3 DEF Returned
<1>. QED
  BY <1>1, <1>2, <1>3, WantIsSafe, GotIsSafe, TakeTokenIsSafe,
     AnyIdentifierIsSafe, PutBackIsSafe, ComplainIsSafe, CollectIsSafe,
     BranchIsSafe, CallIsSafe, SetFieldsIsSafe, ReturnNodeIsSafe,
     ReturnIsSafe, OptionalSemicolonIsSafe DEF Next, Parse

(* The invariant is one.                                                   *)
LEMMA ProgressInvariance == Spec => []IInv
<1>1. Init => IInv
  BY StartsReady
<1>2. Inv /\ IInv /\ [Next]_vars => IInv'
  BY NextIsSafe
<1>. QED  BY <1>1, <1>2, Invariance, PTL DEF Spec

(* On every text, right or wrong, and at every call: a function that may    *)
(* still return a node other than a block has moved past a token or will,   *)
(* before anything else; no loop over declarations or branches starts a    *)
(* turn at the end of the text; nothing is pushed back but the token after  *)
(* a NO.                                                                   *)
THEOREM StacksStayReady == Spec => []StacksAgree
<1>1. IInv => StacksAgree
  BY DEF IInv
<1>. QED  BY <1>1, ProgressInvariance, PTL

(* Whatever the text, parseDeclaration, the parse functions of statements,  *)
(* handlers and branches move past a token before they return their node.   *)
THEOREM EveryNodeConsumes == Spec => []NodesConsume
<1>1. IInv => NodesConsume
  BY DEF IInv
<1>. QED  BY <1>1, ProgressInvariance, PTL

(* Whatever the text, Parser.next passes the tokens in the text's order; the *)
(* one-token pushback of Scanner.PushBack makes it pass a token twice, never *)
(* a third time, and only after a NO that SCROLL does not follow.          *)
THEOREM RereadsOnlyAfterNo == Spec => []RereadOnlyAfterNo
<1>1. IInv => RereadOnlyAfterNo
  BY DEF IInv
<1>. QED  BY <1>1, ProgressInvariance, PTL

(* Scanner.PushBack has room for one token.  Whatever the text, the parser  *)
(* calls it only when the token pushed back before has been delivered.     *)
THEOREM PushesBackOneToken == Spec => PushBackHoldsOne
<1>1. Inv /\ IInv /\ PutBack => ~pushed
  <2>1. SUFFICES ASSUME Inv, IInv, PutBack
                 PROVE  ~pushed
    OBVIOUS
  <2>2. StacksAgree /\ Running /\ Body # <<>> /\ Ins.op = "pushBack"
    BY <2>1 DEF IInv, PutBack, At
  <2>3. /\ Ready(Body, Fed(acts[Len(acts)]), tok, ~pushed, AfterNo)
        /\ Fed(acts[Len(acts)]) \in BOOLEAN
        /\ (~pushed) \in BOOLEAN /\ AfterNo \in BOOLEAN
    BY <2>1, <2>2, RunningCode
  <2>4. AfterNo
    BY <2>2, <2>3, ReadyAtPushBack DEF Ins
  <2>. QED  BY <2>4 DEF AfterNo
<1>2. Inv /\ IInv => [PutBack => ~pushed]_vars
  BY <1>1
<1>. QED  BY <1>2, Invariance, ProgressInvariance, PTL DEF PushBackHoldsOne

=============================================================================
