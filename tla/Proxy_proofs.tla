---------------------------- MODULE Proxy_proofs ----------------------------
(***************************************************************************)
(* Theorems about Proxy, for every number of requests, lines and changes:  *)
(* what a record charges and which address it names.                       *)
(*                                                                         *)
(* Counts are taken from the lines that a write completes, so the first    *)
(* part says how the first and the last count of some lines follow from    *)
(* those of the lines before and the lines after.                          *)
(***************************************************************************)
EXTENDS Proxy, WellFoundedInduction, TLAPS

-----------------------------------------------------------------------------
(* Least and greatest numbers, and the counts of some lines.               *)

\* A set of natural numbers with an element has a least one.
LEMMA HasLeast ==
  ASSUME NEW S, S \subseteq Nat, S # {}
  PROVE  \E m \in S : \A k \in S : m <= k
<1>1. IsWellFoundedOn(OpToRel(<, Nat), Nat)
  BY NatLessThanWellFounded, Zenon
<1>2. PICK m \in S : \A k \in S : ~(<<k, m>> \in OpToRel(<, Nat))
  BY <1>1, WFMin, Zenon
<1>3. \A k \in S : ~(k < m)
  BY <1>2 DEF OpToRel
<1> QED
  BY <1>3

\* A bounded one has a greatest.
LEMMA HasGreatest ==
  ASSUME NEW n \in Nat, NEW S, S \subseteq 1..n, S # {}
  PROVE  \E m \in S : \A k \in S : k <= m
<1> DEFINE T == {n - k : k \in S}
<1>1. T \subseteq Nat /\ T # {}
  <2>1. \A k \in S : n - k \in Nat
    OBVIOUS
  <2>2. PICK k \in S : TRUE
    OBVIOUS
  <2>3. n - k \in T
    OBVIOUS
  <2> QED
    BY <2>1, <2>3
<1>2. PICK t \in T : \A u \in T : t <= u
  BY <1>1, HasLeast
<1>3. PICK m \in S : t = n - m
  BY <1>2
<1>4. ASSUME NEW k \in S PROVE k <= m
  <2>1. n - m <= n - k
    BY <1>2, <1>3, <1>4
  <2> QED
    BY <2>1
<1> QED
  BY <1>4

Nought(body, A, count) == \A i \in A : body[i][count] = 0

\* The first count of some lines, if there is one.
LEMMA FirstIs ==
  ASSUME NEW body \in Seq(Lines), NEW A, A \subseteq 1..Len(body)
  PROVE  /\ Nought(body, A, "prompt") => FirstCount(body, A) = 0
         /\ \A i \in A : /\ body[i].prompt # 0
                         /\ \A j \in A : body[j].prompt # 0 => i <= j
                         => FirstCount(body, A) = body[i].prompt
         /\ ~Nought(body, A, "prompt") =>
              \E i \in A : body[i].prompt # 0 /\ \A j \in A : body[j].prompt # 0 => i <= j
<1> DEFINE found == Nonzero(body, A, "prompt")
<1>1. found = {i \in A : body[i].prompt # 0}
  BY DEF Nonzero
<1>2. FirstCount(body, A)
        = IF found = {} THEN 0
          ELSE body[CHOOSE i \in found : \A j \in found : i <= j].prompt
  BY DEF FirstCount
<1>3. found \subseteq Nat /\ found \subseteq A
  <2>1. \A i \in 1..Len(body) : i \in Nat
    OBVIOUS
  <2> QED
    BY <1>1, <2>1
<1> HIDE DEF found
<1>4. Nought(body, A, "prompt") <=> found = {}
  BY <1>1 DEF Nought
<1>5. ASSUME NEW i \in A, body[i].prompt # 0, \A j \in A : body[j].prompt # 0 => i <= j
      PROVE  FirstCount(body, A) = body[i].prompt
  <2>1. i \in found /\ \A j \in found : i <= j
    BY <1>1, <1>5
  <2> DEFINE c == CHOOSE k \in found : \A j \in found : k <= j
  <2>2. c \in found /\ \A j \in found : c <= j
    BY <2>1
  <2> HIDE DEF c
  <2>3. c = i
    BY <1>3, <2>1, <2>2
  <2> QED
    BY <1>2, <2>1, <2>3 DEF c
<1>6. ASSUME ~Nought(body, A, "prompt")
      PROVE  \E i \in A : body[i].prompt # 0 /\ \A j \in A : body[j].prompt # 0 => i <= j
  <2>1. PICK i \in found : \A j \in found : i <= j
    BY <1>3, <1>4, <1>6, HasLeast
  <2> QED
    BY <1>1, <2>1
<1> QED
  BY <1>2, <1>4, <1>5, <1>6

\* The last count of some lines, if there is one.
LEMMA LastIs ==
  ASSUME NEW body \in Seq(Lines), NEW A, A \subseteq 1..Len(body), NEW old
  PROVE  /\ Nought(body, A, "eval") => LastCount(body, A, old) = old
         /\ \A i \in A : /\ body[i].eval # 0
                         /\ \A j \in A : body[j].eval # 0 => j <= i
                         => LastCount(body, A, old) = body[i].eval
         /\ ~Nought(body, A, "eval") =>
              \E i \in A : body[i].eval # 0 /\ \A j \in A : body[j].eval # 0 => j <= i
<1> DEFINE found == Nonzero(body, A, "eval")
<1>1. found = {i \in A : body[i].eval # 0}
  BY DEF Nonzero
<1>2. LastCount(body, A, old)
        = IF found = {} THEN old
          ELSE body[CHOOSE i \in found : \A j \in found : j <= i].eval
  BY DEF LastCount
<1>3. found \subseteq 1..Len(body) /\ found \subseteq A /\ Len(body) \in Nat
  <2>1. Len(body) \in Nat
    OBVIOUS
  <2> QED
    BY <1>1, <2>1
<1> HIDE DEF found
<1>4. Nought(body, A, "eval") <=> found = {}
  BY <1>1 DEF Nought
<1>5. ASSUME NEW i \in A, body[i].eval # 0, \A j \in A : body[j].eval # 0 => j <= i
      PROVE  LastCount(body, A, old) = body[i].eval
  <2>1. i \in found /\ \A j \in found : j <= i
    BY <1>1, <1>5
  <2> DEFINE c == CHOOSE k \in found : \A j \in found : j <= k
  <2>2. c \in found /\ \A j \in found : j <= c
    BY <2>1
  <2> HIDE DEF c
  <2>3. c = i
    BY <1>3, <2>1, <2>2
  <2> QED
    BY <1>2, <2>1, <2>3 DEF c
<1>6. ASSUME ~Nought(body, A, "eval")
      PROVE  \E i \in A : body[i].eval # 0 /\ \A j \in A : body[j].eval # 0 => j <= i
  <2>1. PICK i \in found : \A j \in found : j <= i
    BY <1>3, <1>4, <1>6, HasGreatest
  <2> QED
    BY <1>1, <2>1
<1> QED
  BY <1>2, <1>4, <1>5, <1>6

\* Counts are natural numbers; the first one of some lines is one of theirs or 0.
LEMMA CountTypes ==
  ASSUME NEW body \in Seq(Lines), NEW A, A \subseteq 1..Len(body), NEW old \in Nat
  PROVE  FirstCount(body, A) \in Nat /\ LastCount(body, A, old) \in Nat
<1>1. \A i \in A : body[i].prompt \in Nat /\ body[i].eval \in Nat
  BY ProxyAssumption
<1>2. FirstCount(body, A) \in Nat
  BY <1>1, FirstIs
<1>3. LastCount(body, A, old) \in Nat
  <2>1. CASE Nought(body, A, "eval")
    BY <2>1, LastIs
  <2>2. CASE ~Nought(body, A, "eval")
    <3>1. PICK i \in A : body[i].eval # 0 /\ \A j \in A : body[j].eval # 0 => j <= i
      BY <2>2, LastIs
    <3>2. LastCount(body, A, old) = body[i].eval
      BY <3>1, LastIs
    <3> QED
      BY <1>1, <3>1, <3>2
  <2> QED
    BY <2>1, <2>2
<1> QED
  BY <1>2, <1>3

\* The first count of some lines and of others behind them: the first of those
\* before, if they have one.
LEMMA FirstOfBoth ==
  ASSUME NEW body \in Seq(Lines), NEW A, NEW B, A \subseteq 1..Len(body),
         B \subseteq 1..Len(body), \A i \in A, j \in B : i < j
  PROVE  FirstCount(body, A \cup B)
           = IF FirstCount(body, A) = 0 THEN FirstCount(body, B) ELSE FirstCount(body, A)
<1>0. A \cup B \subseteq 1..Len(body)
  OBVIOUS
<1>1. CASE Nought(body, A, "prompt") /\ Nought(body, B, "prompt")
  <2>1. Nought(body, A \cup B, "prompt")
    BY <1>1 DEF Nought
  <2> QED
    BY <1>0, <1>1, <2>1, FirstIs
<1>2. CASE Nought(body, A, "prompt") /\ ~Nought(body, B, "prompt")
  <2>1. PICK i \in B : body[i].prompt # 0 /\ \A j \in B : body[j].prompt # 0 => i <= j
    BY <1>2, FirstIs
  <2>2. \A j \in A \cup B : body[j].prompt # 0 => i <= j
    BY <1>2, <2>1 DEF Nought
  <2>3. FirstCount(body, A \cup B) = body[i].prompt
    BY <1>0, <2>1, <2>2, FirstIs
  <2>4. FirstCount(body, B) = body[i].prompt
    BY <2>1, FirstIs
  <2>5. FirstCount(body, A) = 0
    BY <1>2, FirstIs
  <2> QED
    BY <2>3, <2>4, <2>5
<1>3. CASE ~Nought(body, A, "prompt")
  <2>1. PICK i \in A : body[i].prompt # 0 /\ \A j \in A : body[j].prompt # 0 => i <= j
    BY <1>3, FirstIs
  <2>2. \A j \in A \cup B : body[j].prompt # 0 => i <= j
    BY <2>1
  <2>3. FirstCount(body, A \cup B) = body[i].prompt
    BY <1>0, <2>1, <2>2, FirstIs
  <2>4. FirstCount(body, A) = body[i].prompt
    BY <2>1, FirstIs
  <2> QED
    BY <2>1, <2>3, <2>4
<1> QED
  BY <1>1, <1>2, <1>3

\* The last count of some lines and of others behind them: that of those behind,
\* if they have one, and else the one from before.
LEMMA LastOfBoth ==
  ASSUME NEW body \in Seq(Lines), NEW A \in SUBSET (1..Len(body)),
         NEW B \in SUBSET (1..Len(body)), \A i \in A, j \in B : i < j, NEW old \in Nat
  PROVE  LastCount(body, A \cup B, old) = LastCount(body, B, LastCount(body, A, old))
<1>0. A \cup B \subseteq 1..Len(body)
  OBVIOUS
<1>1. CASE Nought(body, A, "eval") /\ Nought(body, B, "eval")
  <2>1. Nought(body, A \cup B, "eval")
    BY <1>1 DEF Nought
  <2>2. LastCount(body, A \cup B, old) = old
    BY <1>0, <2>1, LastIs
  <2>3. LastCount(body, A, old) = old /\ LastCount(body, B, old) = old
    BY <1>1, LastIs
  <2> QED
    BY <2>2, <2>3
<1>2. CASE ~Nought(body, A, "eval") /\ Nought(body, B, "eval")
  <2>1. PICK i \in A : body[i].eval # 0 /\ \A j \in A : body[j].eval # 0 => j <= i
    BY <1>2, LastIs
  <2>2. \A j \in A \cup B : body[j].eval # 0 => j <= i
    BY <1>2, <2>1 DEF Nought
  <2>3. LastCount(body, A \cup B, old) = body[i].eval
    <3> DEFINE both == A \cup B
    <3>1. i \in both /\ both \subseteq 1..Len(body) /\ \A j \in both : body[j].eval # 0 => j <= i
      BY <1>0, <2>1, <2>2
    <3> HIDE DEF both
    <3>2. LastCount(body, both, old) = body[i].eval
      BY <2>1, <3>1, LastIs
    <3> QED
      BY <3>2 DEF both
  <2>4. LastCount(body, A, old) = body[i].eval
    BY <2>1, LastIs
  <2>5. LastCount(body, B, body[i].eval) = body[i].eval
    BY <1>2, LastIs
  <2> QED
    BY <2>3, <2>4, <2>5
<1>3. CASE ~Nought(body, B, "eval")
  <2>1. PICK i \in B : body[i].eval # 0 /\ \A j \in B : body[j].eval # 0 => j <= i
    BY <1>3, LastIs
  <2>2. \A j \in A \cup B : body[j].eval # 0 => j <= i
    BY <2>1
  <2>3. LastCount(body, A \cup B, old) = body[i].eval
    <3> DEFINE both == A \cup B
    <3>1. i \in both /\ both \subseteq 1..Len(body) /\ \A j \in both : body[j].eval # 0 => j <= i
      BY <1>0, <2>1, <2>2
    <3> HIDE DEF both
    <3>2. LastCount(body, both, old) = body[i].eval
      BY <2>1, <3>1, LastIs
    <3> QED
      BY <3>2 DEF both
  <2> DEFINE before == LastCount(body, A, old)
  <2>4. LastCount(body, B, before) = body[i].eval
    <3> HIDE DEF before
    <3> QED
      BY <2>1, LastIs
  <2> QED
    BY <2>3, <2>4
<1> QED
  BY <1>1, <1>2, <1>3

\* The lines that end within a part of an answer, and in a part behind it.
LEMMA Completed ==
  ASSUME NEW n \in Nat, NEW from \in Nat, NEW to \in Nat, from <= to, to <= 2 * n
  PROVE  /\ CompletedBy(from, to) \subseteq 1..n /\ CompletedBy(0, from) \subseteq 1..n
         /\ CompletedBy(0, to) = CompletedBy(0, from) \cup CompletedBy(from, to)
         /\ \A i \in CompletedBy(0, from), j \in CompletedBy(from, to) : i < j
         /\ CompletedBy(0, 0) = {} /\ CompletedBy(0, 2 * n) = 1..n
<1>1. CompletedBy(from, to) \subseteq 1..n /\ CompletedBy(0, from) \subseteq 1..n
  BY DEF CompletedBy
<1>2. CompletedBy(0, to) = CompletedBy(0, from) \cup CompletedBy(from, to)
  BY DEF CompletedBy
<1>3. \A i \in CompletedBy(0, from), j \in CompletedBy(from, to) : i < j
  BY DEF CompletedBy
<1>4. CompletedBy(0, 0) = {} /\ CompletedBy(0, 2 * n) = 1..n
  BY DEF CompletedBy
<1> QED
  BY <1>1, <1>2, <1>3, <1>4

-----------------------------------------------------------------------------
(* The invariant.                                                          *)

Early == {"idle", "resolve", "pool", "select", "reach", "forward"}
Free(q) == q.prompt = 0 /\ q.eval = 0

\* The answer did not come in whole for a client that is still there, and will not.
Lost(r) == upstream[r] \in {"closed", "broken"} \/ ~staying[r]

\* What a request is to be charged for an answer.
Counted(q, lines) == q.kind = "stream" \/ (q.kind \in {"unseen", "plain"} /\ Len(lines) = 1)
Due(q, lines) == IF Counted(q, lines) THEN Reported(lines) ELSE [prompt |-> 0, eval |-> 0]

\* What has been counted of a body that is being passed on: a body of one line was
\* counted when it was read, a longer one of a stream as far as it was written.
CountedSoFar(q) ==
  /\ Len(q.body) = 1 => q.prompt = q.body[1].prompt /\ q.eval = q.body[1].eval
  /\ Len(q.body) # 1 /\ q.kind \in {"unseen", "plain"} => Free(q)
  /\ Len(q.body) # 1 /\ q.kind = "stream" =>
       /\ q.prompt = FirstCount(q.body, CompletedBy(0, q.written))
       /\ q.eval = LastCount(q.body, CompletedBy(0, q.written), 0)

Whole(r) == upstream[r] = "ended" /\ req[r].body = sent[r] /\ CountedSoFar(req[r])

\* Nothing has come in and nothing was counted.
Untouched(r) == req[r].body = <<>> /\ req[r].written = 0 /\ Free(req[r])

\* Part of an answer of each kind has been passed on.
Passing(r) ==
  /\ req[r].written <= 2 * Len(Body(r))
  /\ \/ req[r].kind = "other" /\ req[r].body = <<>> /\ Free(req[r])
     \/ req[r].kind # "other" /\ (Whole(r) \/ (Lost(r) /\ req[r].body = <<>> /\ Free(req[r])))

\* The whole answer was passed on and counted.
Delivered(r) ==
  /\ upstream[r] = "ended" /\ req[r].written = 2 * Len(sent[r])
  /\ req[r].prompt = Due(req[r], sent[r]).prompt /\ req[r].eval = Due(req[r], sent[r]).eval

Recorded(r) ==
  \E a \in Addresses :
    records[r] = <<[address |-> a, prompt |-> req[r].prompt, eval |-> req[r].eval]>>

Charge(r) ==
  /\ req[r].pc \in Early => Untouched(r) /\ upstream[r] = "closed" /\ sent[r] = <<>>
  /\ req[r].pc = "body" => Untouched(r) /\ req[r].kind # "other" /\ upstream[r] # "closed"
  /\ req[r].pc = "write" => Passing(r) /\ upstream[r] # "closed"
  /\ req[r].pc = "log" => Delivered(r) \/ (Lost(r) /\ Free(req[r]))
  /\ req[r].pc # "done" => records[r] = <<>>
  /\ req[r].pc = "done" =>
       \/ Lost(r) /\ records[r] = <<>>
       \/ Lost(r) /\ Free(req[r]) /\ Recorded(r)
       \/ Delivered(r) /\ Recorded(r)

\* The object a request was sent to is one the manager has or had, and its address
\* is among those that were noted.
Known(r) ==
  /\ req[r].objects \subseteq created
  /\ req[r].pc \in {"reach", "forward", "body", "write", "log"} =>
       req[r].object \in created /\ address[req[r].object] \in had[r]
  /\ \A i \in DOMAIN records[r] : records[r][i].address \in had[r]

IInv == TypeOK /\ \A r \in Requests : Charge(r) /\ Known(r)

\* A request's own steps, and those of its backend and client, touch no other one.
OthersStay(r) ==
  \A s \in Requests \ {r} :
    /\ req'[s] = req[s] /\ sent'[s] = sent[s] /\ upstream'[s] = upstream[s]
    /\ staying'[s] = staying[s] /\ records'[s] = records[s] /\ had'[s] = had[s]

-----------------------------------------------------------------------------
(* Types, and what a step leaves alone.                                    *)

\* The initial state satisfies the invariant.
LEMMA InitHolds == Init => IInv
<1> SUFFICES ASSUME Init PROVE IInv
  OBVIOUS
<1>1. Idle \in Request
  <2>1. <<>> \in Seq(Lines)
    OBVIOUS
  <2> QED
    BY <2>1 DEF Idle, Request, Places, RequestKinds, Statuses
<1>2. TypeOK
  <2>1. 0 \in 0..MaxRequests /\ 0 \in 0..MaxAdmin
    BY ProxyAssumption
  <2>2. /\ created \subseteq Objects /\ byName \in [BackendNames -> created \cup {NoObject}]
        /\ address \in [Objects -> Addresses]
    BY DEF Init
  <2>3. /\ req \in [Requests -> Request] /\ sent \in [Requests -> Seq(Lines)]
        /\ records \in [Requests -> Seq(UsageRecord)] /\ had \in [Requests -> SUBSET Addresses]
    BY <1>1 DEF Init
  <2> QED
    BY <2>1, <2>2, <2>3 DEF Init, TypeOK
<1>3. ASSUME NEW r \in Requests PROVE Charge(r) /\ Known(r)
  <2>1. /\ req[r] = Idle /\ sent[r] = <<>> /\ upstream[r] = "closed" /\ records[r] = <<>>
    BY DEF Init
  <2>2. /\ req[r].pc = "idle" /\ req[r].body = <<>> /\ req[r].written = 0
        /\ Free(req[r]) /\ req[r].objects = {}
    BY <2>1 DEF Idle, Free
  <2>3. Charge(r)
    BY <2>1, <2>2 DEF Charge, Untouched, Early
  <2>4. Known(r)
    BY <2>1, <2>2 DEF Known
  <2> QED
    BY <2>3, <2>4
<1> QED
  BY <1>2, <1>3 DEF IInv

\* A request's body, as far as it is there, is lines.
LEMMA BodyTypes ==
  ASSUME TypeOK, NEW r \in Requests
  PROVE  /\ req[r] \in Request /\ sent[r] \in Seq(Lines) /\ req[r].body \in Seq(Lines)
         /\ Body(r) \in Seq(Lines) /\ Len(Body(r)) \in Nat /\ req[r].written \in Nat
         /\ req[r].prompt \in Nat /\ req[r].eval \in Nat
<1>1. req[r] \in Request /\ sent[r] \in Seq(Lines)
  BY DEF TypeOK
<1>2. /\ req[r].body \in Seq(Lines) /\ req[r].written \in Nat
      /\ req[r].prompt \in Nat /\ req[r].eval \in Nat
  BY <1>1 DEF Request
<1>3. Body(r) \in Seq(Lines)
  BY <1>1, <1>2 DEF Body
<1> QED
  BY <1>1, <1>2, <1>3

\* A request that is over keeps what it was, but for what is not read again.
LEMMA DoneIs ==
  ASSUME TypeOK, NEW r \in Requests, NEW status \in Statuses,
         Done(r, status)
  PROVE  /\ req' \in [Requests -> Request]
         /\ \A s \in Requests \ {r} : req'[s] = req[s]
         /\ req'[r].pc = "done" /\ req'[r].objects = {} /\ req'[r].object = req[r].object
         /\ req'[r].kind = req[r].kind /\ req'[r].body = req[r].body
         /\ req'[r].written = req[r].written
         /\ req'[r].prompt = req[r].prompt /\ req'[r].eval = req[r].eval
<1> DEFINE p == Forget(req[r])
<1> DEFINE q == [p EXCEPT !.pc = "done", !.status = status]
<1>1. req[r] \in Request /\ req \in [Requests -> Request]
  BY DEF TypeOK
<1>2. /\ p.objects = {} /\ p.object = req[r].object
      /\ p.kind = req[r].kind /\ p.body = req[r].body /\ p.written = req[r].written
      /\ p.prompt = req[r].prompt /\ p.eval = req[r].eval
      /\ p \in Request
  BY <1>1 DEF Forget, Request
<1> HIDE DEF p
<1>3. "done" \in Places
  BY DEF Places
<1>5. /\ q.pc = "done" /\ q.objects = p.objects /\ q.object = p.object
      /\ q.kind = p.kind /\ q.body = p.body /\ q.written = p.written
      /\ q.prompt = p.prompt /\ q.eval = p.eval
      /\ q \in Request
  BY <1>2, <1>3 DEF Request
<1>4. req' = [req EXCEPT ![r] = q]
  BY <1>1 DEF Done, p
<1> HIDE DEF q
<1> QED
  BY <1>1, <1>2, <1>4, <1>5

\* A step that changes one request, or what its backend and client do, keeps the
\* invariant if it keeps it for that request.
LEMMA OneRequest ==
  ASSUME IInv, NEW r \in Requests, OthersStay(r), UNCHANGED world,
         TypeOK', Charge(r)', Known(r)'
  PROVE  IInv'
<1> SUFFICES ASSUME NEW s \in Requests \ {r} PROVE Charge(s)' /\ Known(s)'
  BY DEF IInv
<1>1. /\ req'[s] = req[s] /\ sent'[s] = sent[s] /\ upstream'[s] = upstream[s]
      /\ staying'[s] = staying[s] /\ records'[s] = records[s] /\ had'[s] = had[s]
      /\ created' = created /\ address' = address
  BY DEF OthersStay, world
<1>2. Charge(s) /\ Known(s)
  BY DEF IInv
<1>3. Known(s)'
  BY <1>1, <1>2 DEF Known
<1>4. /\ Untouched(s)' = Untouched(s) /\ Lost(s)' = Lost(s) /\ Body(s)' = Body(s)
      /\ Whole(s)' = Whole(s) /\ Delivered(s)' = Delivered(s)
      /\ Recorded(s)' = Recorded(s)
  BY <1>1 DEF Untouched, Lost, Body, Whole, Delivered, Recorded
<1>5. Passing(s)' = Passing(s)
  BY <1>1, <1>4 DEF Passing
<1>6. Charge(s)'
  BY <1>1, <1>2, <1>4, <1>5 DEF Charge
<1> QED
  BY <1>3, <1>6

\* One request's record is replaced.
LEMMA Replaced ==
  ASSUME TypeOK, NEW r \in Requests, NEW q \in Request, req' = [req EXCEPT ![r] = q]
  PROVE  /\ req' \in [Requests -> Request] /\ req'[r] = q
         /\ \A s \in Requests \ {r} : req'[s] = req[s]
  BY DEF TypeOK

-----------------------------------------------------------------------------
(* Before the backend is called.                                           *)

\* Whatever moves on before the backend is called has nothing to charge.
LEMMA EarlyCharge ==
  ASSUME IInv, NEW r \in Requests, req[r].pc \in Early, NEW q \in Request,
         req' = [req EXCEPT ![r] = q], q.pc \in Early \cup {"done"},
         q.body = <<>>, q.written = 0, Free(q), UNCHANGED <<answers, records>>
  PROVE  Charge(r)'
<1>1. req'[r] = q
  BY Replaced DEF IInv
<1>2. upstream'[r] = "closed" /\ sent'[r] = <<>> /\ records'[r] = <<>>
  BY DEF IInv, Charge, Early, answers
<1>3. Untouched(r)' /\ Lost(r)'
  BY <1>1, <1>2 DEF Untouched, Lost, Free
<1>4. q.pc # "body" /\ q.pc # "write" /\ q.pc # "log"
  BY DEF Early
<1> QED
  BY <1>1, <1>2, <1>3, <1>4 DEF Charge

\* The steps up to the test of the backend.
LEMMA EarlySteps ==
  ASSUME IInv, NEW r \in Requests,
         \/ \E kind \in Kinds, model \in ModelNames \cup {NoModel} : Arrive(r, kind, model)
         \/ Resolve(r) \/ BuildPool(r) \/ Select(r) \/ Reach(r)
  PROVE  TypeOK' /\ OthersStay(r) /\ UNCHANGED world /\ Charge(r)' /\ Known(r)'
<1>0. TypeOK /\ Known(r) /\ Charge(r)
  BY DEF IInv
<1>r. /\ req[r] \in Request /\ req \in [Requests -> Request]
      /\ created \subseteq Objects /\ byName \in [BackendNames -> created \cup {NoObject}]
      /\ address \in [Objects -> Addresses] /\ had \in [Requests -> SUBSET Addresses]
      /\ catalog \in Catalogs
  BY <1>0 DEF TypeOK
<1>w. UNCHANGED world /\ UNCHANGED answers /\ UNCHANGED records
  BY DEF Arrive, Resolve, BuildPool, Select, Reach
<1>e. req[r].pc \in Early /\ records'[r] = <<>>
  BY <1>0, <1>w DEF Arrive, Resolve, BuildPool, Select, Reach, At, Early, Charge
<1>u. req[r].body = <<>> /\ req[r].written = 0 /\ Free(req[r])
  BY <1>0, <1>e DEF Charge, Untouched
<1>s. served' \in 0..MaxRequests
  <2>1. served \in 0..MaxRequests /\ MaxRequests \in Nat
    BY <1>0, ProxyAssumption DEF TypeOK
  <2>2. (served < MaxRequests /\ served' = served + 1) \/ served' = served
    BY DEF Arrive, Resolve, BuildPool, Select, Reach
  <2> QED
    BY <2>1, <2>2
<1>p. Early \subseteq Places /\ "done" \in Places /\ {0, 403, 404, 500, 502, 503} \subseteq Statuses
  BY DEF Early, Places, Statuses
\* What a new record and new notes must satisfy.
<1>k. ASSUME NEW q \in Request, req' = [req EXCEPT ![r] = q], q.pc \in Early \cup {"done"},
             q.body = <<>>, q.written = 0, Free(q), q.objects \subseteq created,
             had' \in [Requests -> SUBSET Addresses],
             \A s \in Requests \ {r} : had'[s] = had[s],
             q.pc = "reach" \/ q.pc = "forward" =>
               q.object \in created /\ address[q.object] \in had'[r]
      PROVE  TypeOK' /\ OthersStay(r) /\ UNCHANGED world /\ Charge(r)' /\ Known(r)'
  <2>1. /\ req' \in [Requests -> Request] /\ req'[r] = q
        /\ \A s \in Requests \ {r} : req'[s] = req[s]
    BY <1>0, <1>k, Replaced
  <2>2. Charge(r)'
    BY <1>e, <1>k, <1>w, EarlyCharge
  <2>3. OthersStay(r)
    BY <1>k, <1>w, <2>1 DEF OthersStay, answers
  <2>4. TypeOK'
    BY <1>0, <1>k, <1>s, <1>w, <2>1 DEF TypeOK, world, answers
  <2>5. q.pc \notin {"body", "write", "log"}
    BY <1>k DEF Early
  <2>6. Known(r)'
    BY <1>e, <1>k, <1>w, <2>1, <2>5 DEF Known, world
  <2> QED
    BY <1>w, <2>2, <2>3, <2>4, <2>6
<1>d. ASSUME NEW status \in Statuses, Done(r, status), UNCHANGED had
      PROVE  TypeOK' /\ OthersStay(r) /\ UNCHANGED world /\ Charge(r)' /\ Known(r)'
  <2> DEFINE q == req'[r]
  <2>1. /\ q \in Request /\ q.pc = "done" /\ q.objects = {} /\ q.body = <<>>
        /\ q.written = 0 /\ Free(q)
    BY <1>0, <1>d, <1>u, DoneIs DEF Free
  <2>2. req' = [req EXCEPT ![r] = q]
    BY <1>r, <1>d DEF Done
  <2> HIDE DEF q
  <2>3. had' \in [Requests -> SUBSET Addresses] /\ \A s \in Requests \ {r} : had'[s] = had[s]
    BY <1>r, <1>d
  <2> QED
    BY <1>k, <2>1, <2>2, <2>3
<1>1. ASSUME NEW kind \in Kinds, NEW model \in ModelNames \cup {NoModel}, Arrive(r, kind, model)
      PROVE  TypeOK' /\ OthersStay(r) /\ UNCHANGED world /\ Charge(r)' /\ Known(r)'
  <2> DEFINE q == [Idle EXCEPT !.pc = "resolve", !.kind = kind, !.model = model]
             bad == [Idle EXCEPT !.pc = "done", !.kind = kind, !.status = 400]
  <2>0. /\ Idle \in Request /\ {"resolve", "done"} \subseteq Places /\ kind \in RequestKinds
        /\ 400 \in Statuses
    <3>1. <<>> \in Seq(Lines)
      OBVIOUS
    <3> QED
      BY <3>1, ProxyAssumption DEF Idle, Request, Places, RequestKinds, Statuses
  <2>1. q \in Request /\ bad \in Request
    <3>1. q \in Request
      BY <2>0 DEF Request
    <3>2. bad \in Request
      BY <2>0 DEF Request
    <3> QED
      BY <3>1, <3>2
  <2>2. /\ q.pc = "resolve" /\ q.objects = {} /\ q.body = <<>> /\ q.written = 0 /\ Free(q)
        /\ bad.pc = "done" /\ bad.objects = {} /\ bad.body = <<>> /\ bad.written = 0 /\ Free(bad)
    BY DEF Idle, Free
  <2>3. (req' = [req EXCEPT ![r] = q] \/ req' = [req EXCEPT ![r] = bad]) /\ had' = had
    BY <1>1 DEF Arrive
  <2> HIDE DEF q, bad
  <2>4. CASE req' = [req EXCEPT ![r] = q]
    BY <1>k, <1>r, <2>1, <2>2, <2>3, <2>4 DEF Early
  <2>5. CASE req' = [req EXCEPT ![r] = bad]
    BY <1>k, <1>r, <2>1, <2>2, <2>3, <2>5
  <2> QED
    BY <2>3, <2>4, <2>5
<1>2. CASE Resolve(r)
  <2>0. had' = had
    BY <1>2 DEF Resolve
  <2>1. CASE Done(r, 404)
    BY <1>d, <1>p, <2>0, <2>1
  <2>2. CASE Done(r, 403)
    BY <1>d, <1>p, <2>0, <2>2
  <2>3. CASE req' = [req EXCEPT ![r].pc = "pool"]
    <3> DEFINE q == [req[r] EXCEPT !.pc = "pool"]
    <3>0. "pool" \in Places
      BY <1>p DEF Early
    <3>1. q \in Request
      BY <1>r, <3>0 DEF Request
    <3>2. /\ q.pc = "pool" /\ q.objects = req[r].objects /\ q.body = <<>> /\ q.written = 0
          /\ Free(q)
      BY <1>r, <1>u DEF Request, Free
    <3>3. req' = [req EXCEPT ![r] = q]
      BY <2>3
    <3> HIDE DEF q
    <3> QED
      BY <1>0, <1>k, <1>r, <2>0, <3>1, <3>2, <3>3 DEF Known, Early
  <2>4. ASSUME NEW model \in DOMAIN catalog,
               req' = [req EXCEPT ![r] = [@ EXCEPT !.pc = "pool", !.model = NoModel,
                                                   !.pool = catalog[model]]]
        PROVE  TypeOK' /\ OthersStay(r) /\ UNCHANGED world /\ Charge(r)' /\ Known(r)'
    <3> DEFINE q == [req[r] EXCEPT !.pc = "pool", !.model = NoModel, !.pool = catalog[model]]
    <3>0. catalog[model] \in SUBSET BackendNames /\ "pool" \in Places
      BY <1>r, <1>p, <2>4, ProxyAssumption DEF Early
    <3>1. q \in Request
      BY <1>r, <3>0 DEF Request
    <3>2. /\ q.pc = "pool" /\ q.objects = req[r].objects /\ q.body = <<>> /\ q.written = 0
          /\ Free(q)
      BY <1>r, <1>u DEF Request, Free
    <3>3. req' = [req EXCEPT ![r] = q]
      BY <2>4
    <3> HIDE DEF q
    <3> QED
      BY <1>0, <1>k, <1>r, <2>0, <3>1, <3>2, <3>3 DEF Known, Early
  <2> QED
    BY <1>2, <2>1, <2>2, <2>3, <2>4 DEF Resolve
<1>3. CASE BuildPool(r)
  <2>0. had' = had
    BY <1>3 DEF BuildPool
  <2>1. CASE Missing(req[r].pool)
    BY <1>3, <1>d, <1>p, <2>0, <2>1 DEF BuildPool
  <2>2. CASE ~Missing(req[r].pool)
    <3> DEFINE q == [req[r] EXCEPT !.pc = "select", !.pool = {}, !.objects = Members(req[r].pool)]
    <3>1. Members(req[r].pool) \subseteq created
      <4>1. req[r].pool \subseteq BackendNames
        BY <1>r DEF Request
      <4> QED
        BY <1>r, <2>2, <4>1 DEF Members, Missing
    <3>2. Members(req[r].pool) \in SUBSET Objects /\ "select" \in Places
      BY <1>r, <1>p, <3>1 DEF Early
    <3>3. q \in Request
      BY <1>r, <3>2 DEF Request
    <3>4. /\ q.pc = "select" /\ q.objects = Members(req[r].pool) /\ q.body = <<>>
          /\ q.written = 0 /\ Free(q)
      BY <1>r, <1>u DEF Request, Free
    <3>5. req' = [req EXCEPT ![r] = q]
      BY <1>3, <2>2 DEF BuildPool
    <3> HIDE DEF q
    <3> QED
      BY <1>k, <1>r, <2>0, <3>1, <3>3, <3>4, <3>5 DEF Early
  <2> QED
    BY <2>1, <2>2
<1>4. CASE Select(r)
  <2>1. CASE Done(r, 503) /\ UNCHANGED had
    BY <1>d, <1>p, <2>1
  <2>2. ASSUME NEW o \in req[r].objects,
               req' = [req EXCEPT ![r] =
                         [@ EXCEPT !.pc = "reach", !.object = o, !.objects = {},
                                   !.name = IF \E b \in BackendNames : byName[b] = o
                                            THEN CHOOSE b \in BackendNames : byName[b] = o
                                            ELSE NoBackend]],
               had' = [had EXCEPT ![r] = {address[o]}]
        PROVE  TypeOK' /\ OthersStay(r) /\ UNCHANGED world /\ Charge(r)' /\ Known(r)'
    <3> DEFINE name == IF \E b \in BackendNames : byName[b] = o
                       THEN CHOOSE b \in BackendNames : byName[b] = o ELSE NoBackend
    <3>1. name \in BackendNames \cup {NoBackend}
      OBVIOUS
    <3>2. o \in created /\ o \in Objects /\ "reach" \in Places /\ address[o] \in Addresses
      BY <1>0, <1>p, <1>r, <2>2 DEF Known, Early
    <3>3. req' = [req EXCEPT ![r] = [@ EXCEPT !.pc = "reach", !.object = o, !.objects = {},
                                              !.name = name]]
      BY <2>2
    <3> HIDE DEF name
    <3> DEFINE q == [req[r] EXCEPT !.pc = "reach", !.object = o, !.objects = {}, !.name = name]
    <3>4. q \in Request
      BY <1>r, <3>1, <3>2 DEF Request
    <3>5. /\ q.pc = "reach" /\ q.objects = {} /\ q.body = <<>> /\ q.object = o
          /\ q.written = 0 /\ Free(q)
      BY <1>r, <1>u DEF Request, Free
    <3>6. req' = [req EXCEPT ![r] = q]
      BY <3>3
    <3>7. /\ had' \in [Requests -> SUBSET Addresses] /\ had'[r] = {address[o]}
          /\ \A s \in Requests \ {r} : had'[s] = had[s]
      BY <1>r, <2>2, <3>2
    <3> HIDE DEF q
    <3> QED
      BY <1>k, <3>2, <3>4, <3>5, <3>6, <3>7 DEF Early
  <2> QED
    BY <1>4, <2>1, <2>2 DEF Select
<1>5. CASE Reach(r)
  <2>0. had' = had
    BY <1>5 DEF Reach
  <2>1. CASE Done(r, 502)
    BY <1>d, <1>p, <2>0, <2>1
  <2>2. CASE req' = [req EXCEPT ![r].pc = "forward"]
    <3> DEFINE q == [req[r] EXCEPT !.pc = "forward"]
    <3>0. "forward" \in Places
      BY <1>p DEF Early
    <3>1. q \in Request
      BY <1>r, <3>0 DEF Request
    <3>2. /\ q.pc = "forward" /\ q.objects = req[r].objects /\ q.body = <<>> /\ q.written = 0
          /\ Free(q) /\ q.object = req[r].object
      BY <1>r, <1>u DEF Request, Free
    <3>3. req' = [req EXCEPT ![r] = q]
      BY <2>2
    <3>4. req[r].object \in created /\ address[req[r].object] \in had'[r]
      BY <1>0, <1>5, <2>0 DEF Reach, At, Known
    <3> HIDE DEF q
    <3> QED
      BY <1>0, <1>k, <1>r, <2>0, <3>1, <3>2, <3>3, <3>4 DEF Known, Early
  <2> QED
    BY <1>5, <2>1, <2>2 DEF Reach
<1> QED
  BY <1>1, <1>2, <1>3, <1>4, <1>5

-----------------------------------------------------------------------------
(* From the call of the backend to the record.                             *)

\* A step from the call on, of which it is known that it charges rightly, keeps
\* the rest of the invariant.
LEMMA Moves ==
  ASSUME IInv, NEW r \in Requests, req[r].pc \in {"forward", "body", "write"},
         NEW q \in Request, req' = [req EXCEPT ![r] = q], q.object = req[r].object,
         q.objects = req[r].objects \/ q.objects = {},
         UNCHANGED <<world, sent, staying, records, had, served>>,
         upstream' \in [Requests -> {"closed", "sending", "ended", "broken"}],
         \A s \in Requests \ {r} : upstream'[s] = upstream[s]
  PROVE  TypeOK' /\ OthersStay(r) /\ UNCHANGED world /\ Known(r)'
<1>0. TypeOK /\ Known(r)
  BY DEF IInv
<1>1. /\ req' \in [Requests -> Request] /\ req'[r] = q
      /\ \A s \in Requests \ {r} : req'[s] = req[s]
  BY <1>0, Replaced
<1>2. TypeOK'
  BY <1>0, <1>1 DEF TypeOK, world
<1>3. OthersStay(r)
  BY <1>1 DEF OthersStay
<1>4. Known(r)'
  BY <1>0, <1>1 DEF Known, world
<1> QED
  BY <1>2, <1>3, <1>4

\* The call, which may fail.
LEMMA ForwardStep ==
  ASSUME IInv, NEW r \in Requests, Forward(r)
  PROVE  TypeOK' /\ OthersStay(r) /\ UNCHANGED world /\ Charge(r)' /\ Known(r)'
<1>0. /\ TypeOK /\ Charge(r) /\ req[r].pc = "forward"
      /\ UNCHANGED <<world, sent, staying, records, had, served>>
  BY DEF IInv, Forward, At
<1>1. req[r] \in Request
  BY <1>0 DEF TypeOK
<1>2. Untouched(r) /\ upstream[r] = "closed" /\ sent[r] = <<>> /\ records[r] = <<>>
  BY <1>0 DEF Charge, Early
<1>p. /\ "log" \in Places /\ "write" \in Places /\ "body" \in Places
      /\ 200 \in Statuses /\ 502 \in Statuses
  BY DEF Places, Statuses
<1>e. "log" \notin Early /\ "write" \notin Early /\ "body" \notin Early
  BY DEF Early
<1>3. CASE req' = [req EXCEPT ![r] = [@ EXCEPT !.pc = "log", !.status = 502]] /\ UNCHANGED upstream
  <2> DEFINE pc == "log"
             status == 502
  <2>0. req' = [req EXCEPT ![r] = [@ EXCEPT !.pc = pc, !.status = status]]
    BY <1>3
  <2>1. pc \in Places /\ status \in Statuses /\ pc = "log"
    BY <1>p
  <2> HIDE DEF pc, status
  <2> DEFINE q == [req[r] EXCEPT !.pc = pc, !.status = status]
  <2>2. q \in Request
    BY <1>1, <2>1 DEF Request
  <2>3. /\ q.pc = "log" /\ q.object = req[r].object /\ q.objects = req[r].objects
        /\ q.prompt = req[r].prompt /\ q.eval = req[r].eval
    BY <1>1, <2>1 DEF Request
  <2>4. req' = [req EXCEPT ![r] = q]
    BY <2>0
  <2>5. upstream' \in [Requests -> {"closed", "sending", "ended", "broken"}]
    BY <1>0, <1>3 DEF TypeOK
  <2> HIDE DEF q
  <2>6. req'[r] = q
    BY <1>0, <2>2, <2>4, Replaced
  <2>7. Charge(r)'
    <3>1. Lost(r)' /\ Free(req[r])'
      BY <1>2, <1>3, <2>3, <2>6 DEF Untouched, Lost, Free
    <3> QED
      BY <1>0, <1>2, <1>e, <2>3, <2>6, <3>1 DEF Charge
  <2>8. \A s \in Requests \ {r} : upstream'[s] = upstream[s]
    BY <1>3
  <2> QED
    BY <1>0, <2>2, <2>3, <2>4, <2>5, <2>7, <2>8, Moves
<1>4. CASE /\ req' = [req EXCEPT ![r] =
                        [@ EXCEPT !.pc = IF req[r].kind = "other" THEN "write" ELSE "body",
                                  !.status = 200]]
           /\ upstream' = [upstream EXCEPT ![r] = "sending"]
  <2> DEFINE pc == IF req[r].kind = "other" THEN "write" ELSE "body"
             status == 200
  <2>0. req' = [req EXCEPT ![r] = [@ EXCEPT !.pc = pc, !.status = status]]
    BY <1>4
  <2>1. /\ pc \in Places /\ status \in Statuses
        /\ (pc = "write" /\ req[r].kind = "other") \/ (pc = "body" /\ req[r].kind # "other")
    BY <1>p
  <2> HIDE DEF pc, status
  <2> DEFINE q == [req[r] EXCEPT !.pc = pc, !.status = status]
  <2>2. q \in Request
    BY <1>1, <2>1 DEF Request
  <2>3. /\ q.pc = pc /\ q.object = req[r].object /\ q.objects = req[r].objects
        /\ q.prompt = req[r].prompt /\ q.eval = req[r].eval /\ q.kind = req[r].kind
        /\ q.body = req[r].body /\ q.written = req[r].written
    BY <1>1 DEF Request
  <2>4. req' = [req EXCEPT ![r] = q]
    BY <2>0
  <2>5. /\ upstream' \in [Requests -> {"closed", "sending", "ended", "broken"}]
        /\ upstream'[r] = "sending" /\ \A s \in Requests \ {r} : upstream'[s] = upstream[s]
    BY <1>0, <1>4 DEF TypeOK
  <2> HIDE DEF q
  <2>6. req'[r] = q
    BY <1>0, <2>2, <2>4, Replaced
  <2>7. Untouched(r)'
    BY <1>2, <2>3, <2>6 DEF Untouched, Free
  <2>c. /\ req'[r].pc = pc /\ req'[r].kind = q.kind /\ upstream'[r] # "closed"
        /\ records'[r] = <<>>
    BY <1>0, <1>2, <2>3, <2>5, <2>6
  <2>8. ASSUME pc = "write" PROVE Charge(r)'
    <3>1. q.kind = "other" /\ sent'[r] = <<>> /\ Body(r)' = <<>>
      BY <1>0, <1>2, <2>1, <2>3, <2>6, <2>8 DEF Body
    <3>2. Passing(r)'
      <4>1. Len(Body(r)') = 0
        BY <3>1
      <4> QED
        BY <2>3, <2>6, <2>7, <3>1, <4>1 DEF Passing, Untouched
    <3> QED
      BY <1>e, <2>c, <2>8, <3>2 DEF Charge
  <2>9. ASSUME pc = "body" PROVE Charge(r)'
    <3>1. q.kind # "other"
      BY <2>1, <2>3, <2>9
    <3> QED
      BY <1>e, <2>c, <2>7, <2>9, <3>1 DEF Charge
  <2>10. Charge(r)'
    BY <2>1, <2>8, <2>9
  <2> QED
    BY <1>0, <2>2, <2>3, <2>4, <2>5, <2>10, Moves
<1> QED
  BY <1>3, <1>4 DEF Forward

\* A body that is read, or that breaks off.
LEMMA ReadBodyStep ==
  ASSUME IInv, NEW r \in Requests, ReadBody(r)
  PROVE  TypeOK' /\ OthersStay(r) /\ UNCHANGED world /\ Charge(r)' /\ Known(r)'
<1>0. /\ TypeOK /\ Charge(r) /\ req[r].pc = "body"
      /\ UNCHANGED <<world, sent, upstream, staying, records, had, served>>
  BY DEF IInv, ReadBody, At, answers
<1>1. req[r] \in Request /\ sent[r] \in Seq(Lines)
  BY <1>0 DEF TypeOK
<1>2. Untouched(r) /\ upstream[r] # "closed" /\ records[r] = <<>> /\ req[r].kind # "other"
  BY <1>0 DEF Charge
<1>3. upstream' \in [Requests -> {"closed", "sending", "ended", "broken"}]
  BY <1>0 DEF TypeOK
<1>p. "write" \in Places
  BY DEF Places
<1>4. CASE upstream[r] = "ended" /\ req' = WholeBody(r)
  <2> DEFINE body == sent[r]
             prompt == IF Len(body) = 1 THEN body[1].prompt ELSE 0
             eval == IF Len(body) = 1 THEN body[1].eval ELSE 0
  <2>0. req' = [req EXCEPT ![r] = [@ EXCEPT !.pc = "write", !.body = body,
                                            !.prompt = prompt, !.eval = eval]]
    BY <1>4 DEF WholeBody
  <2>1. prompt \in Nat /\ eval \in Nat
    <3>1. CASE Len(body) = 1
      <4>1. body[1] \in Lines
        BY <1>1, <3>1
      <4> QED
        BY <3>1, <4>1, ProxyAssumption
    <3> QED
      BY <3>1
  <2>2. /\ Len(body) = 1 => prompt = body[1].prompt /\ eval = body[1].eval
        /\ Len(body) # 1 => prompt = 0 /\ eval = 0
    OBVIOUS
  <2>b. body \in Seq(Lines) /\ Len(body) \in Nat
    BY <1>1
  <2> HIDE DEF prompt, eval, body
  <2> DEFINE q == [req[r] EXCEPT !.pc = "write", !.body = body, !.prompt = prompt, !.eval = eval]
  <2>3. q \in Request
    BY <1>1, <1>p, <2>1, <2>b DEF Request
  <2>4. /\ q.pc = "write" /\ q.object = req[r].object /\ q.objects = req[r].objects
        /\ q.prompt = prompt /\ q.eval = eval /\ q.kind = req[r].kind
        /\ q.body = body /\ q.written = 0
    BY <1>1, <1>2 DEF Request, Untouched
  <2>5. req' = [req EXCEPT ![r] = q]
    BY <2>0
  <2> HIDE DEF q
  <2>6. req'[r] = q
    BY <1>0, <2>3, <2>5, Replaced
  <2>7. CountedSoFar(q)
    <3>1. CompletedBy(0, 0) = {}
      BY <2>b, Completed
    <3>2. FirstCount(body, {}) = 0 /\ LastCount(body, {}, 0) = 0
      BY <2>b, FirstIs, LastIs DEF Nought
    <3> QED
      BY <2>2, <2>4, <3>1, <3>2 DEF CountedSoFar, Free
  <2>8. Whole(r)'
    BY <1>0, <1>4, <2>4, <2>6, <2>7 DEF Whole, body
  <2>9. Passing(r)'
    <3>1. Body(r)' = body
      BY <1>2, <2>4, <2>6 DEF Body
    <3> QED
      BY <1>2, <2>4, <2>6, <2>8, <2>b, <3>1 DEF Passing
  <2>10. Charge(r)'
    BY <1>0, <1>2, <2>4, <2>6, <2>9 DEF Charge, Early
  <2> QED
    BY <1>0, <1>3, <2>3, <2>4, <2>5, <2>10, Moves
<1>5. CASE (upstream[r] = "broken" \/ ~staying[r]) /\ req' = [req EXCEPT ![r].pc = "write"]
  <2> DEFINE q == [req[r] EXCEPT !.pc = "write"]
  <2>3. q \in Request
    BY <1>1, <1>p DEF Request
  <2>4. /\ q.pc = "write" /\ q.object = req[r].object /\ q.objects = req[r].objects
        /\ q.prompt = 0 /\ q.eval = 0 /\ q.kind = req[r].kind
        /\ q.body = <<>> /\ q.written = 0
    BY <1>1, <1>2 DEF Request, Untouched, Free
  <2>5. req' = [req EXCEPT ![r] = q]
    BY <1>5
  <2> HIDE DEF q
  <2>6. req'[r] = q
    BY <1>0, <2>3, <2>5, Replaced
  <2>7. Lost(r)'
    BY <1>0, <1>5 DEF Lost
  <2>9. Passing(r)'
    <3>1. Body(r)' = <<>> /\ Len(<<>>) = 0
      BY <1>2, <2>4, <2>6 DEF Body
    <3> QED
      BY <1>2, <2>4, <2>6, <2>7, <3>1 DEF Passing, Free
  <2>10. Charge(r)'
    BY <1>0, <1>2, <2>4, <2>6, <2>9 DEF Charge, Early
  <2> QED
    BY <1>0, <1>3, <2>3, <2>4, <2>5, <2>10, Moves
<1> QED
  BY <1>4, <1>5 DEF ReadBody

\* What a longer part of a stream's answer counts follows from a shorter one.
LEMMA CountFurther ==
  ASSUME NEW q \in Request, q.kind = "stream", NEW to \in Nat, q.written <= to,
         to <= 2 * Len(q.body), CountedSoFar(q), NEW p \in Request,
         p.kind = "stream", p.body = q.body, p.written = to,
         LET lines == CompletedBy(q.written, to)
         IN  /\ p.prompt = IF q.prompt = 0 THEN FirstCount(q.body, lines) ELSE q.prompt
             /\ p.eval = LastCount(q.body, lines, q.eval)
  PROVE  CountedSoFar(p)
<1> DEFINE body == q.body
           n == Len(body)
           lines == CompletedBy(q.written, to)
           before == CompletedBy(0, q.written)
<1>1. body \in Seq(Lines) /\ n \in Nat /\ q.written \in Nat /\ to <= 2 * n
  BY DEF Request
<1>2. /\ lines \subseteq 1..n /\ before \subseteq 1..n
      /\ CompletedBy(0, to) = before \cup lines /\ \A i \in before, j \in lines : i < j
  <2> HIDE DEF n
  <2> QED
    BY <1>1, Completed
<1>3. /\ p.prompt = IF q.prompt = 0 THEN FirstCount(body, lines) ELSE q.prompt
      /\ p.eval = LastCount(body, lines, q.eval)
  OBVIOUS
<1>4. /\ n = 1 => q.prompt = body[1].prompt /\ q.eval = body[1].eval
      /\ n # 1 => q.prompt = FirstCount(body, before) /\ q.eval = LastCount(body, before, 0)
  BY DEF CountedSoFar
<1>5. CountedSoFar(p) <=>
        /\ n = 1 => p.prompt = body[1].prompt /\ p.eval = body[1].eval
        /\ n # 1 => /\ p.prompt = FirstCount(body, CompletedBy(0, to))
                    /\ p.eval = LastCount(body, CompletedBy(0, to), 0)
  BY DEF CountedSoFar
<1> HIDE DEF body, n, lines, before
<1>n. n = Len(body)
  BY DEF n
<1>6. CASE n = 1
  <2>1. lines = {} \/ lines = {1}
    <3>1. \A i \in lines : i = 1
      BY <1>2, <1>6
    <3> QED
      BY <3>1
  <2>2. p.eval = body[1].eval
    <3>1. CASE \A i \in lines : body[i].eval = 0
      <4>1. p.eval = q.eval
        BY <1>1, <1>2, <1>3, <1>n, <3>1, LastIs DEF Nought
      <4> QED
        BY <1>4, <1>6, <4>1
    <3>2. CASE ~ \A i \in lines : body[i].eval = 0
      <4>1. lines = {1} /\ body[1].eval # 0
        BY <2>1, <3>2
      <4>2. 1 \in lines /\ \A j \in lines : body[j].eval # 0 => j <= 1
        BY <4>1
      <4> QED
        BY <1>1, <1>2, <1>3, <1>n, <4>1, <4>2, LastIs
    <3> QED
      BY <3>1, <3>2
  <2>3. p.prompt = body[1].prompt
    <3>1. CASE q.prompt = 0
      <4>1. Nought(body, lines, "prompt")
        BY <1>4, <1>6, <2>1, <3>1 DEF Nought
      <4>2. FirstCount(body, lines) = 0
        BY <1>1, <1>2, <1>n, <4>1, FirstIs
      <4> QED
        BY <1>3, <1>4, <1>6, <3>1, <4>2
    <3> QED
      BY <1>3, <1>4, <1>6, <3>1
  <2> QED
    BY <1>5, <1>6, <2>2, <2>3
<1>7. CASE n # 1
  <2>1. p.prompt = FirstCount(body, before \cup lines)
    BY <1>1, <1>2, <1>3, <1>4, <1>7, <1>n, FirstOfBoth
  <2>2. p.eval = LastCount(body, before \cup lines, 0)
    <3>1. LastCount(body, before \cup lines, 0)
            = LastCount(body, lines, LastCount(body, before, 0))
      <4>1. /\ body \in Seq(Lines) /\ lines \in SUBSET (1..Len(body))
            /\ before \in SUBSET (1..Len(body)) /\ \A i \in before, j \in lines : i < j
        BY <1>1, <1>2, <1>n
      <4> QED
        BY <4>1, LastOfBoth
    <3> QED
      BY <1>3, <1>4, <1>7, <3>1
  <2> QED
    BY <1>2, <1>5, <1>7, <2>1, <2>2
<1> QED
  BY <1>6, <1>7

\* A write of any part of what is there.
LEMMA WriteStep ==
  ASSUME IInv, NEW r \in Requests, Write(r)
  PROVE  TypeOK' /\ OthersStay(r) /\ UNCHANGED world /\ Charge(r)' /\ Known(r)'
<1>0. /\ TypeOK /\ Charge(r) /\ req[r].pc = "write" /\ staying[r]
      /\ UNCHANGED <<world, sent, upstream, staying, records, had, served>>
  BY DEF IInv, Write, At, answers
<1>1. /\ req[r] \in Request /\ req[r].body \in Seq(Lines) /\ Body(r) \in Seq(Lines)
      /\ Len(Body(r)) \in Nat /\ req[r].written \in Nat /\ req[r].prompt \in Nat
      /\ req[r].eval \in Nat
  BY <1>0, BodyTypes
<1>2. Passing(r) /\ upstream[r] # "closed" /\ records[r] = <<>>
  BY <1>0 DEF Charge
<1>3. upstream' \in [Requests -> {"closed", "sending", "ended", "broken"}]
  BY <1>0 DEF TypeOK
<1>b. req[r].kind # "other" => Body(r) = req[r].body
  BY DEF Body
\* What the request's new record must satisfy.
<1>k. ASSUME NEW to \in (req[r].written + 1)..(2 * Len(Body(r))), NEW q \in Request,
             req' = [req EXCEPT ![r] = q],
             q.pc = "write", q.object = req[r].object, q.objects = req[r].objects,
             q.kind = req[r].kind, q.body = req[r].body, q.written = to,
             q.kind = "other" => Free(q), q.kind # "other" /\ Whole(r) => CountedSoFar(q)
      PROVE  TypeOK' /\ OthersStay(r) /\ UNCHANGED world /\ Charge(r)' /\ Known(r)'
  <2>1. req'[r] = q
    BY <1>0, <1>k, Replaced
  <2>2. Body(r)' = Body(r)
    BY <1>0, <1>k, <2>1 DEF Body
  <2>3. to <= 2 * Len(Body(r)) /\ ~(2 * Len(Body(r)) <= 0)
    BY <1>1, <1>k
  <2>4. q.kind # "other" => Whole(r)
    <3>1. CASE q.kind # "other" /\ req[r].body = <<>>
      <4>1. Len(Body(r)) = 0
        BY <1>b, <1>k, <3>1
      <4> QED
        BY <2>3, <4>1
    <3> QED
      BY <1>2, <1>k, <3>1 DEF Passing
  <2>5. q.kind # "other" => Whole(r)'
    BY <1>0, <1>k, <2>1, <2>4 DEF Whole
  <2>6. q.kind = "other" => q.body = <<>>
    BY <1>2, <1>k DEF Passing
  <2>7. Passing(r)'
    BY <1>k, <2>1, <2>2, <2>3, <2>5, <2>6 DEF Passing
  <2>8. Charge(r)'
    <3>1. "write" \notin Early
      BY DEF Early
    <3>2. req'[r].pc = "write" /\ upstream'[r] # "closed" /\ records'[r] = <<>>
      BY <1>0, <1>2, <1>k, <2>1
    <3> QED
      BY <2>7, <3>1, <3>2 DEF Charge
  <2>9. \A s \in Requests \ {r} : upstream'[s] = upstream[s]
    BY <1>0
  <2> QED
    BY <1>0, <1>3, <1>k, <2>8, <2>9, Moves
<1>4. PICK to \in (req[r].written + 1)..(2 * Len(Body(r))) :
        req' = [req EXCEPT ![r] =
                  IF req[r].kind = "stream"
                  THEN [req[r] EXCEPT
                          !.written = to,
                          !.prompt = IF @ = 0 THEN FirstCount(Body(r), CompletedBy(req[r].written, to))
                                     ELSE @,
                          !.eval = LastCount(Body(r), CompletedBy(req[r].written, to), @)]
                  ELSE [@ EXCEPT !.written = to]]
  BY DEF Write
<1>5. to \in Nat /\ req[r].written <= to /\ to <= 2 * Len(Body(r))
  BY <1>1, <1>4
<1>6. CASE req[r].kind = "stream"
  <2> DEFINE lines == CompletedBy(req[r].written, to)
             prompt == IF req[r].prompt = 0 THEN FirstCount(Body(r), lines) ELSE req[r].prompt
             eval == LastCount(Body(r), lines, req[r].eval)
             q == [req[r] EXCEPT !.written = to, !.prompt = prompt, !.eval = eval]
  <2>1. prompt \in Nat /\ eval \in Nat
    <3>1. lines \subseteq 1..Len(Body(r))
      BY <1>1, <1>5, Completed
    <3> HIDE DEF lines
    <3> QED
      BY <1>1, <3>1, CountTypes
  <2>2. req' = [req EXCEPT ![r] = q]
    BY <1>1, <1>4, <1>6
  <2>p. /\ prompt = IF req[r].prompt = 0 THEN FirstCount(Body(r), lines) ELSE req[r].prompt
        /\ eval = LastCount(Body(r), lines, req[r].eval)
    OBVIOUS
  <2> HIDE DEF prompt, eval
  <2>3. q \in Request
    BY <1>1, <1>5, <2>1 DEF Request
  <2>4. /\ q.pc = "write" /\ q.object = req[r].object /\ q.objects = req[r].objects
        /\ q.kind = "stream" /\ q.body = req[r].body /\ q.written = to
        /\ q.prompt = prompt /\ q.eval = eval
    BY <1>0, <1>1, <1>6 DEF Request
  <2> HIDE DEF q
  <2>5. ASSUME Whole(r) PROVE CountedSoFar(q)
    <3>1. CountedSoFar(req[r]) /\ Body(r) = req[r].body
      BY <1>6, <1>b, <2>5 DEF Whole
    <3>2. to <= 2 * Len(req[r].body)
      BY <1>5, <3>1
    <3>3. /\ q.prompt = IF req[r].prompt = 0 THEN FirstCount(req[r].body, lines) ELSE req[r].prompt
          /\ q.eval = LastCount(req[r].body, lines, req[r].eval)
      BY <2>4, <2>p, <3>1
    <3> QED
      BY <1>1, <1>5, <1>6, <2>3, <2>4, <3>1, <3>2, <3>3, CountFurther
  <2> QED
    BY <1>4, <1>6, <1>k, <2>2, <2>3, <2>4, <2>5
<1>7. CASE req[r].kind # "stream"
  <2> DEFINE q == [req[r] EXCEPT !.written = to]
  <2>1. q \in Request
    BY <1>1, <1>5 DEF Request
  <2>2. /\ q.pc = "write" /\ q.object = req[r].object /\ q.objects = req[r].objects
        /\ q.kind = req[r].kind /\ q.body = req[r].body /\ q.written = to
        /\ q.prompt = req[r].prompt /\ q.eval = req[r].eval
    BY <1>0, <1>1 DEF Request
  <2>3. req' = [req EXCEPT ![r] = q]
    BY <1>4, <1>7
  <2> HIDE DEF q
  <2>4. q.kind = "other" => Free(q)
    BY <1>2, <2>2 DEF Passing, Free
  <2>5. ASSUME q.kind # "other", Whole(r) PROVE CountedSoFar(q)
    BY <1>7, <2>2, <2>5 DEF Whole, CountedSoFar, Free
  <2> QED
    BY <1>4, <1>k, <2>1, <2>2, <2>3, <2>4, <2>5
<1> QED
  BY <1>6, <1>7

\* The handler breaks off, or comes to the end of the answer.
LEMMA AbortStep ==
  ASSUME IInv, NEW r \in Requests, Abort(r)
  PROVE  TypeOK' /\ OthersStay(r) /\ UNCHANGED world /\ Charge(r)' /\ Known(r)'
<1>0. /\ TypeOK /\ Charge(r) /\ req[r].pc = "write" /\ Done(r, req[r].status)
      /\ UNCHANGED <<world, sent, upstream, staying, records, had, served>>
  BY DEF IInv, Abort, At, answers
<1>1. req[r] \in Request /\ req \in [Requests -> Request] /\ req[r].status \in Statuses
  BY <1>0 DEF TypeOK, Request
<1>2. Lost(r) /\ records[r] = <<>>
  BY <1>0 DEF Abort, Lost, Charge
<1> DEFINE q == req'[r]
<1>3. q \in Request /\ q.pc = "done" /\ q.objects = {} /\ q.object = req[r].object
  BY <1>0, <1>1, DoneIs
<1>4. req' = [req EXCEPT ![r] = q]
  BY <1>0, <1>1 DEF Done
<1> HIDE DEF q
<1>5. upstream' \in [Requests -> {"closed", "sending", "ended", "broken"}]
  BY <1>0 DEF TypeOK
<1>6. Charge(r)'
  <2>1. "done" \notin Early
    BY DEF Early
  <2>2. Lost(r)' /\ records'[r] = <<>> /\ req'[r].pc = "done"
    BY <1>0, <1>2, <1>3 DEF Lost, q
  <2> QED
    BY <2>1, <2>2 DEF Charge
<1>7. \A s \in Requests \ {r} : upstream'[s] = upstream[s]
  BY <1>0
<1> QED
  BY <1>0, <1>3, <1>4, <1>5, <1>6, <1>7, Moves

\* What was counted of a whole answer is what the request is to be charged.
LEMMA CountedIsDue ==
  ASSUME TypeOK, NEW r \in Requests, Whole(r), req[r].kind # "other",
         req[r].written = 2 * Len(req[r].body)
  PROVE  Delivered(r)
<1> DEFINE q == req[r]
           body == sent[r]
<1>1. q \in Request /\ body \in Seq(Lines) /\ Len(body) \in Nat
  BY DEF TypeOK
<1>2. upstream[r] = "ended" /\ q.body = body /\ CountedSoFar(q) /\ q.written = 2 * Len(body)
  BY DEF Whole
<1>3. q.kind \in {"stream", "unseen", "plain"}
  BY <1>1 DEF Request, RequestKinds
<1> HIDE DEF q, body
<1>4. DOMAIN body = 1..Len(body)
  BY <1>1
<1>5. /\ Reported(body).prompt = FirstCount(body, 1..Len(body))
      /\ Reported(body).eval = LastCount(body, 1..Len(body), 0)
  BY <1>4 DEF Reported
<1>6. q.prompt = Due(q, body).prompt /\ q.eval = Due(q, body).eval
  <2>1. CASE Len(body) = 1
    <3>1. 1..Len(body) = {1}
      BY <2>1
    <3>2. /\ FirstCount(body, {1}) = body[1].prompt
          /\ LastCount(body, {1}, 0) = body[1].eval
      BY <1>1, <2>1, <3>1, FirstIs, LastIs DEF Nought
    <3>3. Due(q, body) = Reported(body)
      BY <1>3, <2>1 DEF Due, Counted
    <3>4. q.prompt = body[1].prompt /\ q.eval = body[1].eval
      BY <1>2, <2>1 DEF CountedSoFar
    <3> QED
      BY <1>5, <3>1, <3>2, <3>3, <3>4
  <2>2. CASE Len(body) # 1 /\ q.kind \in {"unseen", "plain"}
    <3>1. Due(q, body) = [prompt |-> 0, eval |-> 0]
      BY <2>2 DEF Due, Counted
    <3> QED
      BY <1>2, <2>2, <3>1 DEF CountedSoFar, Free
  <2>3. CASE Len(body) # 1 /\ q.kind = "stream"
    <3>1. Due(q, body) = Reported(body)
      BY <2>3 DEF Due, Counted
    <3>2. CompletedBy(0, 2 * Len(body)) = 1..Len(body)
      BY <1>1, Completed
    <3>3. q.prompt = FirstCount(body, 1..Len(body)) /\ q.eval = LastCount(body, 1..Len(body), 0)
      BY <1>2, <2>3, <3>2 DEF CountedSoFar
    <3> QED
      BY <1>5, <3>1, <3>3
  <2> QED
    BY <1>3, <2>1, <2>2, <2>3
<1> QED
  BY <1>2, <1>6 DEF Delivered, q, body

\* The answer ends, for a backend's whole answer or for an empty one.
LEMMA EndAnswerStep ==
  ASSUME IInv, NEW r \in Requests, EndAnswer(r)
  PROVE  TypeOK' /\ OthersStay(r) /\ UNCHANGED world /\ Charge(r)' /\ Known(r)'
<1>0. /\ TypeOK /\ Charge(r) /\ req[r].pc = "write"
      /\ UNCHANGED <<world, sent, upstream, staying, records, had, served>>
      /\ req' = [req EXCEPT ![r].pc = "log"] /\ req[r].written = 2 * Len(Body(r))
      /\ req[r].kind = "other" => upstream[r] = "ended"
  BY DEF IInv, EndAnswer, At, answers
<1>1. req[r] \in Request /\ "log" \in Places /\ "log" \notin Early
  BY <1>0 DEF TypeOK, Places, Early
<1>2. Passing(r) /\ records[r] = <<>>
  BY <1>0 DEF Charge
<1>3. Delivered(r) \/ (Lost(r) /\ Free(req[r]))
  <2>1. CASE req[r].kind = "other"
    <3>1. Due(req[r], sent[r]) = [prompt |-> 0, eval |-> 0] /\ Body(r) = sent[r]
      BY <2>1 DEF Due, Counted, Body
    <3> QED
      BY <1>0, <1>2, <2>1, <3>1 DEF Delivered, Passing, Free
  <2>2. CASE req[r].kind # "other" /\ Whole(r)
    <3>1. Body(r) = req[r].body
      BY <2>2 DEF Body
    <3> QED
      BY <1>0, <2>2, <3>1, CountedIsDue
  <2> QED
    BY <1>2, <2>1, <2>2 DEF Passing
<1> DEFINE q == [req[r] EXCEPT !.pc = "log"]
<1>4. q \in Request
  BY <1>1 DEF Request
<1>5. /\ q.pc = "log" /\ q.object = req[r].object /\ q.objects = req[r].objects
      /\ q.prompt = req[r].prompt /\ q.eval = req[r].eval /\ q.kind = req[r].kind
      /\ q.written = req[r].written
  BY <1>1 DEF Request
<1>6. req' = [req EXCEPT ![r] = q]
  BY <1>0
<1> HIDE DEF q
<1>7. req'[r] = q
  BY <1>0, <1>4, <1>6, Replaced
<1>8. Delivered(r)' \/ (Lost(r)' /\ Free(req[r])')
  <2>1. Due(q, sent[r]) = Due(req[r], sent[r])
    BY <1>5 DEF Due, Counted
  <2> QED
    BY <1>0, <1>3, <1>5, <1>7, <2>1 DEF Delivered, Lost, Free
<1>9. Charge(r)'
  <2>1. req'[r].pc = "log" /\ records'[r] = <<>>
    BY <1>0, <1>2, <1>5, <1>7
  <2> QED
    BY <1>1, <1>8, <2>1 DEF Charge
<1>10. /\ upstream' \in [Requests -> {"closed", "sending", "ended", "broken"}]
       /\ \A s \in Requests \ {r} : upstream'[s] = upstream[s]
  BY <1>0 DEF TypeOK
<1> QED
  BY <1>0, <1>4, <1>5, <1>6, <1>9, <1>10, Moves

\* The record is written, once, with what was counted and an address that the
\* request's object had.
LEMMA LogUsageStep ==
  ASSUME IInv, NEW r \in Requests, LogUsage(r)
  PROVE  TypeOK' /\ OthersStay(r) /\ UNCHANGED world /\ Charge(r)' /\ Known(r)'
<1>0. /\ TypeOK /\ Charge(r) /\ Known(r) /\ req[r].pc = "log" /\ Done(r, req[r].status)
      /\ UNCHANGED <<world, sent, upstream, staying, had, served>>
  BY DEF IInv, LogUsage, At, answers
<1>1. /\ req[r] \in Request /\ req[r].status \in Statuses /\ created \subseteq Objects
      /\ address \in [Objects -> Addresses] /\ records \in [Requests -> Seq(UsageRecord)]
      /\ req[r].prompt \in Nat /\ req[r].eval \in Nat
  BY <1>0 DEF TypeOK, Request
<1>2. /\ records[r] = <<>>
      /\ Delivered(r) \/ (Lost(r) /\ Free(req[r]))
  BY <1>0 DEF Charge, Early
<1> DEFINE a == address[req[r].object]
           record == [address |-> a, prompt |-> req[r].prompt, eval |-> req[r].eval]
<1>3. a \in Addresses /\ a \in had[r]
  BY <1>0, <1>1 DEF Known
<1>4. record \in UsageRecord
  BY <1>1, <1>3 DEF UsageRecord
<1>5. records' = [records EXCEPT ![r] = Append(@, record)]
  BY DEF LogUsage, LoggedAddress
<1>r. record.address = a /\ record = [address |-> a, prompt |-> req[r].prompt, eval |-> req[r].eval]
  OBVIOUS
<1> HIDE DEF a, record
<1>6. records'[r] = <<record>> /\ records' \in [Requests -> Seq(UsageRecord)]
  <2>1. records'[r] = Append(records[r], record)
    BY <1>1, <1>5
  <2>2. Append(<<>>, record) = <<record>>
    OBVIOUS
  <2>3. Append(records[r], record) \in Seq(UsageRecord)
    BY <1>1, <1>4
  <2>4. records' \in [Requests -> Seq(UsageRecord)]
    BY <1>1, <1>5, <2>3
  <2>5. records'[r] = <<record>>
    BY <1>2, <2>1, <2>2
  <2> QED
    BY <2>4, <2>5
<1>7. /\ req' \in [Requests -> Request] /\ \A s \in Requests \ {r} : req'[s] = req[s]
      /\ req'[r].pc = "done" /\ req'[r].objects = {} /\ req'[r].kind = req[r].kind
      /\ req'[r].written = req[r].written
      /\ req'[r].prompt = req[r].prompt /\ req'[r].eval = req[r].eval
  BY <1>0, <1>1, DoneIs
<1>8. TypeOK'
  BY <1>0, <1>6, <1>7 DEF TypeOK, world
<1>9. OthersStay(r)
  BY <1>0, <1>1, <1>5, <1>7 DEF OthersStay
<1>10. Known(r)'
  <2>1. \A i \in DOMAIN <<record>> : <<record>>[i].address \in had[r]
    BY <1>3, <1>r
  <2> QED
    BY <1>0, <1>6, <1>7, <2>1 DEF Known
<1>11. Recorded(r)'
  BY <1>3, <1>6, <1>7, <1>r DEF Recorded
<1>12. Delivered(r)' \/ (Lost(r)' /\ Free(req[r])')
  <2>1. Due(req'[r], sent[r]) = Due(req[r], sent[r])
    BY <1>7 DEF Due, Counted
  <2> QED
    BY <1>0, <1>2, <1>7, <2>1 DEF Delivered, Lost, Free
<1>13. Charge(r)'
  <2>1. "done" \notin Early
    BY DEF Early
  <2> QED
    BY <1>7, <1>11, <1>12, <2>1 DEF Charge
<1> QED
  BY <1>0, <1>8, <1>9, <1>10, <1>13

\* A request that is forgotten is as in the beginning.
LEMMA LeaveStep ==
  ASSUME IInv, NEW r \in Requests, Leave(r)
  PROVE  TypeOK' /\ OthersStay(r) /\ UNCHANGED world /\ Charge(r)' /\ Known(r)'
<1>0. TypeOK /\ UNCHANGED <<world, served>>
  BY DEF IInv, Leave
<1>1. Idle \in Request
  <2>1. <<>> \in Seq(Lines)
    OBVIOUS
  <2> QED
    BY <2>1 DEF Idle, Request, Places, RequestKinds, Statuses
<1>2. /\ req' \in [Requests -> Request] /\ req'[r] = Idle
      /\ \A s \in Requests \ {r} : req'[s] = req[s]
  BY <1>0, <1>1, Replaced DEF Leave
<1>3. /\ sent' \in [Requests -> Seq(Lines)] /\ sent'[r] = <<>>
      /\ upstream' \in [Requests -> {"closed", "sending", "ended", "broken"}]
      /\ upstream'[r] = "closed" /\ staying' \in [Requests -> BOOLEAN]
      /\ records' \in [Requests -> Seq(UsageRecord)] /\ records'[r] = <<>>
      /\ had' \in [Requests -> SUBSET Addresses]
  BY <1>0 DEF TypeOK, Leave
<1>4. TypeOK'
  BY <1>0, <1>2, <1>3 DEF TypeOK, world
<1>5. OthersStay(r)
  BY <1>0, <1>2 DEF OthersStay, Leave, TypeOK
<1>6. /\ Idle.pc = "idle" /\ Idle.body = <<>> /\ Idle.written = 0
      /\ Free(Idle) /\ Idle.objects = {}
  BY DEF Idle, Free
<1>7. Charge(r)'
  BY <1>2, <1>3, <1>6 DEF Charge, Untouched, Free
<1>8. Known(r)'
  BY <1>2, <1>3, <1>6 DEF Known
<1> QED
  BY <1>0, <1>4, <1>5, <1>7, <1>8

-----------------------------------------------------------------------------
(* The backend, the client, and the dashboard.                             *)

\* What the backend sends and does not send, and a client that leaves, change
\* nothing of what was or will be counted.
LEMMA OutsideStep ==
  ASSUME IInv, NEW r \in Requests,
         \/ \E line \in Lines : SendLine(r, line)
         \/ \E how \in {"ended", "broken"} : EndSending(r, how)
         \/ Disconnect(r)
  PROVE  TypeOK' /\ OthersStay(r) /\ UNCHANGED world /\ Charge(r)' /\ Known(r)'
<1>0. /\ TypeOK /\ Charge(r) /\ Known(r)
      /\ UNCHANGED <<world, req, records, had, served>>
  BY DEF IInv, SendLine, EndSending, Disconnect
<1>1. /\ sent \in [Requests -> Seq(Lines)] /\ staying \in [Requests -> BOOLEAN]
      /\ upstream \in [Requests -> {"closed", "sending", "ended", "broken"}]
      /\ req[r] \in Request
  BY <1>0 DEF TypeOK
<1>2. Known(r)'
  BY <1>0 DEF Known, world
<1>3. ASSUME NEW line \in Lines, SendLine(r, line)
      PROVE  TypeOK' /\ OthersStay(r) /\ Charge(r)'
  <2>1. /\ upstream[r] = "sending" /\ UNCHANGED <<upstream, staying>>
        /\ sent' = [sent EXCEPT ![r] = Append(@, line)]
    BY <1>3 DEF SendLine
  <2>2. /\ sent' \in [Requests -> Seq(Lines)] /\ Len(sent'[r]) = Len(sent[r]) + 1
        /\ Len(sent[r]) \in Nat /\ \A s \in Requests \ {r} : sent'[s] = sent[s]
    BY <1>1, <2>1
  <2>3. TypeOK' /\ OthersStay(r)
    BY <1>0, <2>1, <2>2 DEF TypeOK, OthersStay, world
  <2>4. ~Whole(r) /\ ~Delivered(r)
    BY <2>1 DEF Whole, Delivered
  <2>5. /\ Untouched(r)' = Untouched(r) /\ Lost(r)' = Lost(r) /\ Recorded(r)' = Recorded(r)
    BY <1>0, <2>1 DEF Untouched, Lost, Recorded
  <2>6. Passing(r) => Passing(r)'
    <3>1. CASE req[r].kind = "other"
      <4>1. Body(r) = sent[r] /\ Body(r)' = sent'[r]
        BY <1>0, <3>1 DEF Body
      <4>2. req[r].written \in Nat
        BY <1>1 DEF Request
      <4> QED
        BY <1>0, <2>2, <3>1, <4>1, <4>2 DEF Passing
    <3>2. CASE req[r].kind # "other"
      <4>1. Body(r)' = Body(r)
        BY <1>0, <3>2 DEF Body
      <4> QED
        BY <1>0, <2>4, <2>5, <3>2, <4>1 DEF Passing
    <3> QED
      BY <3>1, <3>2
  <2>7. Charge(r)'
    BY <1>0, <2>1, <2>4, <2>5, <2>6 DEF Charge
  <2> QED
    BY <2>3, <2>7
<1>4. ASSUME NEW how \in {"ended", "broken"}, EndSending(r, how)
      PROVE  TypeOK' /\ OthersStay(r) /\ Charge(r)'
  <2>1. /\ upstream[r] = "sending" /\ UNCHANGED <<sent, staying>>
        /\ upstream' = [upstream EXCEPT ![r] = how]
    BY <1>4 DEF EndSending
  <2>2. /\ upstream' \in [Requests -> {"closed", "sending", "ended", "broken"}]
        /\ upstream'[r] = how /\ \A s \in Requests \ {r} : upstream'[s] = upstream[s]
    BY <1>1, <2>1
  <2>3. TypeOK' /\ OthersStay(r)
    BY <1>0, <2>1, <2>2 DEF TypeOK, OthersStay, world
  <2>4. ~Whole(r) /\ ~Delivered(r)
    BY <2>1 DEF Whole, Delivered
  <2>5. /\ Untouched(r)' = Untouched(r) /\ Recorded(r)' = Recorded(r) /\ Body(r)' = Body(r)
        /\ Lost(r) => Lost(r)'
    BY <1>0, <2>1 DEF Untouched, Lost, Recorded, Body
  <2>6. Passing(r) => Passing(r)'
    BY <1>0, <2>4, <2>5 DEF Passing
  <2>7. Charge(r)'
    BY <1>0, <2>1, <2>2, <2>4, <2>5, <2>6 DEF Charge
  <2> QED
    BY <2>3, <2>7
<1>5. ASSUME Disconnect(r)
      PROVE  TypeOK' /\ OthersStay(r) /\ Charge(r)'
  <2>1. UNCHANGED <<sent, upstream>> /\ staying' = [staying EXCEPT ![r] = FALSE]
    BY <1>5 DEF Disconnect
  <2>2. /\ staying' \in [Requests -> BOOLEAN]
        /\ \A s \in Requests \ {r} : staying'[s] = staying[s]
    BY <1>1, <2>1
  <2>3. TypeOK' /\ OthersStay(r)
    BY <1>0, <2>1, <2>2 DEF TypeOK, OthersStay, world
  <2>4. Lost(r)'
    BY <1>1, <2>1 DEF Lost
  <2>5. /\ Untouched(r)' = Untouched(r) /\ Recorded(r)' = Recorded(r) /\ Body(r)' = Body(r)
        /\ Whole(r)' = Whole(r) /\ Delivered(r)' = Delivered(r)
    BY <1>0, <2>1 DEF Untouched, Recorded, Body, Whole, Delivered
  <2>6. Passing(r) => Passing(r)'
    BY <1>0, <2>4, <2>5 DEF Passing
  <2>7. Charge(r)'
    BY <1>0, <2>1, <2>4, <2>5, <2>6 DEF Charge
  <2> QED
    BY <2>3, <2>7
<1> QED
  BY <1>0, <1>2, <1>3, <1>4, <1>5

\* The dashboard charges nobody, and an object that a request was sent to keeps
\* the addresses it had.
LEMMA AdministerStep ==
  ASSUME IInv, Administer
  PROVE  IInv'
<1>0. TypeOK /\ \A r \in Requests : Charge(r) /\ Known(r)
  BY DEF IInv
<1>1. UNCHANGED <<answers, req, records, served>>
  BY DEF Administer, RefreshCatalog, UpdateAddress, RemoveBackend, CreateBackend, Change
<1>2. \A r \in Requests : Charge(r)'
  BY <1>0, <1>1 DEF answers, Charge, Untouched, Lost, Body, Whole, Passing, Delivered, Recorded
<1>c. changed' \in 0..MaxAdmin
  <2>1. changed \in 0..MaxAdmin /\ MaxAdmin \in Nat
    BY <1>0, ProxyAssumption DEF TypeOK
  <2>2. changed < MaxAdmin /\ changed' = changed + 1
    BY DEF Administer, RefreshCatalog, UpdateAddress, RemoveBackend, CreateBackend, Change
  <2> QED
    BY <2>1, <2>2
<1>t. /\ byName \in [BackendNames -> created \cup {NoObject}]
      /\ address \in [Objects -> Addresses] /\ created \subseteq Objects
      /\ had \in [Requests -> SUBSET Addresses]
  BY <1>0 DEF TypeOK
\* What is left to show of each change.
<1>k. ASSUME catalog' \in Catalogs, byName' \in [BackendNames -> created' \cup {NoObject}],
             address' \in [Objects -> Addresses], created \subseteq created',
             created' \subseteq Objects, had' \in [Requests -> SUBSET Addresses],
             \A r \in Requests :
               /\ had[r] \subseteq had'[r]
               /\ req[r].object \in created /\ address[req[r].object] \in had[r] =>
                    address'[req[r].object] \in had'[r]
      PROVE  IInv'
  <2>1. TypeOK'
    BY <1>0, <1>1, <1>c, <1>k DEF TypeOK, answers
  <2>2. ASSUME NEW r \in Requests PROVE Known(r)'
    BY <1>0, <1>1, <1>k DEF Known
  <2> QED
    BY <1>2, <2>1, <2>2 DEF IInv
<1>3. ASSUME NEW c \in Catalogs, RefreshCatalog(c) PROVE IInv'
  <2>1. catalog' = c /\ UNCHANGED <<byName, address, created, had>>
    BY <1>3 DEF RefreshCatalog
  <2> QED
    BY <1>k, <1>t, <2>1
<1>4. ASSUME NEW b \in BackendNames, NEW a \in Addresses, UpdateAddress(b, a) PROVE IInv'
  <2>1. /\ byName[b] # NoObject /\ address' = [address EXCEPT ![byName[b]] = a]
        /\ had' = [r \in Requests |-> IF req[r].object = byName[b] THEN had[r] \cup {a}
                                      ELSE had[r]]
        /\ UNCHANGED <<catalog, byName, created>>
    BY <1>4 DEF UpdateAddress
  <2>2. catalog' \in Catalogs
    BY <1>0, <2>1 DEF TypeOK
  <2>3. byName[b] \in Objects
    BY <1>t, <2>1
  <2>4. address' \in [Objects -> Addresses] /\ had' \in [Requests -> SUBSET Addresses]
    BY <1>t, <2>1, <2>3
  <2>5. ASSUME NEW r \in Requests
        PROVE  /\ had[r] \subseteq had'[r]
               /\ req[r].object \in created /\ address[req[r].object] \in had[r] =>
                    address'[req[r].object] \in had'[r]
    <3>1. CASE req[r].object = byName[b]
      BY <1>t, <2>1, <2>3, <3>1
    <3>2. CASE req[r].object # byName[b]
      BY <1>t, <2>1, <2>3, <3>2
    <3> QED
      BY <3>1, <3>2
  <2> QED
    BY <1>k, <1>t, <2>1, <2>2, <2>4, <2>5
<1>5. ASSUME NEW b \in BackendNames, RemoveBackend(b) PROVE IInv'
  <2>1. byName' = [byName EXCEPT ![b] = NoObject] /\ UNCHANGED <<catalog, address, created, had>>
    BY <1>5 DEF RemoveBackend
  <2>2. catalog' \in Catalogs
    BY <1>0, <2>1 DEF TypeOK
  <2> QED
    BY <1>k, <1>t, <2>1, <2>2
<1>6. ASSUME NEW b \in BackendNames, NEW o \in Objects, NEW a \in Addresses, CreateBackend(b, o, a)
      PROVE  IInv'
  <2>1. /\ o \notin created /\ byName' = [byName EXCEPT ![b] = o]
        /\ created' = created \cup {o} /\ address' = [address EXCEPT ![o] = a]
        /\ UNCHANGED <<catalog, had>>
    BY <1>6 DEF CreateBackend
  <2>2. catalog' \in Catalogs
    BY <1>0, <2>1 DEF TypeOK
  <2>3. /\ byName' \in [BackendNames -> created' \cup {NoObject}]
        /\ address' \in [Objects -> Addresses] /\ created \subseteq created'
        /\ created' \subseteq Objects
    BY <1>t, <2>1
  <2>4. ASSUME NEW r \in Requests, req[r].object \in created
        PROVE  address'[req[r].object] = address[req[r].object]
    BY <1>t, <2>1, <2>4
  <2> QED
    BY <1>k, <1>t, <2>1, <2>2, <2>3, <2>4
<1> QED
  BY <1>3, <1>4, <1>5, <1>6 DEF Administer

-----------------------------------------------------------------------------
(* The theorems.                                                           *)

\* Every step keeps the invariant.
LEMMA StepKeeps == IInv /\ [Next]_vars => IInv'
<1> SUFFICES ASSUME IInv, [Next]_vars PROVE IInv'
  OBVIOUS
<1>1. CASE Administer
  BY <1>1, AdministerStep
<1>2. ASSUME NEW r \in Requests, Handle(r) PROVE IInv'
  <2>1. TypeOK' /\ OthersStay(r) /\ UNCHANGED world /\ Charge(r)' /\ Known(r)'
    <3>1. CASE Resolve(r) \/ BuildPool(r) \/ Select(r) \/ Reach(r)
      BY <3>1, EarlySteps
    <3>2. CASE Forward(r)
      BY <3>2, ForwardStep
    <3>3. CASE ReadBody(r)
      BY <3>3, ReadBodyStep
    <3>4. CASE Write(r)
      BY <3>4, WriteStep
    <3>5. CASE Abort(r)
      BY <3>5, AbortStep
    <3>6. CASE EndAnswer(r)
      BY <3>6, EndAnswerStep
    <3>7. CASE LogUsage(r)
      BY <3>7, LogUsageStep
    <3> QED
      BY <1>2, <3>1, <3>2, <3>3, <3>4, <3>5, <3>6, <3>7 DEF Handle
  <2> QED
    BY <2>1, OneRequest
<1>3. ASSUME NEW r \in Requests, Environment(r) PROVE IInv'
  <2>1. TypeOK' /\ OthersStay(r) /\ UNCHANGED world /\ Charge(r)' /\ Known(r)'
    <3>1. CASE \E kind \in Kinds, model \in ModelNames \cup {NoModel} : Arrive(r, kind, model)
      BY <3>1, EarlySteps
    <3>2. CASE Leave(r)
      BY <3>2, LeaveStep
    <3>3. CASE \/ \E line \in Lines : SendLine(r, line)
               \/ \E how \in {"ended", "broken"} : EndSending(r, how)
               \/ Disconnect(r)
      BY <3>3, OutsideStep
    <3> QED
      BY <1>3, <3>1, <3>2, <3>3 DEF Environment
  <2> QED
    BY <2>1, OneRequest
<1>4. CASE UNCHANGED vars
  BY <1>4 DEF vars, world, answers, IInv, TypeOK, Charge, Known, Untouched, Lost, Body,
              Whole, Passing, Delivered, Recorded
<1> QED
  BY <1>1, <1>2, <1>3, <1>4 DEF Next

\* The invariant holds throughout.
LEMMA Invariance == Spec => []IInv
<1>1. Init => IInv
  BY InitHolds
<1>2. IInv /\ [Next]_vars => IInv'
  BY StepKeeps
<1> QED
  BY <1>1, <1>2, PTL DEF Spec

\* What a request is charged at its end, from what the invariant knows of it.
LEMMA ChargeSuffices == IInv => ChargedAsReported
<1> SUFFICES ASSUME IInv, NEW r \in Requests, At(r, "done")
    PROVE  LET kind == req[r].kind
               free == [prompt |-> 0, eval |-> 0]
               charged == {[prompt |-> records[r][i].prompt, eval |-> records[r][i].eval] :
                             i \in DOMAIN records[r]}
               due == IF kind = "stream" \/ (kind \in {"unseen", "plain"} /\ Len(sent[r]) = 1)
                      THEN {Reported(sent[r])}
                      ELSE IF kind = "unseen" THEN {Reported(sent[r]), free} ELSE {free}
           IN  /\ Len(records[r]) <= 1
               /\ upstream[r] = "ended" /\ staying[r] =>
                    /\ req[r].written = 2 * Len(sent[r])
                    /\ Len(records[r]) = 1 /\ charged \subseteq due
               /\ upstream[r] # "ended" => charged \subseteq {free}
  BY DEF ChargedAsReported
<1> DEFINE charged == {[prompt |-> records[r][i].prompt, eval |-> records[r][i].eval] :
                         i \in DOMAIN records[r]}
           free == [prompt |-> 0, eval |-> 0]
           now == [prompt |-> req[r].prompt, eval |-> req[r].eval]
           due == IF req[r].kind = "stream"
                     \/ (req[r].kind \in {"unseen", "plain"} /\ Len(sent[r]) = 1)
                  THEN {Reported(sent[r])}
                  ELSE IF req[r].kind = "unseen" THEN {Reported(sent[r]), free} ELSE {free}
<1>1. /\ Lost(r) => upstream[r] # "ended" \/ ~staying[r]
      /\ Delivered(r) => upstream[r] = "ended"
  BY DEF Lost, Delivered
<1>2. \/ Lost(r) /\ records[r] = <<>>
      \/ Lost(r) /\ Free(req[r]) /\ Recorded(r)
      \/ Delivered(r) /\ Recorded(r)
  BY DEF IInv, Charge, At
<1>3. Recorded(r) => Len(records[r]) = 1 /\ charged = {now}
  <2> SUFFICES ASSUME NEW a \in Addresses,
                      records[r] = <<[address |-> a, prompt |-> req[r].prompt,
                                      eval |-> req[r].eval]>>
      PROVE  Len(records[r]) = 1 /\ charged = {now}
    BY DEF Recorded
  <2>1. /\ Len(records[r]) = 1 /\ DOMAIN records[r] = {1}
        /\ records[r][1].prompt = req[r].prompt /\ records[r][1].eval = req[r].eval
    OBVIOUS
  <2> QED
    BY <2>1
<1>4. records[r] = <<>> => Len(records[r]) = 0 /\ charged = {}
  OBVIOUS
<1>5. Free(req[r]) => now = free
  BY DEF Free
<1>6. Delivered(r) => now = Due(req[r], sent[r])
  <2>1. Due(req[r], sent[r]) = [prompt |-> Due(req[r], sent[r]).prompt,
                               eval |-> Due(req[r], sent[r]).eval]
    BY DEF Due, Reported
  <2> QED
    BY <2>1 DEF Delivered
<1>7. Due(req[r], sent[r]) \in due
  BY DEF Due, Counted
<1>8. Delivered(r) => req[r].written = 2 * Len(sent[r])
  BY DEF Delivered
<1> HIDE DEF charged, free, now, due
<1>9. Len(records[r]) <= 1
  <2> DEFINE n == Len(records[r])
  <2>1. n \in {0, 1}
    BY <1>2, <1>3, <1>4
  <2> HIDE DEF n
  <2>2. n <= 1
    BY <2>1
  <2> QED
    BY <2>2 DEF n
<1>10. upstream[r] # "ended" => charged \subseteq {free}
  BY <1>1, <1>2, <1>3, <1>4, <1>5
<1>11. upstream[r] = "ended" /\ staying[r] =>
         req[r].written = 2 * Len(sent[r]) /\ Len(records[r]) = 1 /\ charged \subseteq due
  BY <1>1, <1>2, <1>3, <1>6, <1>7, <1>8
<1> QED
  BY <1>9, <1>10, <1>11 DEF charged, free, due

\* Requests, answers and records are of their types, whatever backends, clients
\* and the dashboard do (proxy/handler.go).
THEOREM TypesHold == Spec => []TypeOK
<1>1. IInv => TypeOK
  BY DEF IInv
<1> QED
  BY <1>1, Invariance, PTL

\* A record names an address that the backend which was called had while the
\* request ran (proxy/handler.go:107).
THEOREM AddressHolds == Spec => []AddressOfItsBackend
<1>1. IInv => AddressOfItsBackend
  BY DEF IInv, Known, AddressOfItsBackend
<1> QED
  BY <1>1, Invariance, PTL

\* A whole answer is recorded once, with the counts the backend gave, however its
\* lines were cut into writes; a part of one is never charged (proxy/response.go:45).
THEOREM ChargeHolds == Spec => []ChargedAsReported
<1>1. IInv => ChargedAsReported
  BY ChargeSuffices
<1> QED
  BY <1>1, Invariance, PTL

=============================================================================
