--------------------------- MODULE ClaudeJsonProofs ---------------------------
(***************************************************************************)
(* Proofs about ClaudeJson, for any accounts, sessions, keys and failures: *)
(* the type invariant, that identities stay home, that a cached view is    *)
(* fresh, and what a write-through changes and does not forget.            *)
(***************************************************************************)
EXTENDS ClaudeJson, TLAPS

(* A push is still to come for what s has committed.                        *)
Owing(s) == work[s].pc \in {"half", "push", "payload"} \/ (work[s].pc = "fd" /\ s \in dirty)

MirrorPc == {"stat", "base", "fd", "half", "push", "payload", "write"}

(* What a session is doing, and with what.                                  *)
Whose(s) ==
    /\ Belongs(work[s].mem, Home[s]) /\ Belongs(work[s].priv, Home[s])
    /\ Belongs(work[s].under, Vanilla)

Place(s) ==
    /\ work[s].pc \in MirrorPc => Home[s] \in Mirrored
    /\ work[s].pc \in {"launch", "install"} => Home[s] \notin Mirrored

Docs(s) ==
    /\ work[s].pc = "half" => work[s].mem \in Doc
    /\ work[s].pc \in {"write", "install"} => work[s].priv \in Doc
    /\ work[s].pc \in {"write", "install", "launch"} => work[s].under \in Doc

(* writeThroughMu and takeDirty.                                            *)
Pushes(s) ==
    /\ work[s].pc \in {"payload", "write"} => lock = s
    /\ work[s].pc = "half" => s \in dirty
    /\ s \in dirty => work[s].pc \in {"fd", "half"}
    /\ s \in dirty \/ work[s].pc \in {"half", "push", "payload", "write"} => s \in owes

(* What it has read is still so, unless its key or the base has passed.     *)
Reads(s) ==
    /\ work[s].pc = "base" /\ work[s].fresh => work[s].priv = private[Home[s]]
    /\ work[s].pc \in {"payload", "write"} /\ s \notin crossed => work[s].under = base

Files ==
    /\ Belongs(base, Vanilla) /\ Belongs(vanilla, Vanilla)
    /\ \A a \in Account : Belongs(private[a], a) /\ Belongs(view[a].buf, a)

(* Whose present file has not been pushed has somebody who will do it; also *)
(* while a write-through is at its end that will say that all went well.    *)
RememberedAt(m) ==
    m \notin pushed /\ (m \in writeErr => \E s \in Session : Home[s] = m /\ work[s].pc = "write")
        => \E s \in Session : Home[s] = m /\ Owing(s)

Remembered == \A m \in Mirrored : RememberedAt(m)

SessInv(s) == Whose(s) /\ Place(s) /\ Docs(s) /\ Pushes(s) /\ Reads(s)

IInv == TypeOK /\ Files /\ ViewFresh /\ Remembered /\ \A s \in Session : SessInv(s)

-----------------------------------------------------------------------------
(* Documents.                                                               *)
LEMMA Keys == NoVal \in Value /\ Vanilla \in Value /\ Account \subseteq Value /\ 0..MaxStamp \subseteq Value
BY DEF Value

LEMMA ParsesIsDoc == ASSUME NEW f \in File PROVE Parses(f) <=> f \in Doc
BY FileAssumption DEF File, Parses

LEMMA MergeDoc ==
    ASSUME NEW priv \in Doc, NEW under \in Doc
    PROVE  Merge(priv, under) \in Doc
BY FileAssumption DEF Merge, Doc

LEMMA MergeFile ==
    ASSUME NEW priv \in File, NEW under \in File, Mergeable(priv, under)
    PROVE  Merge(priv, under) \in File
<1>1. CASE under = Absent
  BY <1>1 DEF Merge
<1>2. CASE under # Absent
  <2>1. priv \in Doc /\ under \in Doc
    BY <1>2, ParsesIsDoc DEF Mergeable
  <2> QED
    BY <2>1, MergeDoc DEF File
<1> QED
  BY <1>1, <1>2

(* Merging takes nothing private from the base.                             *)
LEMMA MergeBelongs ==
    ASSUME NEW priv \in File, NEW under \in File, Mergeable(priv, under), NEW who,
           Belongs(priv, who)
    PROVE  Belongs(Merge(priv, under), who)
<1>1. CASE under = Absent
  BY <1>1 DEF Merge
<1>2. CASE under # Absent
  <2>1. Parses(priv) /\ \A k \in PrivateKey : priv[k] \in {who, NoVal}
    BY <1>2 DEF Mergeable, Belongs
  <2>2. ASSUME NEW k \in PrivateKey PROVE Merge(priv, under)[k] = priv[k]
    BY <1>2, <2>2, NameAssumption DEF Merge, Key
  <2> QED
    BY <2>1, <2>2 DEF Belongs
<1> QED
  BY <1>1, <1>2

LEMMA SplitDoc ==
    ASSUME NEW payload \in Doc, NEW under \in Doc
    PROVE  /\ Split(payload, under) \in Doc
           /\ \A k \in Key : Split(payload, under)[k] # under[k] =>
                 k \in SharedKey /\ Split(payload, under)[k] = payload[k]
BY DEF Split, Doc

LEMMA SplitBelongs ==
    ASSUME NEW payload \in Doc, NEW under \in Doc, NEW who, Belongs(under, who)
    PROVE  Belongs(Split(payload, under), who)
<1>1. \A k \in PrivateKey : under[k] \in {who, NoVal}
  BY ParsesIsDoc DEF Belongs, File
<1>2. \A k \in PrivateKey : Split(payload, under)[k] = under[k]
  BY NameAssumption DEF Split, Key
<1> QED
  BY <1>1, <1>2 DEF Belongs

LEMMA EditedDoc ==
    ASSUME NEW doc \in Doc, stamp \in 0..MaxStamp, NEW new \in Edited(doc), Stamp(doc, new)
    PROVE  /\ new \in Doc /\ stamp' \in 0..MaxStamp
           /\ \A who : Belongs(doc, who) => Belongs(new, who)
<1> USE BoundAssumption
<1>1. CASE new = doc
  BY <1>1 DEF Stamp
<1>2. CASE new # doc
  <2>1. stamp < MaxStamp /\ \E k \in SharedKey : new = [doc EXCEPT ![k] = stamp + 1]
    BY <1>2 DEF Edited
  <2>2. PICK k \in SharedKey : new = [doc EXCEPT ![k] = stamp + 1]
    BY <2>1
  <2>3. stamp + 1 \in 0..MaxStamp /\ stamp' = stamp + 1
    BY <1>2, <2>1 DEF Stamp
  <2>4. stamp + 1 \in Value
    BY <2>3, Keys
  <2>5. new \in Doc
    BY <2>2, <2>4 DEF Doc
  <2>6. \A j \in PrivateKey : new[j] = doc[j]
    BY <2>2, NameAssumption DEF Doc, Key
  <2>7. Parses(doc)
    BY ParsesIsDoc DEF File
  <2> QED
    BY <2>3, <2>5, <2>6, <2>7 DEF Belongs
<1> QED
  BY <1>1, <1>2

LEMMA OwnDoc ==
    ASSUME NEW who \in Value
    PROVE  Own(who, NoVal) \in Doc /\ Belongs(Own(who, NoVal), who)
BY Keys DEF Own, Doc, Belongs, Key

LEMMA EmptyDoc == Empty \in Doc /\ \A who : Belongs(Empty, who)
BY Keys DEF Empty, Doc, Belongs, Key

LEMMA Unparsed == \A who : Belongs(Absent, who) /\ Belongs(Corrupt, who)
BY DEF Belongs, Parses

-----------------------------------------------------------------------------
LEMMA InitIInv == Init => IInv
<1> SUFFICES ASSUME Init PROVE IInv
  OBVIOUS
<1> USE NameAssumption
<1>1. base \in File /\ Belongs(base, Vanilla) /\ vanilla = Absent
  BY OwnDoc, Keys, Unparsed DEF Init, File
<1>2. \A a \in Account : private[a] \in File /\ Belongs(private[a], a)
  <2> TAKE a \in Account
  <2>1. private[a] \in {Absent, Own(a, NoVal)}
    BY DEF Init
  <2> QED
    BY <2>1, OwnDoc, Keys, Unparsed DEF File
<1>3. private \in [Account -> File]
  <2>1. \E missing \in SUBSET (Account \ Mirrored) :
            private = [a \in Account |-> IF a \in missing THEN Absent ELSE Own(a, NoVal)]
    BY DEF Init
  <2> QED
    BY <1>2, <2>1
<1>4. view = [a \in Account |-> NoView] /\ work = [s \in Session |-> Idle(Absent)]
  BY DEF Init
<1>5. NoView \in View /\ Idle(Absent) \in WorkState /\ Absent \in File
  BY DEF NoView, View, Idle, WorkState, Pc, File
<1>6. view \in [Account -> View] /\ work \in [Session -> WorkState]
  BY <1>4, <1>5
<1>7. /\ lock = None /\ dirty = {} /\ writeErr = {} /\ stamp = 0 /\ owes = {} /\ pushed = Account
      /\ crossed = {} /\ faults = 0 /\ kind \in [Account -> {"fuse", "symlink"}]
  BY DEF Init
<1>8. TypeOK
  BY <1>1, <1>3, <1>5, <1>6, <1>7, BoundAssumption DEF TypeOK
<1>9. Files
  BY <1>1, <1>2, <1>4, Unparsed DEF Files, NoView
<1>10. ViewFresh
  BY <1>4 DEF ViewFresh, NoView, Mirrored
<1>11. Remembered
  BY <1>7 DEF Remembered, RememberedAt, Mirrored
<1>12. \A s \in Session : SessInv(s)
  <2> TAKE s \in Session
  <2>1. /\ work[s].pc = "idle" /\ work[s].mem = Absent /\ work[s].priv = Absent
        /\ work[s].under = Absent
    BY <1>4 DEF Idle
  <2> QED
    BY <1>7, <2>1, Unparsed DEF SessInv, Whose, Place, Docs, Pushes, Reads, MirrorPc
<1> QED
  BY <1>8, <1>9, <1>10, <1>11, <1>12 DEF IInv

-----------------------------------------------------------------------------
(* What sessions, views and mirrors a step does not concern.                *)
LEMMA Frame ==
    ASSUME IInv, NEW t \in Session, UNCHANGED kind,
           work'[t].pc = work[t].pc, work'[t].mem = work[t].mem,
           work'[t].priv = work[t].priv, work'[t].under = work[t].under,
           work'[t].fresh => work[t].fresh,
           t \in dirty' <=> t \in dirty, t \in owes => t \in owes', lock = t => lock' = t,
           t \in crossed => t \in crossed',
           private'[Home[t]] = private[Home[t]] \/ ~(work'[t].pc = "base" /\ work'[t].fresh),
           base' = base \/ t \in crossed' \/ work[t].pc \notin {"payload", "write"}
    PROVE  SessInv(t)'
<1>1. SessInv(t)
  BY DEF IInv
<1>2. Whose(t)' /\ Place(t)' /\ Docs(t)'
  BY <1>1 DEF SessInv, Whose, Place, Docs, Belongs, Mirrored
<1>3. Pushes(t)' /\ Reads(t)'
  BY <1>1 DEF SessInv, Pushes, Reads
<1> QED
  BY <1>2, <1>3 DEF SessInv

LEMMA ViewsKeep ==
    ASSUME IInv, UNCHANGED kind,
           \A m \in Mirrored : \/ ~view'[m].current
                               \/ /\ view'[m] = view[m] /\ private'[m] = private[m] /\ base' = base
                               \/ Mergeable(private'[m], base')
                                     /\ view'[m].buf = Merge(private'[m], base')
    PROVE  ViewFresh'
<1> SUFFICES ASSUME NEW m \in Mirrored, view'[m].ok, view'[m].current
             PROVE  Mergeable(private'[m], base') /\ view'[m].buf = Merge(private'[m], base')
  BY DEF ViewFresh, Mirrored
<1> QED
  BY DEF IInv, ViewFresh

LEMMA RememberedKeeps ==
    ASSUME IInv, UNCHANGED kind, NEW s \in Session,
           \A t \in Session \ {s} : work'[t].pc = work[t].pc /\ (t \in dirty' <=> t \in dirty),
           \A m \in Account \ {Home[s]} : /\ m \in pushed' <=> m \in pushed
                                          /\ m \in writeErr' <=> m \in writeErr,
           Home[s] \in Mirrored => RememberedAt(Home[s])'
    PROVE  Remembered'
<1> SUFFICES ASSUME NEW m \in Mirrored, m # Home[s] PROVE RememberedAt(m)'
  BY DEF Remembered, Mirrored
<1>1. RememberedAt(m) /\ m \in Account
  BY DEF IInv, Remembered, Mirrored
<1>2. \A t \in Session : Home[t] = m => work'[t].pc = work[t].pc /\ (t \in dirty' <=> t \in dirty)
  OBVIOUS
<1>3. \A t \in Session : Home[t] = m => (Owing(t) <=> Owing(t)')
  BY <1>2 DEF Owing
<1> QED
  BY <1>1, <1>2, <1>3 DEF RememberedAt

(* A mirror stays remembered where a session's step takes away no push.     *)
LEMMA StaysRemembered ==
    ASSUME IInv, NEW s \in Session, Home[s] \in Mirrored,
           \A t \in Session \ {s} : work'[t].pc = work[t].pc /\ (t \in dirty' <=> t \in dirty),
           UNCHANGED <<pushed, writeErr>>,
           Owing(s) => Owing(s)', work'[s].pc = "write" => work[s].pc = "write"
    PROVE  RememberedAt(Home[s])'
<1>1. RememberedAt(Home[s])
  BY DEF IInv, Remembered
<1>2. \A t \in Session : Owing(t) => Owing(t)'
  BY DEF Owing
<1>3. \A t \in Session : work'[t].pc = "write" => work[t].pc = "write"
  OBVIOUS
<1> QED
  BY <1>1, <1>2, <1>3 DEF RememberedAt

LEMMA Stepped ==
    ASSUME IInv, NEW s \in Session, NEW f \in WorkState, Step(s, f)
    PROVE  /\ work' \in [Session -> WorkState] /\ work'[s] = f
           /\ \A t \in Session \ {s} : work'[t] = work[t]
BY DEF IInv, TypeOK, Step

LEMMA PastOK ==
    ASSUME NEW mirrors, NEW states \in [Session -> WorkState], work' = Past(mirrors, states)
    PROVE  /\ work' \in [Session -> WorkState]
           /\ \A t \in Session :
                 /\ work'[t].pc = states[t].pc /\ work'[t].mem = states[t].mem
                 /\ work'[t].priv = states[t].priv /\ work'[t].under = states[t].under
                 /\ work'[t].fresh => states[t].fresh
                 /\ Home[t] \in mirrors /\ states[t].pc \in Reading => ~work'[t].fresh
<1>1. ASSUME NEW t \in Session
      PROVE  /\ work'[t] \in WorkState
             /\ work'[t].pc = states[t].pc /\ work'[t].mem = states[t].mem
             /\ work'[t].priv = states[t].priv /\ work'[t].under = states[t].under
             /\ work'[t].fresh => states[t].fresh
             /\ Home[t] \in mirrors /\ states[t].pc \in Reading => ~work'[t].fresh
  <2>1. states[t] \in WorkState
    OBVIOUS
  <2>2. work'[t] = IF Home[t] \in mirrors /\ states[t].pc \in Reading
                     THEN [states[t] EXCEPT !.fresh = FALSE] ELSE states[t]
    BY DEF Past
  <2> QED
    BY <2>1, <2>2 DEF WorkState
<1>2. work' = [t \in Session |-> work'[t]]
  BY DEF Past
<1> QED
  BY <1>1, <1>2

LEMMA PastViewsOK ==
    ASSUME IInv, NEW mirrors, PastViews(mirrors)
    PROVE  /\ view' \in [Account -> View]
           /\ \A m \in Account : /\ view'[m].buf = view[m].buf
                                 /\ m \in mirrors => ~view'[m].current
                                 /\ m \notin mirrors => view'[m] = view[m]
<1>1. view \in [Account -> View]
  BY DEF IInv, TypeOK
<1>2. ASSUME NEW m \in Account
      PROVE  /\ view'[m] \in View /\ view'[m].buf = view[m].buf
             /\ m \in mirrors => ~view'[m].current
             /\ m \notin mirrors => view'[m] = view[m]
  BY <1>1 DEF PastViews, View
<1>3. view' = [m \in Account |-> view'[m]]
  BY DEF PastViews
<1> QED
  BY <1>2, <1>3

(* A session's step that changes no file.                                   *)
LEMMA QuietKeeps ==
    ASSUME IInv, NEW s \in Session, NEW f \in WorkState, Step(s, f),
           UNCHANGED <<kind, base, private, vanilla, stamp>>, faults' \in Nat,
           view' \in [Account -> View],
           \A m \in Account \ {Home[s]} : view'[m] = view[m],
           \/ view'[Home[s]] = view[Home[s]]
           \/ /\ Belongs(view'[Home[s]].buf, Home[s])
              /\ view'[Home[s]].current =>
                    Mergeable(private[Home[s]], base)
                        /\ view'[Home[s]].buf = Merge(private[Home[s]], base),
           lock' \in Session \cup {None}, \A t \in Session \ {s} : lock = t => lock' = t,
           dirty' \subseteq Session, \A t \in Session \ {s} : t \in dirty' <=> t \in dirty,
           owes' \subseteq Session, \A t \in Session \ {s} : t \in owes => t \in owes',
           crossed' \subseteq Session, \A t \in Session \ {s} : t \in crossed => t \in crossed',
           writeErr' \subseteq Account, pushed' \subseteq Account,
           \A m \in Account \ {Home[s]} : /\ m \in pushed' <=> m \in pushed
                                          /\ m \in writeErr' <=> m \in writeErr,
           Home[s] \in Mirrored => RememberedAt(Home[s])', SessInv(s)'
    PROVE  IInv'
<1>1. /\ work' \in [Session -> WorkState] /\ work'[s] = f
      /\ \A t \in Session \ {s} : work'[t] = work[t]
  BY Stepped
<1>2. TypeOK'
  BY <1>1 DEF IInv, TypeOK
<1>3. Files'
  BY DEF IInv, Files
<1>4. ViewFresh'
  <2>1. ASSUME NEW m \in Mirrored
        PROVE  \/ ~view'[m].current
               \/ /\ view'[m] = view[m] /\ private'[m] = private[m] /\ base' = base
               \/ Mergeable(private'[m], base') /\ view'[m].buf = Merge(private'[m], base')
    <3>1. m \in Account
      BY DEF Mirrored
    <3> QED
      BY <3>1
  <2> QED
    BY <2>1, ViewsKeep
<1>5. Remembered'
  BY <1>1, RememberedKeeps
<1>6. \A t \in Session \ {s} : SessInv(t)'
  BY <1>1, Frame
<1> QED
  BY <1>2, <1>3, <1>4, <1>5, <1>6 DEF IInv

-----------------------------------------------------------------------------
(* Reading, opening and releasing.                                          *)

(* A session that has nothing under way.                                    *)
LEMMA IdleFields ==
    ASSUME NEW mem \in File
    PROVE  /\ Idle(mem) \in WorkState /\ Idle(mem).pc = "idle" /\ Idle(mem).mem = mem
           /\ Idle(mem).priv = Absent /\ Idle(mem).under = Absent /\ ~Idle(mem).fresh
BY DEF Idle, WorkState, Pc, File

LEMMA AtFields ==
    ASSUME IInv, NEW s \in Session, NEW pc \in Pc
    PROVE  /\ work[s] \in WorkState
           /\ At(s, pc) \in WorkState /\ At(s, pc).pc = pc /\ At(s, pc).mem = work[s].mem
           /\ At(s, pc).priv = work[s].priv /\ At(s, pc).under = work[s].under
           /\ At(s, pc).fresh = work[s].fresh
BY DEF IInv, TypeOK, At, WorkState

LEMMA PrivFields ==
    ASSUME NEW w \in WorkState, NEW priv \in File
    PROVE  /\ [w EXCEPT !.priv = priv] \in WorkState
           /\ [w EXCEPT !.priv = priv].pc = w.pc /\ [w EXCEPT !.priv = priv].mem = w.mem
           /\ [w EXCEPT !.priv = priv].priv = priv /\ [w EXCEPT !.priv = priv].under = w.under
           /\ [w EXCEPT !.priv = priv].fresh = w.fresh
BY DEF WorkState

LEMMA UnderFields ==
    ASSUME NEW w \in WorkState, NEW under \in File
    PROVE  /\ [w EXCEPT !.under = under] \in WorkState
           /\ [w EXCEPT !.under = under].pc = w.pc /\ [w EXCEPT !.under = under].mem = w.mem
           /\ [w EXCEPT !.under = under].priv = w.priv /\ [w EXCEPT !.under = under].under = under
BY DEF WorkState

LEMMA PcFields ==
    ASSUME NEW w \in WorkState, NEW pc \in Pc
    PROVE  /\ [w EXCEPT !.pc = pc] \in WorkState
           /\ [w EXCEPT !.pc = pc].pc = pc /\ [w EXCEPT !.pc = pc].mem = w.mem
           /\ [w EXCEPT !.pc = pc].priv = w.priv /\ [w EXCEPT !.pc = pc].under = w.under
           /\ [w EXCEPT !.pc = pc].fresh = w.fresh
BY DEF WorkState

(* What is known of a session, and of its account's files.                  *)
LEMMA Known ==
    ASSUME IInv, NEW s \in Session
    PROVE  /\ Home[s] \in Account /\ work[s] \in WorkState
           /\ work[s].mem \in File /\ work[s].priv \in File /\ work[s].under \in File
           /\ Belongs(work[s].mem, Home[s]) /\ Belongs(work[s].priv, Home[s])
           /\ Belongs(work[s].under, Vanilla)
           /\ private[Home[s]] \in File /\ Belongs(private[Home[s]], Home[s])
           /\ view[Home[s]].buf \in File /\ Belongs(view[Home[s]].buf, Home[s])
           /\ base \in File /\ Belongs(base, Vanilla)
           /\ vanilla \in File /\ Belongs(vanilla, Vanilla)
           /\ SessInv(s)
<1>1. Home[s] \in Account
  BY HomeAssumption
<1>2. view[Home[s]] \in View /\ work[s] \in WorkState
  BY <1>1 DEF IInv, TypeOK
<1> QED
  BY <1>1, <1>2 DEF IInv, TypeOK, Files, SessInv, Whose, View, WorkState

(* A session that goes back to having nothing under way, without a push.    *)
LEMMA IdleInv ==
    ASSUME NEW s \in Session, work'[s].pc = "idle", s \notin dirty',
           Belongs(work'[s].mem, Home[s]), work'[s].priv = Absent, work'[s].under = Absent
    PROVE  SessInv(s)'
<1>1. Belongs(Absent, Home[s]) /\ Belongs(Absent, Vanilla)
  BY Unparsed
<1> QED
  BY <1>1 DEF SessInv, Whose, Place, Docs, Pushes, Reads, MirrorPc, Belongs

LEMMA OpenKeeps ==
    ASSUME IInv, NEW s \in Session, UNCHANGED kind, Open(s) \/ ReadPrivate(s) \/ OpenWrite(s)
    PROVE  IInv'
<1>1. /\ UNCHANGED <<base, private, mirrorVars, vanilla, stamp, historyVars, faults>>
      /\ work[s].pc \in {"idle", "stat"} /\ SessInv(s) /\ s \notin dirty
      /\ Home[s] \in Mirrored
  BY Known DEF Open, ReadPrivate, OpenWrite, SessInv, Pushes, Place, MirrorPc
<1>2. \E f \in WorkState :
         /\ Step(s, f) /\ f.pc \in {"idle", "stat", "base", "fd"}
         /\ Belongs(f.mem, Home[s]) /\ Belongs(f.priv, Home[s]) /\ Belongs(f.under, Vanilla)
         /\ f.pc = "base" => f.priv = private[Home[s]]
  <2>1. CASE Open(s) /\ view[Home[s]].ok /\ view[Home[s]].current
    <3>1. Step(s, Idle(view[Home[s]].buf))
      BY <2>1 DEF Open
    <3> QED
      BY <3>1, IdleFields, Known, Unparsed
  <2>2. CASE Open(s) /\ ~(view[Home[s]].ok /\ view[Home[s]].current)
    <3> DEFINE f == [Idle(work[s].mem) EXCEPT !.pc = "stat", !.fresh = TRUE]
    <3>1. Step(s, f)
      BY <2>2 DEF Open
    <3>2. /\ f \in WorkState /\ f.pc = "stat" /\ f.mem = work[s].mem /\ f.priv = Absent
          /\ f.under = Absent
      BY Known DEF Idle, WorkState, Pc, File
    <3> HIDE DEF f
    <3> QED
      BY <3>1, <3>2, Known, Unparsed
  <2>3. CASE ReadPrivate(s)
    <3> DEFINE g == At(s, "base")
               f == [g EXCEPT !.priv = private[Home[s]]]
    <3>1. Step(s, f)
      BY <2>3 DEF ReadPrivate
    <3>2. /\ g \in WorkState /\ g.pc = "base" /\ g.mem = work[s].mem
          /\ g.under = work[s].under
      BY AtFields DEF Pc
    <3> HIDE DEF g
    <3>3. /\ f \in WorkState /\ f.pc = "base" /\ f.mem = work[s].mem
          /\ f.under = work[s].under /\ f.priv = private[Home[s]]
      BY <3>2, PrivFields, Known
    <3> HIDE DEF f
    <3> QED
      BY <3>1, <3>3, Known
  <2>4. CASE OpenWrite(s)
    <3>1. Step(s, At(s, "fd")) /\ "fd" \in Pc
      BY <2>4 DEF OpenWrite, Pc
    <3> QED
      BY <3>1, AtFields, Known
  <2> QED
    BY <2>1, <2>2, <2>3, <2>4
<1>3. PICK f \in WorkState :
         /\ Step(s, f) /\ f.pc \in {"idle", "stat", "base", "fd"}
         /\ Belongs(f.mem, Home[s]) /\ Belongs(f.priv, Home[s]) /\ Belongs(f.under, Vanilla)
         /\ f.pc = "base" => f.priv = private[Home[s]]
  BY <1>2
<1>4. work'[s] = f /\ \A t \in Session \ {s} : work'[t] = work[t]
  BY <1>3, Stepped
<1>5. SessInv(s)'
  BY <1>1, <1>3, <1>4
  DEF SessInv, Whose, Place, Docs, Pushes, Reads, MirrorPc, Mirrored, Belongs, mirrorVars
<1>6. RememberedAt(Home[s])'
  BY <1>1, <1>3, <1>4, StaysRemembered DEF Owing, mirrorVars, historyVars
<1>7. /\ view' = view /\ lock' = lock /\ dirty' = dirty /\ writeErr' = writeErr /\ owes' = owes
      /\ pushed' = pushed /\ crossed' = crossed
  BY <1>1 DEF mirrorVars, historyVars
<1>8. /\ view \in [Account -> View] /\ lock \in Session \cup {None} /\ dirty \subseteq Session
      /\ writeErr \subseteq Account /\ owes \subseteq Session /\ pushed \subseteq Account
      /\ crossed \subseteq Session /\ faults \in Nat
  BY DEF IInv, TypeOK
<1> QED
  BY <1>1, <1>3, <1>5, <1>6, <1>7, <1>8, QuietKeeps

(* The fields of the state that a step of a session seldom touches.         *)
LEMMA Sets ==
    ASSUME IInv
    PROVE  /\ view \in [Account -> View] /\ lock \in Session \cup {None} /\ dirty \subseteq Session
           /\ writeErr \subseteq Account /\ owes \subseteq Session /\ pushed \subseteq Account
           /\ crossed \subseteq Session /\ work \in [Session -> WorkState]
           /\ private \in [Account -> File] /\ stamp \in 0..MaxStamp /\ faults \in Nat
           /\ base \in File /\ vanilla \in File /\ kind \in [Account -> {"fuse", "symlink"}]
BY DEF IInv, TypeOK

LEMMA ReadBaseKeeps ==
    ASSUME IInv, NEW s \in Session, UNCHANGED kind, ReadBase(s)
    PROVE  IInv'
<1> DEFINE m == Home[s]
           priv == work[s].priv
           f == Idle(IF Mergeable(priv, base) THEN Merge(priv, base) ELSE priv)
<1>1. /\ UNCHANGED <<base, private, lock, dirty, writeErr, vanilla, stamp, historyVars, faults>>
      /\ work[s].pc = "base" /\ SessInv(s) /\ s \notin dirty /\ m \in Mirrored
  BY Known DEF ReadBase, SessInv, Pushes, Place, MirrorPc
<1>2. m \in Account /\ priv \in File /\ base \in File /\ Belongs(priv, m)
  BY Known
<1>3. /\ Mergeable(priv, base) =>
            Merge(priv, base) \in File /\ Belongs(Merge(priv, base), m)
  BY <1>2, MergeFile, MergeBelongs
<1>4. /\ f \in WorkState /\ f.pc = "idle" /\ Belongs(f.mem, m) /\ f.priv = Absent
      /\ f.under = Absent
  BY <1>2, <1>3, IdleFields
<1>5. Step(s, f)
  BY DEF ReadBase
<1>6. /\ view' \in [Account -> View] /\ \A a \in Account \ {m} : view'[a] = view[a]
      /\ \/ view'[m] = view[m]
         \/ /\ Belongs(view'[m].buf, m)
            /\ view'[m].current =>
                  Mergeable(private[m], base) /\ view'[m].buf = Merge(private[m], base)
  <2>1. CASE ~Mergeable(priv, base)
    BY <1>2, <2>1, Sets DEF ReadBase
  <2>2. CASE Mergeable(priv, base)
    <3> DEFINE v == [ok |-> TRUE, current |-> KeyOf(work[s].fresh), buf |-> Merge(priv, base)]
    <3>1. view' = [view EXCEPT ![m] = v]
      BY <2>2 DEF ReadBase
    <3>2. v \in View
      BY <1>3, <2>2, Known DEF View, KeyOf, WorkState
    <3>3. view'[m] = v /\ view' \in [Account -> View] /\ \A a \in Account \ {m} : view'[a] = view[a]
      BY <1>2, <3>1, <3>2, Sets
    <3>4. work[s].fresh => priv = private[m]
      BY <1>1 DEF SessInv, Reads
    <3> QED
      BY <1>3, <2>2, <3>3, <3>4 DEF KeyOf
  <2> QED
    BY <2>1, <2>2
<1> HIDE DEF f
<1>7. work'[s] = f /\ \A t \in Session \ {s} : work'[t] = work[t]
  BY <1>4, <1>5, Stepped
<1>8. SessInv(s)'
  BY <1>1, <1>4, <1>7, IdleInv
<1>9. /\ lock' = lock /\ dirty' = dirty /\ writeErr' = writeErr /\ owes' = owes
      /\ pushed' = pushed /\ crossed' = crossed
  BY <1>1 DEF historyVars
<1>10. RememberedAt(Home[s])'
  BY <1>1, <1>4, <1>7, <1>9, StaysRemembered DEF Owing
<1> QED
  BY <1>1, <1>4, <1>5, <1>6, <1>8, <1>9, <1>10, Sets, QuietKeeps

LEMMA ReleaseKeeps ==
    ASSUME IInv, NEW s \in Session, UNCHANGED kind, Release(s)
    PROVE  IInv'
<1> DEFINE f == At(s, IF s \in dirty THEN "push" ELSE "idle")
<1>1. /\ UNCHANGED <<base, private, view, lock, writeErr, vanilla, stamp, historyVars, faults>>
      /\ work[s].pc = "fd" /\ SessInv(s) /\ dirty' = dirty \ {s} /\ Home[s] \in Mirrored
      /\ Step(s, f)
  BY Known DEF Release, TakeDirty, SessInv, Place, MirrorPc
<1>2. /\ f \in WorkState /\ f.pc = IF s \in dirty THEN "push" ELSE "idle"
      /\ f.mem = work[s].mem /\ f.priv = work[s].priv /\ f.under = work[s].under
  BY AtFields DEF Pc
<1> HIDE DEF f
<1>3. work'[s] = f /\ \A t \in Session \ {s} : work'[t] = work[t]
  BY <1>1, <1>2, Stepped
<1>4. /\ view' = view /\ lock' = lock /\ writeErr' = writeErr /\ owes' = owes
      /\ pushed' = pushed /\ crossed' = crossed
  BY <1>1 DEF historyVars
<1>5. SessInv(s)'
  BY <1>1, <1>2, <1>3, <1>4, Known
  DEF SessInv, Whose, Place, Docs, Pushes, Reads, MirrorPc, Mirrored, Belongs
<1>6. RememberedAt(Home[s])'
  <2>1. \A t \in Session \ {s} : work'[t].pc = work[t].pc /\ (t \in dirty' <=> t \in dirty)
    BY <1>1, <1>3
  <2>2. Owing(s) => Owing(s)'
    BY <1>1, <1>2, <1>3 DEF Owing
  <2>3. work'[s].pc # "write"
    BY <1>2, <1>3
  <2> QED
    BY <1>1, <1>4, <2>1, <2>2, <2>3, StaysRemembered
<1> QED
  BY <1>1, <1>2, <1>4, <1>5, <1>6, Sets, QuietKeeps

-----------------------------------------------------------------------------
(* Writing through, up to the write.                                        *)

LEMMA PushReadBaseKeeps ==
    ASSUME IInv, NEW s \in Session, UNCHANGED kind, PushReadBase(s)
    PROVE  IInv'
<1>1. /\ UNCHANGED <<base, private, view, dirty, vanilla, stamp, faults>>
      /\ work[s].pc = "push" /\ SessInv(s) /\ s \notin dirty /\ Home[s] \in Mirrored /\ lock = None
      /\ crossed' = crossed \ {s} /\ s \in owes
  BY Known DEF PushReadBase, SessInv, Pushes, Place, MirrorPc, LockFree
<1>2. Home[s] \in Account
  BY HomeAssumption
<1>3. CASE base = Absent
  <2> DEFINE f == Idle(work[s].mem)
  <2>1. /\ Step(s, f) /\ lock' = None /\ writeErr' = writeErr \ {Home[s]} /\ owes' = owes \ {s}
        /\ pushed' = pushed \cup {Home[s]}
    BY <1>3 DEF PushReadBase, PushEnds
  <2>2. /\ f \in WorkState /\ f.pc = "idle" /\ f.mem = work[s].mem /\ f.priv = Absent
        /\ f.under = Absent
    BY IdleFields, Known
  <2> HIDE DEF f
  <2>3. work'[s] = f
    BY <2>1, <2>2, Stepped
  <2>4. SessInv(s)'
    BY <1>1, <2>2, <2>3, IdleInv, Known
  <2>5. RememberedAt(Home[s])'
    BY <2>1 DEF RememberedAt
  <2> QED
    BY <1>1, <1>2, <2>1, <2>2, <2>4, <2>5, Sets, QuietKeeps, NameAssumption
<1>4. CASE base # Absent
  <2> DEFINE g == At(s, "payload")
             f == [g EXCEPT !.under = base]
  <2>1. Step(s, f) /\ lock' = s /\ UNCHANGED <<writeErr, owes, pushed>>
    BY <1>4 DEF PushReadBase
  <2>2. /\ g \in WorkState /\ g.pc = "payload" /\ g.mem = work[s].mem /\ g.priv = work[s].priv
    BY AtFields DEF Pc
  <2> HIDE DEF g
  <2>3. /\ f \in WorkState /\ f.pc = "payload" /\ f.mem = work[s].mem /\ f.priv = work[s].priv
        /\ f.under = base
    BY <2>2, UnderFields, Known
  <2> HIDE DEF f
  <2>4. work'[s] = f
    BY <2>1, <2>3, Stepped
  <2>5. SessInv(s)'
    BY <1>1, <2>1, <2>3, <2>4, Known
    DEF SessInv, Whose, Place, Docs, Pushes, Reads, MirrorPc, Mirrored, Belongs
  <2>6. RememberedAt(Home[s])'
    BY <2>3, <2>4 DEF RememberedAt, Owing
  <2> QED
    BY <1>1, <1>2, <2>1, <2>3, <2>5, <2>6, Sets, QuietKeeps, NameAssumption
<1> QED
  BY <1>3, <1>4

LEMMA PushReadPayloadKeeps ==
    ASSUME IInv, NEW s \in Session, UNCHANGED kind, PushReadPayload(s)
    PROVE  IInv'
<1> DEFINE payload == private[Home[s]]
<1>1. /\ UNCHANGED <<base, private, view, dirty, vanilla, stamp, crossed, faults>>
      /\ work[s].pc = "payload" /\ SessInv(s) /\ s \notin dirty /\ Home[s] \in Mirrored /\ lock = s
      /\ s \in owes
  BY Known DEF PushReadPayload, SessInv, Pushes, Place, MirrorPc
<1>2. Home[s] \in Account
  BY HomeAssumption
<1>3. CASE Parses(payload) /\ Parses(work[s].under)
  <2> DEFINE g == At(s, "write")
             f == [g EXCEPT !.priv = payload]
  <2>1. Step(s, f) /\ pushed' = pushed \cup {Home[s]} /\ UNCHANGED <<lock, writeErr, owes>>
    BY <1>3 DEF PushReadPayload
  <2>2. /\ g \in WorkState /\ g.pc = "write" /\ g.mem = work[s].mem /\ g.under = work[s].under
    BY AtFields DEF Pc
  <2> HIDE DEF g
  <2>3. /\ f \in WorkState /\ f.pc = "write" /\ f.mem = work[s].mem /\ f.under = work[s].under
        /\ f.priv = payload
    BY <2>2, PrivFields, Known
  <2>4. payload \in Doc /\ work[s].under \in Doc
    BY <1>3, Known, ParsesIsDoc
  <2> HIDE DEF f
  <2>5. work'[s] = f
    BY <2>1, <2>3, Stepped
  <2>6. SessInv(s)'
    BY <1>1, <2>1, <2>3, <2>4, <2>5, Known
    DEF SessInv, Whose, Place, Docs, Pushes, Reads, MirrorPc, Mirrored, Belongs
  <2>7. RememberedAt(Home[s])'
    BY <2>1 DEF RememberedAt
  <2> QED
    BY <1>1, <1>2, <2>1, <2>3, <2>6, <2>7, Sets, QuietKeeps
<1>4. CASE ~(Parses(payload) /\ Parses(work[s].under))
  <2> DEFINE f == Idle(work[s].mem)
  <2>1. /\ Step(s, f) /\ lock' = None /\ writeErr' = writeErr \cup {Home[s]} /\ owes' = owes \ {s}
        /\ pushed' = pushed
    BY <1>4 DEF PushReadPayload, PushEnds
  <2>2. /\ f \in WorkState /\ f.pc = "idle" /\ f.mem = work[s].mem /\ f.priv = Absent
        /\ f.under = Absent
    BY IdleFields, Known
  <2> HIDE DEF f
  <2>3. work'[s] = f /\ \A t \in Session \ {s} : work'[t] = work[t]
    BY <2>1, <2>2, Stepped
  <2>4. SessInv(s)'
    BY <1>1, <2>2, <2>3, IdleInv, Known
  <2>5. \A t \in Session : work'[t].pc # "write"
    <3>1. \A t \in Session \ {s} : work[t].pc # "write"
      BY <1>1 DEF IInv, SessInv, Pushes
    <3> QED
      BY <2>2, <2>3, <3>1
  <2>6. RememberedAt(Home[s])'
    BY <2>1, <2>5 DEF RememberedAt
  <2> QED
    BY <1>1, <1>2, <2>1, <2>2, <2>4, <2>6, Sets, QuietKeeps
<1> QED
  BY <1>3, <1>4

(* One that fails has whatever it was about to push pushed by nobody, and   *)
(* says so: nobody else is at the end of one, for it has the lock.          *)
LEMMA PushFailsKeeps ==
    ASSUME IInv, NEW s \in Session, UNCHANGED kind, PushFails(s)
    PROVE  IInv'
<1> DEFINE f == Idle(work[s].mem)
<1>1. /\ UNCHANGED <<base, private, view, dirty, vanilla, stamp, crossed>>
      /\ work[s].pc \in {"push", "payload", "write"} /\ SessInv(s)
      /\ lock = s \/ lock = None
      /\ Step(s, f) /\ lock' = None /\ writeErr' = writeErr \cup {Home[s]} /\ owes' = owes \ {s}
      /\ pushed' = pushed \ {Home[s]}
  BY Known DEF PushFails, PushEnds, LockFree, SessInv, Pushes
<1>2. Home[s] \in Account /\ Home[s] \in Mirrored /\ s \notin dirty
  BY <1>1, HomeAssumption DEF SessInv, Place, Pushes, MirrorPc
<1>3. /\ f \in WorkState /\ f.pc = "idle" /\ f.mem = work[s].mem /\ f.priv = Absent
      /\ f.under = Absent
  BY IdleFields, Known
<1>4. faults' \in Nat
  BY Sets, SMT DEF PushFails, Fault
<1> HIDE DEF f
<1>5. work'[s] = f /\ \A t \in Session \ {s} : work'[t] = work[t]
  BY <1>1, <1>3, Stepped
<1>6. SessInv(s)'
  BY <1>1, <1>2, <1>3, <1>5, IdleInv, Known
<1>7. \A t \in Session : work'[t].pc # "write"
  <2>1. \A t \in Session \ {s} : work[t].pc # "write"
    BY <1>1, NameAssumption DEF IInv, SessInv, Pushes
  <2> QED
    BY <1>3, <1>5, <2>1
<1>8. RememberedAt(Home[s])'
  BY <1>1, <1>7 DEF RememberedAt
<1>9. \A t \in Session \ {s} : lock = t => lock' = t
  BY <1>1, NameAssumption
<1> QED
  BY <1>1, <1>2, <1>3, <1>4, <1>6, <1>8, <1>9, Sets, QuietKeeps

-----------------------------------------------------------------------------
(* A launch without a mirror, up to its write.                              *)

LEMMA LaunchReadBaseKeeps ==
    ASSUME IInv, NEW s \in Session, UNCHANGED kind, LaunchReadBase(s)
    PROVE  IInv'
<1>1. /\ UNCHANGED <<base, private, mirrorVars, vanilla, stamp, historyVars, faults>>
      /\ work[s].pc = "idle" /\ SessInv(s) /\ s \notin dirty /\ Home[s] \notin Mirrored
  BY Known DEF LaunchReadBase, SessInv, Pushes
<1>2. \E f \in WorkState :
         /\ Step(s, f) /\ f.pc \in {"idle", "launch"}
         /\ Belongs(f.mem, Home[s]) /\ f.priv = Absent
         /\ \/ f.pc = "idle" /\ f.under = Absent
            \/ f.pc = "launch" /\ f.under = base /\ base \in Doc
  <2>1. CASE Parses(base)
    <3> DEFINE h == Idle(work[s].mem)
               g == [h EXCEPT !.pc = "launch"]
               f == [g EXCEPT !.under = base]
    <3>1. h \in WorkState /\ h.mem = work[s].mem /\ h.priv = Absent
      BY IdleFields, Known
    <3>2. Step(s, [h EXCEPT !.pc = "launch", !.under = base])
      BY <2>1 DEF LaunchReadBase
    <3> HIDE DEF h
    <3>3. g \in WorkState /\ g.pc = "launch" /\ g.mem = work[s].mem /\ g.priv = Absent
      BY <3>1, PcFields DEF Pc
    <3>4. Step(s, f)
      BY <3>1, <3>2
    <3> HIDE DEF g
    <3>5. /\ f \in WorkState /\ f.pc = "launch" /\ f.mem = work[s].mem /\ f.priv = Absent
          /\ f.under = base
      BY <3>3, UnderFields, Known
    <3> HIDE DEF f
    <3> QED
      BY <2>1, <3>4, <3>5, Known, ParsesIsDoc
  <2>2. CASE ~Parses(base)
    <3>1. Step(s, Idle(private[Home[s]]))
      BY <2>2 DEF LaunchReadBase
    <3> QED
      BY <3>1, IdleFields, Known
  <2> QED
    BY <2>1, <2>2
<1>3. PICK f \in WorkState :
         /\ Step(s, f) /\ f.pc \in {"idle", "launch"}
         /\ Belongs(f.mem, Home[s]) /\ f.priv = Absent
         /\ \/ f.pc = "idle" /\ f.under = Absent
            \/ f.pc = "launch" /\ f.under = base /\ base \in Doc
  BY <1>2
<1>4. work'[s] = f
  BY <1>3, Stepped
<1>5. SessInv(s)'
  BY <1>1, <1>3, <1>4, Known, Unparsed
  DEF SessInv, Whose, Place, Docs, Pushes, Reads, MirrorPc, Mirrored, Belongs, mirrorVars
<1>6. /\ view' = view /\ lock' = lock /\ dirty' = dirty /\ writeErr' = writeErr /\ owes' = owes
      /\ pushed' = pushed /\ crossed' = crossed
  BY <1>1 DEF mirrorVars, historyVars
<1> QED
  BY <1>1, <1>3, <1>5, <1>6, Sets, QuietKeeps

LEMMA LaunchReadPrivateKeeps ==
    ASSUME IInv, NEW s \in Session, UNCHANGED kind, LaunchReadPrivate(s)
    PROVE  IInv'
<1> DEFINE file == private[Home[s]]
<1>1. /\ UNCHANGED <<base, private, mirrorVars, vanilla, stamp, historyVars, faults>>
      /\ work[s].pc = "launch" /\ SessInv(s) /\ s \notin dirty /\ Home[s] \notin Mirrored
  BY Known DEF LaunchReadPrivate, SessInv, Pushes, Place
<1>2. \E f \in WorkState :
         /\ Step(s, f) /\ Belongs(f.mem, Home[s])
         /\ \/ f.pc = "idle" /\ f.priv = Absent /\ f.under = Absent
            \/ /\ f.pc = "install" /\ f.under = work[s].under
               /\ f.priv \in Doc /\ Belongs(f.priv, Home[s])
  <2>1. CASE file = Corrupt
    <3>1. Step(s, Idle(file))
      BY <2>1 DEF LaunchReadPrivate
    <3> QED
      BY <3>1, IdleFields, Known
  <2>2. CASE file # Corrupt
    <3> DEFINE doc == IF file = Absent THEN Empty ELSE file
               g == At(s, "install")
               f == [g EXCEPT !.priv = doc]
    <3>1. Step(s, f)
      BY <2>2 DEF LaunchReadPrivate
    <3>2. g \in WorkState /\ g.pc = "install" /\ g.mem = work[s].mem /\ g.under = work[s].under
      BY AtFields DEF Pc
    <3>3. doc \in Doc /\ Belongs(doc, Home[s]) /\ doc \in File
      BY <2>2, EmptyDoc, Known DEF File
    <3> HIDE DEF g, doc
    <3>4. /\ f \in WorkState /\ f.pc = "install" /\ f.mem = work[s].mem
          /\ f.under = work[s].under /\ f.priv = doc
      BY <3>2, <3>3, PrivFields
    <3> HIDE DEF f
    <3> QED
      BY <3>1, <3>3, <3>4, Known
  <2> QED
    BY <2>1, <2>2
<1>3. PICK f \in WorkState :
         /\ Step(s, f) /\ Belongs(f.mem, Home[s])
         /\ \/ f.pc = "idle" /\ f.priv = Absent /\ f.under = Absent
            \/ /\ f.pc = "install" /\ f.under = work[s].under
               /\ f.priv \in Doc /\ Belongs(f.priv, Home[s])
  BY <1>2
<1>4. work'[s] = f
  BY <1>3, Stepped
<1>5. SessInv(s)'
  BY <1>1, <1>3, <1>4, Known, Unparsed
  DEF SessInv, Whose, Place, Docs, Pushes, Reads, MirrorPc, Mirrored, Belongs, mirrorVars
<1>6. /\ view' = view /\ lock' = lock /\ dirty' = dirty /\ writeErr' = writeErr /\ owes' = owes
      /\ pushed' = pushed /\ crossed' = crossed
  BY <1>1 DEF mirrorVars, historyVars
<1> QED
  BY <1>1, <1>3, <1>5, <1>6, Sets, QuietKeeps

-----------------------------------------------------------------------------
(* Steps that change a file.                                                *)

(* Nothing under way reads what has passed since.                           *)
LEMMA CommitKeeps ==
    ASSUME IInv, NEW s \in Session, NEW doc \in File, NEW f \in WorkState, UNCHANGED kind,
           Commit(s, doc), work' = Past({Home[s]}, [work EXCEPT ![s] = f]),
           Belongs(doc, Home[s]), Belongs(f.mem, Home[s]), Belongs(f.priv, Home[s]),
           Belongs(f.under, Vanilla), f.pc \in {"half", "fd", "push", "idle"},
           f.pc # "idle" <=> Home[s] \in Mirrored, f.pc = "half" => f.mem \in Doc,
           f.pc \in {"half", "fd"} <=> s \in dirty', f.pc # "idle" => s \in owes',
           UNCHANGED <<base, lock, vanilla, crossed, writeErr, faults>>, stamp' \in 0..MaxStamp,
           dirty' \subseteq Session, \A t \in Session \ {s} : t \in dirty' <=> t \in dirty,
           owes' \subseteq Session, \A t \in Session : t \in owes => t \in owes',
           work[s].pc \notin {"payload", "write"}
    PROVE  IInv'
<1> DEFINE states == [work EXCEPT ![s] = f]
<1>1. states \in [Session -> WorkState] /\ states[s] = f
      /\ \A t \in Session \ {s} : states[t] = work[t]
  BY Sets
<1> HIDE DEF states
<1>2. /\ work' \in [Session -> WorkState]
      /\ \A t \in Session :
            /\ work'[t].pc = states[t].pc /\ work'[t].mem = states[t].mem
            /\ work'[t].priv = states[t].priv /\ work'[t].under = states[t].under
            /\ work'[t].fresh => states[t].fresh
            /\ Home[t] \in {Home[s]} /\ states[t].pc \in Reading => ~work'[t].fresh
  <2> DEFINE mirrors == {Home[s]}
  <2>1. work' = Past(mirrors, states)
    BY DEF states
  <2> HIDE DEF mirrors
  <2>2. states \in [Session -> WorkState]
    BY <1>1
  <2>3. /\ work' \in [Session -> WorkState]
        /\ \A t \in Session :
              /\ work'[t].pc = states[t].pc /\ work'[t].mem = states[t].mem
              /\ work'[t].priv = states[t].priv /\ work'[t].under = states[t].under
              /\ work'[t].fresh => states[t].fresh
              /\ Home[t] \in mirrors /\ states[t].pc \in Reading => ~work'[t].fresh
    BY <2>1, <2>2, PastOK
  <2> QED
    BY <2>3 DEF mirrors
<1>3. /\ view' \in [Account -> View]
      /\ \A m \in Account : /\ view'[m].buf = view[m].buf
                            /\ m \in {Home[s]} => ~view'[m].current
                            /\ m \notin {Home[s]} => view'[m] = view[m]
  BY PastViewsOK DEF Commit
<1>4. Home[s] \in Account
  BY HomeAssumption
<1>5. /\ private' \in [Account -> File] /\ private'[Home[s]] = doc
      /\ \A a \in Account \ {Home[s]} : private'[a] = private[a]
      /\ pushed' = pushed \ {Home[s]}
  BY <1>4, Sets DEF Commit
<1>6. TypeOK'
  BY <1>2, <1>3, <1>5, Sets DEF TypeOK
<1>7. Files'
  BY <1>3, <1>5 DEF IInv, Files, Belongs
<1>8. ViewFresh'
  <2>1. ASSUME NEW m \in Mirrored
        PROVE  ~view'[m].current
                 \/ (view'[m] = view[m] /\ private'[m] = private[m] /\ base' = base)
    <3>1. m \in Account
      BY DEF Mirrored
    <3> QED
      BY <1>3, <1>5, <3>1
  <2> QED
    BY <2>1, ViewsKeep
<1>9. Home[s] \in Mirrored => RememberedAt(Home[s])'
  <2> SUFFICES ASSUME Home[s] \in Mirrored PROVE Owing(s)'
    BY DEF RememberedAt
  <2> QED
    BY <1>1, <1>2 DEF Owing
<1>10. Remembered'
  <2>1. \A t \in Session \ {s} : work'[t].pc = work[t].pc
    BY <1>1, <1>2
  <2> QED
    BY <1>5, <1>9, <2>1, RememberedKeeps
<1>11. ASSUME NEW t \in Session, t # s PROVE SessInv(t)'
  <2>1. /\ work'[t].pc = work[t].pc /\ work'[t].mem = work[t].mem
        /\ work'[t].priv = work[t].priv /\ work'[t].under = work[t].under
        /\ work'[t].fresh => work[t].fresh
        /\ Home[t] = Home[s] /\ work[t].pc \in Reading => ~work'[t].fresh
    <3>1. states[t] = work[t] /\ t \in Session
      BY <1>1, <1>11
    <3>2. /\ work'[t].pc = states[t].pc /\ work'[t].mem = states[t].mem
          /\ work'[t].priv = states[t].priv /\ work'[t].under = states[t].under
          /\ work'[t].fresh => states[t].fresh
          /\ Home[t] \in {Home[s]} /\ states[t].pc \in Reading => ~work'[t].fresh
      BY <1>2, <3>1
    <3> QED
      BY <3>1, <3>2
  <2>2. private'[Home[t]] = private[Home[t]] \/ ~(work'[t].pc = "base" /\ work'[t].fresh)
    BY <1>5, <2>1, HomeAssumption DEF Reading
  <2> QED
    BY <1>11, <2>1, <2>2, Frame
<1>12. SessInv(s)'
  <2>1. /\ work'[s].pc = f.pc /\ work'[s].mem = f.mem /\ work'[s].priv = f.priv
        /\ work'[s].under = f.under
    BY <1>1, <1>2
  <2> QED
    BY <2>1 DEF SessInv, Whose, Place, Docs, Pushes, Reads, MirrorPc, Mirrored, Belongs
<1> QED
  BY <1>6, <1>7, <1>8, <1>10, <1>11, <1>12 DEF IInv

LEMMA RenameKeeps ==
    ASSUME IInv, NEW s \in Session, UNCHANGED kind, Rename(s)
    PROVE  IInv'
<1>1. /\ work[s].pc = "idle" /\ work[s].mem \in Doc /\ SessInv(s) /\ s \notin dirty
      /\ UNCHANGED <<base, lock, dirty, writeErr, vanilla, crossed, faults>>
  BY Known, ParsesIsDoc DEF Rename, SessInv, Pushes
<1>2. PICK doc \in Edited(work[s].mem) :
         /\ Commit(s, doc) /\ Stamp(work[s].mem, doc)
         /\ work' = Past({Home[s]}, [work EXCEPT ![s] = [Idle(doc) EXCEPT !.pc = AfterRename(s)]])
  BY DEF Rename
<1>3. /\ doc \in Doc /\ stamp' \in 0..MaxStamp /\ doc \in File
      /\ Belongs(doc, Home[s])
  BY <1>1, <1>2, EditedDoc, Sets, Known DEF File
<1> DEFINE h == Idle(doc)
           f == [h EXCEPT !.pc = AfterRename(s)]
<1>4. h \in WorkState /\ h.mem = doc /\ h.priv = Absent /\ h.under = Absent
  BY <1>3, IdleFields
<1>5. work' = Past({Home[s]}, [work EXCEPT ![s] = f])
  BY <1>2
<1>6. AfterRename(s) \in Pc
  BY DEF AfterRename, Pc
<1> HIDE DEF h
<1>7. /\ f \in WorkState /\ f.pc = AfterRename(s) /\ f.mem = doc /\ f.priv = Absent
      /\ f.under = Absent
  BY <1>4, <1>6, PcFields
<1> HIDE DEF f
<1>8. owes' = IF Home[s] \in Mirrored THEN owes \cup {s} ELSE owes
  BY DEF Rename
<1>9. /\ f.pc \in {"push", "idle"} /\ (f.pc # "idle" <=> Home[s] \in Mirrored)
      /\ f.pc # "idle" => s \in owes'
  BY <1>7, <1>8 DEF AfterRename
<1>10. Belongs(f.mem, Home[s]) /\ Belongs(f.priv, Home[s]) /\ Belongs(f.under, Vanilla)
  BY <1>3, <1>7, Unparsed
<1>11. owes' \subseteq Session /\ \A t \in Session : t \in owes => t \in owes'
  BY <1>8, Sets
<1> QED
  BY <1>1, <1>2, <1>3, <1>5, <1>7, <1>9, <1>10, <1>11, Sets, CommitKeeps

LEMMA WriteHalfKeeps ==
    ASSUME IInv, NEW s \in Session, UNCHANGED kind, WriteHalf(s)
    PROVE  IInv'
<1> DEFINE f == At(s, "half")
<1>1. /\ work[s].pc = "fd" /\ work[s].mem \in Doc /\ SessInv(s) /\ Home[s] \in Mirrored
      /\ UNCHANGED <<base, lock, writeErr, vanilla, stamp, crossed, faults>>
      /\ Commit(s, Corrupt) /\ dirty' = dirty \cup {s} /\ owes' = owes \cup {s}
      /\ work' = Past({Home[s]}, [work EXCEPT ![s] = f])
  <2>1. [work EXCEPT ![s].pc = "half"] = [work EXCEPT ![s] = f]
    BY Sets DEF At
  <2> QED
    BY <2>1, Known, ParsesIsDoc DEF WriteHalf, SessInv, Place, MirrorPc
<1>2. /\ f \in WorkState /\ f.pc = "half" /\ f.mem = work[s].mem /\ f.priv = work[s].priv
      /\ f.under = work[s].under
  BY AtFields DEF Pc
<1> HIDE DEF f
<1>3. Corrupt \in File /\ Belongs(Corrupt, Home[s])
  BY Unparsed DEF File
<1>4. /\ Belongs(f.mem, Home[s]) /\ Belongs(f.priv, Home[s]) /\ Belongs(f.under, Vanilla)
  BY <1>2, Known
<1>5. /\ dirty' \subseteq Session /\ \A t \in Session \ {s} : t \in dirty' <=> t \in dirty
      /\ s \in dirty' /\ owes' \subseteq Session /\ s \in owes'
      /\ \A t \in Session : t \in owes => t \in owes'
  BY <1>1, Sets
<1> QED
  BY <1>1, <1>2, <1>3, <1>4, <1>5, Sets, CommitKeeps

LEMMA WriteRestKeeps ==
    ASSUME IInv, NEW s \in Session, UNCHANGED kind, WriteRest(s)
    PROVE  IInv'
<1>1. /\ work[s].pc = "half" /\ work[s].mem \in Doc /\ SessInv(s) /\ s \in dirty /\ s \in owes
      /\ Home[s] \in Mirrored
      /\ UNCHANGED <<base, lock, dirty, writeErr, vanilla, owes, crossed, faults>>
  BY Known DEF WriteRest, SessInv, Pushes, Docs, Place, MirrorPc
<1>2. PICK doc \in Edited(work[s].mem) :
         /\ Commit(s, doc) /\ Stamp(work[s].mem, doc)
         /\ work' = Past({Home[s]}, [work EXCEPT ![s] = [Idle(doc) EXCEPT !.pc = "fd"]])
  BY DEF WriteRest
<1>3. /\ doc \in Doc /\ stamp' \in 0..MaxStamp /\ doc \in File
      /\ Belongs(doc, Home[s])
  BY <1>1, <1>2, EditedDoc, Sets, Known DEF File
<1> DEFINE h == Idle(doc)
           f == [h EXCEPT !.pc = "fd"]
<1>4. h \in WorkState /\ h.mem = doc /\ h.priv = Absent /\ h.under = Absent
  BY <1>3, IdleFields
<1>5. work' = Past({Home[s]}, [work EXCEPT ![s] = f])
  BY <1>2
<1> HIDE DEF h
<1>6. /\ f \in WorkState /\ f.pc = "fd" /\ f.mem = doc /\ f.priv = Absent
      /\ f.under = Absent
  BY <1>4, PcFields DEF Pc
<1> HIDE DEF f
<1>7. Belongs(f.mem, Home[s]) /\ Belongs(f.priv, Home[s]) /\ Belongs(f.under, Vanilla)
  BY <1>3, <1>6, Unparsed
<1> QED
  BY <1>1, <1>2, <1>3, <1>5, <1>6, <1>7, Sets, CommitKeeps

(* The base passes: every view and every reading of it does.                *)
LEMMA BasePasses ==
    ASSUME IInv, UNCHANGED kind, NEW states \in [Session -> WorkState],
           work' = Past(Mirrored, states), PastViews(Mirrored),
           base' \in File, Belongs(base', Vanilla), vanilla' \in File, Belongs(vanilla', Vanilla),
           stamp' \in 0..MaxStamp, faults' \in Nat, UNCHANGED <<private, pushed>>,
           lock' \in Session \cup {None}, dirty' \subseteq Session, owes' \subseteq Session,
           crossed' \subseteq Session, writeErr' \subseteq Account
    PROVE  /\ TypeOK' /\ Files' /\ ViewFresh'
           /\ \A t \in Session :
                 /\ work'[t].pc = states[t].pc /\ work'[t].mem = states[t].mem
                 /\ work'[t].priv = states[t].priv /\ work'[t].under = states[t].under
                 /\ work'[t].fresh => states[t].fresh
<1>1. /\ work' \in [Session -> WorkState]
      /\ \A t \in Session :
            /\ work'[t].pc = states[t].pc /\ work'[t].mem = states[t].mem
            /\ work'[t].priv = states[t].priv /\ work'[t].under = states[t].under
            /\ work'[t].fresh => states[t].fresh
  <2> DEFINE mirrors == Mirrored
  <2>1. work' = Past(mirrors, states)
    OBVIOUS
  <2> HIDE DEF mirrors
  <2> QED
    BY <2>1, PastOK
<1>2. /\ view' \in [Account -> View]
      /\ \A m \in Account : view'[m].buf = view[m].buf /\ (m \in Mirrored => ~view'[m].current)
  <2> DEFINE mirrors == Mirrored
  <2>1. PastViews(mirrors)
    OBVIOUS
  <2> HIDE DEF mirrors
  <2>2. /\ view' \in [Account -> View]
        /\ \A m \in Account : view'[m].buf = view[m].buf /\ (m \in mirrors => ~view'[m].current)
    BY <2>1, PastViewsOK
  <2> QED
    BY <2>2 DEF mirrors
<1>3. TypeOK'
  BY <1>1, <1>2, Sets DEF TypeOK
<1>4. Files'
  BY <1>2 DEF IInv, Files, Belongs
<1>5. ViewFresh'
  <2>1. \A m \in Mirrored : ~view'[m].current
    BY <1>2 DEF Mirrored
  <2> QED
    BY <2>1, ViewsKeep
<1> QED
  BY <1>1, <1>3, <1>4, <1>5

LEMMA PushWriteKeeps ==
    ASSUME IInv, NEW s \in Session, UNCHANGED kind, PushWrite(s)
    PROVE  IInv'
<1> DEFINE new == Split(work[s].priv, work[s].under)
           f == Idle(work[s].mem)
<1>1. /\ UNCHANGED <<private, dirty, vanilla, stamp, pushed, crossed, faults>>
      /\ work[s].pc = "write" /\ SessInv(s) /\ s \notin dirty /\ Home[s] \in Mirrored /\ lock = s
      /\ lock' = None /\ writeErr' = writeErr \ {Home[s]} /\ owes' = owes \ {s}
      /\ work[s].priv \in Doc /\ work[s].under \in Doc
  BY Known DEF PushWrite, PushEnds, SessInv, Pushes, Docs, Place, MirrorPc
<1>2. /\ f \in WorkState /\ f.pc = "idle" /\ f.mem = work[s].mem /\ f.priv = Absent
      /\ f.under = Absent
  BY IdleFields, Known
<1>3. Home[s] \in Account
  BY HomeAssumption
<1>4. ASSUME work'[s].pc = "idle", \A t \in Session \ {s} : work'[t].pc = work[t].pc
      PROVE  RememberedAt(Home[s])'
  <2> SUFFICES ASSUME Home[s] \notin pushed
               PROVE  \E t \in Session : Home[t] = Home[s] /\ Owing(t)'
    BY <1>1 DEF RememberedAt
  <2>1. RememberedAt(Home[s])
    BY <1>1 DEF IInv, Remembered
  <2>2. PICK t \in Session : Home[t] = Home[s] /\ Owing(t)
    BY <1>1, <2>1 DEF RememberedAt
  <2>3. t # s
    BY <1>1, <2>2 DEF Owing
  <2> QED
    BY <1>1, <1>4, <2>2, <2>3 DEF Owing
<1>5. CASE new = work[s].under
  <2>1. Step(s, f) /\ UNCHANGED <<base, view>>
    BY <1>5 DEF PushWrite
  <2> HIDE DEF f
  <2>2. work'[s] = f /\ \A t \in Session \ {s} : work'[t] = work[t]
    BY <1>2, <2>1, Stepped
  <2>3. SessInv(s)'
    BY <1>1, <1>2, <2>2, IdleInv, Known
  <2>4. RememberedAt(Home[s])'
    BY <1>2, <1>4, <2>2
  <2> QED
    BY <1>1, <1>2, <1>3, <2>1, <2>3, <2>4, Sets, QuietKeeps
<1>6. CASE new # work[s].under
  <2> DEFINE states == [work EXCEPT ![s] = f]
  <2>1. base' = new /\ PastViews(Mirrored) /\ work' = Past(Mirrored, states)
    BY <1>6 DEF PushWrite
  <2>2. /\ states \in [Session -> WorkState] /\ states[s] = f
        /\ \A t \in Session \ {s} : states[t] = work[t]
    BY <1>2, Sets
  <2> HIDE DEF states, f
  <2>3. new \in File /\ Belongs(new, Vanilla)
    BY <1>1, SplitDoc, SplitBelongs, Known DEF File
  <2>4. /\ TypeOK' /\ Files' /\ ViewFresh'
        /\ \A t \in Session :
                 /\ work'[t].pc = states[t].pc /\ work'[t].mem = states[t].mem
                 /\ work'[t].priv = states[t].priv /\ work'[t].under = states[t].under
                 /\ work'[t].fresh => states[t].fresh
    <3> HIDE DEF new
    <3>1. /\ base' \in File /\ Belongs(base', Vanilla)
          /\ vanilla' \in File /\ Belongs(vanilla', Vanilla) /\ stamp' \in 0..MaxStamp
          /\ faults' \in Nat /\ private' = private /\ pushed' = pushed
      BY <1>1, <2>1, <2>3, Sets, Known
    <3>2. /\ lock' \in Session \cup {None} /\ dirty' \subseteq Session /\ owes' \subseteq Session
          /\ crossed' \subseteq Session /\ writeErr' \subseteq Account
      BY <1>1, Sets
    <3> QED
      BY <2>1, <2>2, <3>1, <3>2, BasePasses
  <2>5. SessInv(s)'
    BY <1>1, <1>2, <2>2, <2>4, IdleInv, Known
  <2>6. ASSUME NEW t \in Session, t # s PROVE SessInv(t)'
    <3>1. SessInv(t) /\ work[t].pc \notin {"payload", "write"}
      BY <1>1, <2>6 DEF IInv, SessInv, Pushes
    <3>2. states[t] = work[t]
      BY <2>2, <2>6
    <3>3. /\ work'[t].pc = work[t].pc /\ work'[t].mem = work[t].mem
          /\ work'[t].priv = work[t].priv /\ work'[t].under = work[t].under
          /\ work'[t].fresh => work[t].fresh
      BY <2>4, <3>2
    <3> QED
      BY <1>1, <2>6, <3>1, <3>3, Frame
  <2>7. Remembered'
    <3>1. work'[s].pc = "idle" /\ \A t \in Session \ {s} : work'[t].pc = work[t].pc
      BY <1>2, <2>2, <2>4
    <3>2. RememberedAt(Home[s])'
      BY <1>4, <3>1
    <3> QED
      BY <1>1, <1>3, <3>1, <3>2, RememberedKeeps
  <2> QED
    BY <2>4, <2>5, <2>6, <2>7 DEF IInv
<1> QED
  BY <1>5, <1>6

LEMMA LaunchInstallKeeps ==
    ASSUME IInv, NEW s \in Session, UNCHANGED kind, LaunchInstall(s)
    PROVE  IInv'
<1> DEFINE doc == Merge(work[s].priv, work[s].under)
           f == Idle(doc)
<1>1. /\ UNCHANGED <<base, mirrorVars, vanilla, stamp, historyVars, faults>>
      /\ work[s].pc = "install" /\ SessInv(s) /\ s \notin dirty /\ Home[s] \notin Mirrored
      /\ work[s].priv \in Doc /\ work[s].under \in Doc
  BY Known DEF LaunchInstall, SessInv, Pushes, Place, Docs
<1>2. /\ view' = view /\ lock' = lock /\ dirty' = dirty /\ writeErr' = writeErr /\ owes' = owes
      /\ pushed' = pushed /\ crossed' = crossed
  BY <1>1 DEF mirrorVars, historyVars
<1>3. doc \in File /\ Belongs(doc, Home[s])
  <2>1. Parses(work[s].priv) /\ Parses(work[s].under)
    BY <1>1, Known, ParsesIsDoc
  <2> QED
    BY <2>1, Known, MergeFile, MergeBelongs DEF Mergeable
<1>4. Step(s, f) /\ f \in WorkState /\ f.pc = "idle" /\ f.mem = doc /\ f.priv = Absent
      /\ f.under = Absent
  BY <1>3, IdleFields DEF LaunchInstall
<1>5. /\ private' \in [Account -> File]
      /\ \A a \in Account \ {Home[s]} : private'[a] = private[a]
      /\ Belongs(private'[Home[s]], Home[s])
  BY <1>3, Sets, Known DEF LaunchInstall
<1> HIDE DEF doc, f
<1>6. /\ work' \in [Session -> WorkState] /\ work'[s] = f
      /\ \A t \in Session \ {s} : work'[t] = work[t]
  BY <1>4, Stepped
<1>7. TypeOK'
  BY <1>1, <1>2, <1>5, <1>6, Sets DEF TypeOK
<1>8. Files'
  <2>1. \A a \in Account : Belongs(private'[a], a)
    BY <1>5 DEF IInv, Files
  <2> QED
    BY <1>1, <1>2, <2>1 DEF IInv, Files, Belongs
<1>9. ViewFresh'
  <2>1. ASSUME NEW m \in Mirrored
        PROVE  view'[m] = view[m] /\ private'[m] = private[m] /\ base' = base
    BY <1>1, <1>2, <1>5 DEF Mirrored
  <2> QED
    BY <2>1, ViewsKeep
<1>10. Remembered'
  BY <1>1, <1>2, <1>6, RememberedKeeps
<1>11. ASSUME NEW t \in Session, t # s PROVE SessInv(t)'
  <2>1. private'[Home[t]] = private[Home[t]] \/ work'[t].pc # "base"
    <3>1. SessInv(t)
      BY DEF IInv
    <3>2. work'[t] = work[t] /\ Home[t] \in Account
      BY <1>6, <1>11, HomeAssumption
    <3>3. Home[t] = Home[s] => work[t].pc # "base"
      BY <1>1, <3>1 DEF SessInv, Place, MirrorPc
    <3> QED
      BY <1>5, <3>2, <3>3
  <2> QED
    BY <1>1, <1>2, <1>6, <1>11, <2>1, Frame
<1>12. SessInv(s)'
  BY <1>1, <1>2, <1>3, <1>4, <1>6, IdleInv
<1> QED
  BY <1>7, <1>8, <1>9, <1>10, <1>11, <1>12 DEF IInv

-----------------------------------------------------------------------------
(* The rest of the world.                                                   *)

LEMMA VanillaReadKeeps ==
    ASSUME IInv, UNCHANGED kind, VanillaRead
    PROVE  IInv'
<1>1. /\ UNCHANGED <<base, private, mirrorVars, work, stamp, historyVars, faults>>
      /\ vanilla' \in {Own(Vanilla, NoVal), base}
  BY DEF VanillaRead
<1>2. /\ view' = view /\ lock' = lock /\ dirty' = dirty /\ writeErr' = writeErr /\ owes' = owes
      /\ pushed' = pushed /\ crossed' = crossed
  BY <1>1 DEF mirrorVars, historyVars
<1>3. vanilla' \in File /\ Belongs(vanilla', Vanilla)
  BY <1>1, OwnDoc, Keys, Sets DEF IInv, Files, File
<1>4. TypeOK'
  BY <1>1, <1>2, <1>3, Sets DEF TypeOK
<1>5. Files'
  BY <1>1, <1>2, <1>3 DEF IInv, Files, Belongs
<1>6. ViewFresh'
  BY <1>1, <1>2, ViewsKeep
<1>7. Remembered'
  BY <1>1, <1>2 DEF IInv, Remembered, RememberedAt, Owing, Mirrored
<1>8. ASSUME NEW t \in Session PROVE SessInv(t)'
  BY <1>1, <1>2, Frame
<1> QED
  BY <1>4, <1>5, <1>6, <1>7, <1>8 DEF IInv

LEMMA BaseChangesKeeps ==
    ASSUME IInv, UNCHANGED kind, NEW file \in File, BaseChanges(file), Belongs(file, Vanilla),
           vanilla' \in File, Belongs(vanilla', Vanilla), stamp' \in 0..MaxStamp, faults' \in Nat
    PROVE  IInv'
<1>1. /\ base' = file /\ PastViews(Mirrored) /\ work' = Past(Mirrored, work)
      /\ crossed' = crossed \cup {s \in Session : work[s].pc \in {"payload", "write"}}
      /\ UNCHANGED <<private, lock, dirty, writeErr, owes, pushed>>
  BY DEF BaseChanges
<1>2. /\ work \in [Session -> WorkState]
      /\ lock' \in Session \cup {None} /\ dirty' \subseteq Session /\ owes' \subseteq Session
      /\ crossed' \subseteq Session /\ writeErr' \subseteq Account
  BY <1>1, Sets
<1>3. /\ TypeOK' /\ Files' /\ ViewFresh'
      /\ \A t \in Session :
            /\ work'[t].pc = work[t].pc /\ work'[t].mem = work[t].mem
            /\ work'[t].priv = work[t].priv /\ work'[t].under = work[t].under
            /\ work'[t].fresh => work[t].fresh
  BY <1>1, <1>2, BasePasses
<1>4. Remembered'
  BY <1>1, <1>3 DEF IInv, Remembered, RememberedAt, Owing, Mirrored
<1>5. ASSUME NEW t \in Session PROVE SessInv(t)'
  <2>1. t \in crossed' \/ work[t].pc \notin {"payload", "write"}
    BY <1>1
  <2>2. t \in crossed => t \in crossed'
    BY <1>1
  <2> QED
    BY <1>1, <1>3, <2>1, <2>2, Frame
<1> QED
  BY <1>3, <1>4, <1>5 DEF IInv

LEMMA VanillaWriteKeeps ==
    ASSUME IInv, UNCHANGED kind, VanillaWrite
    PROVE  IInv'
<1>1. vanilla \in Doc /\ Belongs(vanilla, Vanilla) /\ faults' = faults
  BY ParsesIsDoc, Sets DEF VanillaWrite, IInv, Files
<1>2. PICK doc \in Edited(vanilla) : BaseChanges(doc) /\ Stamp(vanilla, doc) /\ vanilla' = doc
  BY DEF VanillaWrite
<1>3. doc \in File /\ stamp' \in 0..MaxStamp /\ Belongs(doc, Vanilla)
  BY <1>1, <1>2, EditedDoc, Sets DEF File
<1> QED
  BY <1>1, <1>2, <1>3, Sets, BaseChangesKeeps

LEMMA BaseCorruptsKeeps ==
    ASSUME IInv, UNCHANGED kind, BaseCorrupts
    PROVE  IInv'
<1>1. /\ BaseChanges(Corrupt) /\ vanilla' = vanilla /\ stamp' = stamp /\ faults' \in Nat
      /\ Corrupt \in File
  BY Sets DEF BaseCorrupts, Fault, File
<1> QED
  BY <1>1, Unparsed, Sets, BaseChangesKeeps DEF IInv, Files

LEMMA HolderDiesKeeps ==
    ASSUME IInv, UNCHANGED kind, HolderDies
    PROVE  IInv'
<1> DEFINE pushing == {s \in Session : work[s].pc \in {"push", "payload", "write", "fd", "half"}}
<1>1. /\ view' = [a \in Account |-> NoView]
      /\ lock' = None /\ dirty' = {} /\ writeErr' = {} /\ owes' = {} /\ crossed' = {}
      /\ work' = [s \in Session |-> IF Home[s] \in Mirrored THEN Idle(work[s].mem) ELSE work[s]]
      /\ pushed' = pushed \cup {Home[s] : s \in pushing} \cup writeErr
      /\ UNCHANGED <<base, private, vanilla, stamp>> /\ faults' \in Nat
  BY Sets DEF HolderDies, Fault
<1>2. NoView \in View /\ NoView.buf = Absent /\ ~NoView.ok
  BY DEF NoView, View, File
<1>3. ASSUME NEW s \in Session
      PROVE  /\ work'[s] \in WorkState
             /\ Home[s] \in Mirrored => /\ work'[s].pc = "idle" /\ work'[s].mem = work[s].mem
                                        /\ work'[s].priv = Absent /\ work'[s].under = Absent
             /\ Home[s] \notin Mirrored => work'[s] = work[s]
  BY <1>1, IdleFields, Known
<1>4. work' \in [Session -> WorkState]
  BY <1>1, <1>3
<1>5. pushed' \subseteq Account
  BY <1>1, Sets, HomeAssumption
<1>6. TypeOK'
  BY <1>1, <1>2, <1>4, <1>5, Sets DEF TypeOK
<1>7. Files'
  BY <1>1, <1>2, Unparsed DEF IInv, Files, Belongs
<1>8. ViewFresh'
  BY <1>1, <1>2 DEF ViewFresh, Mirrored
<1>9. Remembered'
  <2> SUFFICES ASSUME NEW m \in Mirrored, m \notin pushed' PROVE FALSE
    BY DEF Remembered, RememberedAt, Mirrored
  <2>1. m \notin pushed /\ m \notin writeErr
    BY <1>1
  <2>2. PICK t \in Session : Home[t] = m /\ Owing(t)
    BY <2>1 DEF IInv, Remembered, RememberedAt
  <2>3. t \in pushing
    BY <2>2 DEF Owing
  <2> QED
    BY <1>1, <2>2, <2>3
<1>10. ASSUME NEW s \in Session PROVE SessInv(s)'
  <2>1. CASE Home[s] \in Mirrored
    BY <1>1, <1>3, <2>1, IdleInv, Known
  <2>2. CASE Home[s] \notin Mirrored
    <3>1. work'[s] = work[s] /\ SessInv(s) /\ work[s].pc \notin MirrorPc
      BY <1>3, <2>2, Known DEF SessInv, Place
    <3> QED
      BY <1>1, <2>2, <3>1
      DEF SessInv, Whose, Place, Docs, Pushes, Reads, MirrorPc, Mirrored, Belongs
  <2> QED
    BY <2>1, <2>2
<1> QED
  BY <1>6, <1>7, <1>8, <1>9, <1>10 DEF IInv

-----------------------------------------------------------------------------
LEMMA NextKeeps == IInv /\ [Next]_vars => IInv'
<1> SUFFICES ASSUME IInv, [Next]_vars PROVE IInv'
  OBVIOUS
<1>1. CASE UNCHANGED vars
  <2>1. /\ kind' = kind /\ base' = base /\ private' = private /\ view' = view /\ lock' = lock
        /\ dirty' = dirty /\ writeErr' = writeErr /\ work' = work /\ vanilla' = vanilla
        /\ stamp' = stamp /\ owes' = owes /\ pushed' = pushed /\ crossed' = crossed
        /\ faults' = faults
    BY <1>1 DEF vars, mirrorVars, historyVars
  <2>2. TypeOK' /\ Files'
    BY <2>1 DEF IInv, TypeOK, Files, Belongs
  <2>3. ViewFresh' /\ Remembered'
    BY <2>1 DEF IInv, ViewFresh, Remembered, RememberedAt, Owing, Mirrored
  <2>4. ASSUME NEW t \in Session PROVE SessInv(t)'
    BY <2>1, Frame
  <2> QED
    BY <2>2, <2>3, <2>4 DEF IInv
<1>2. ASSUME NEW s \in Session, SessionStep(s), UNCHANGED kind PROVE IInv'
  BY <1>2, OpenKeeps, ReadBaseKeeps, RenameKeeps, WriteHalfKeeps, WriteRestKeeps, ReleaseKeeps,
     PushReadBaseKeeps, PushReadPayloadKeeps, PushWriteKeeps, PushFailsKeeps,
     LaunchReadBaseKeeps, LaunchReadPrivateKeeps, LaunchInstallKeeps DEF SessionStep
<1>3. CASE (VanillaRead \/ VanillaWrite \/ BaseCorrupts \/ HolderDies) /\ UNCHANGED kind
  BY <1>3, VanillaReadKeeps, VanillaWriteKeeps, BaseCorruptsKeeps, HolderDiesKeeps
<1> QED
  BY <1>1, <1>2, <1>3 DEF Next

LEMMA Invariance == Spec => []IInv
BY InitIInv, NextKeeps, PTL DEF Spec

(* Every variable of the specification keeps to its type.                   *)
THEOREM TypeCorrect == Spec => []TypeOK
<1>1. IInv => TypeOK
  BY DEF IInv
<1> QED
  BY <1>1, Invariance, PTL

(* However many sessions merge, edit, commit and write through, and         *)
(* whatever dies or is corrupted meanwhile: what is an account's own is in  *)
(* no other account's file or session and never in the base, and the base's *)
(* own is nowhere else (MergeClaudeJSON, SplitClaudeJSON).                  *)
THEOREM IdentityIsHome == Spec => []IdentityStaysHome
<1>1. IInv => IdentityStaysHome
  BY DEF IInv, Files, SessInv, Whose, IdentityStaysHome
<1> QED
  BY <1>1, Invariance, PTL

(* A cached view that is still current is what merging the two files as     *)
(* they are now would give (claudeJSONView.merged).                         *)
THEOREM ViewIsFresh == Spec => []ViewFresh
<1>1. IInv => ViewFresh
  BY DEF IInv
<1> QED
  BY <1>1, Invariance, PTL

(* A commit to a mirror is pushed, is about to be, or its failure shows     *)
(* (writeThrough, takeDirty, mirrorFS.Rename and Release).                  *)
THEOREM CommitRemembered == Spec => []NoCommitForgotten
<1>1. IInv => NoCommitForgotten
  <2> SUFFICES ASSUME IInv, NEW m \in Mirrored, m \notin pushed, m \notin writeErr
               PROVE  \E s \in Session : /\ Home[s] = m
                                         /\ work[s].pc \in {"fd", "half", "push", "payload", "write"}
    BY DEF NoCommitForgotten
  <2>1. PICK s \in Session : Home[s] = m /\ Owing(s)
    BY DEF IInv, Remembered, RememberedAt
  <2> QED
    BY <2>1 DEF Owing
<1> QED
  BY <1>1, Invariance, PTL

(* A write-through is one commit's, and changes nothing in the base but     *)
(* what that account's file has of the shared keys; but for a base that was *)
(* written by another claude while it was at it (writeThroughMu).           *)
THEOREM PushSparesOthers == Spec => PushKeepsOthers
<1> DEFINE Keeps == \A s \in Session : PushWrite(s) /\ base' # base =>
               /\ s \in owes
               /\ s \in crossed \/ \A k \in Key :
                    base'[k] # base[k] => k \in SharedKey /\ base'[k] = work[s].priv[k]
<1>1. IInv /\ [Next]_vars => [Keeps]_vars
  <2> SUFFICES ASSUME IInv, NEW s \in Session, PushWrite(s), base' # base
               PROVE  /\ s \in owes
                      /\ s \in crossed \/ \A k \in Key :
                           base'[k] # base[k] => k \in SharedKey /\ base'[k] = work[s].priv[k]
    OBVIOUS
  <2>1. SessInv(s) /\ work[s].pc = "write"
    BY DEF IInv, PushWrite
  <2>2. base' = Split(work[s].priv, work[s].under)
    BY DEF PushWrite
  <2>3. work[s].priv \in Doc /\ work[s].under \in Doc /\ s \in owes
    BY <2>1 DEF SessInv, Docs, Pushes
  <2>4. s \notin crossed => work[s].under = base
    BY <2>1 DEF SessInv, Reads
  <2> QED
    BY <2>2, <2>3, <2>4, SplitDoc
<1> QED
  BY <1>1, Invariance, PTL DEF Spec, PushKeepsOthers
===============================================================================
