------------------------- MODULE CodexAppendProofs -------------------------
(***************************************************************************)
(* Proofs about CodexAppend for any sessions, acquisitions and bounds: what an *)
(* acquisition caches is what a full parse of the file leaves, and what it      *)
(* reports as complete is the full parse of what it read.  And about the parser  *)
(* of the lines of any session: what it has made of them at every line, whence   *)
(* it counts a response once.                                                *)
(***************************************************************************)
EXTENDS CodexAppend, TranscriptProofs, FiniteSetTheorems

\* The fields of the parser's state.  Messages and rejections only pile up; the
\* others are what the parser looks at.
StateFields == DOMAIN StartState
Looked == StateFields \ {"messages", "unmodelled", "rejected"}

StateOK(s) ==
    /\ DOMAIN s = StateFields /\ s = [f \in StateFields |-> s[f]]
    /\ IsSeq(s.messages) /\ IsSeq(s.unmodelled) /\ s.rejected \in Nat

\* One state is another with messages and rejections before it.
Leads(t, s, m, r) ==
    /\ StateOK(s) /\ StateOK(t) /\ IsSeq(m) /\ r \in Nat
    /\ t.messages = m \o s.messages /\ t.rejected = r + s.rejected
    /\ t.unmodelled = s.unmodelled
    /\ \A f \in Looked : t[f] = s[f]

-----------------------------------------------------------------------------
(* States.                                                                 *)

LEMMA Fields ==
    /\ StateFields = {"model", "previous", "turn", "started", "pending", "settled",
                      "seen", "waiting", "replaying", "baseline", "messages",
                      "unmodelled", "rejected", "interrupted"}
    /\ Looked = {"model", "previous", "turn", "started", "pending", "settled",
                 "seen", "waiting", "replaying", "baseline", "interrupted"}
BY DEF StateFields, Looked, StartState

LEMMA StartOK == StateOK(StartState)
<1>1. DOMAIN StartState = StateFields /\ StartState = [f \in StateFields |-> StartState[f]]
  BY DEF StateFields, StartState
<1>2. StartState.messages = <<>> /\ StartState.unmodelled = <<>> /\ StartState.rejected = 0
  BY DEF StartState
<1> QED
  BY <1>1, <1>2, NoSeq DEF StateOK

\* A state follows itself.
LEMMA LeadsItself ==
    ASSUME NEW s, StateOK(s)
    PROVE  Leads(s, s, <<>>, 0)
<1>1. IsSeq(<<>>) /\ <<>> \o s.messages = s.messages /\ s.rejected = 0 + s.rejected
  BY NoSeq, SeqConcat DEF StateOK
<1> QED
  BY <1>1 DEF Leads

LEMMA SameFields ==
    ASSUME NEW s, NEW t, NEW m, NEW r, Leads(t, s, m, r)
    PROVE  /\ t.model = s.model /\ t.previous = s.previous /\ t.turn = s.turn
           /\ t.started = s.started /\ t.pending = s.pending /\ t.settled = s.settled
           /\ t.seen = s.seen /\ t.waiting = s.waiting /\ t.replaying = s.replaying
           /\ t.baseline = s.baseline /\ t.interrupted = s.interrupted
           /\ t.unmodelled = s.unmodelled
BY Fields DEF Leads

\* A field that is looked at may be replaced in both.
LEMMA LeadsField ==
    ASSUME NEW s, NEW t, NEW m, NEW r, Leads(t, s, m, r), NEW f \in Looked, NEW v
    PROVE  Leads([t EXCEPT ![f] = v], [s EXCEPT ![f] = v], m, r)
<1> DEFINE t2 == [t EXCEPT ![f] = v]
           s2 == [s EXCEPT ![f] = v]
<1>1. f \in StateFields /\ f \notin {"messages", "unmodelled", "rejected"}
      /\ {"messages", "unmodelled", "rejected"} \subseteq StateFields
  BY Fields DEF Looked
<1>2. ASSUME NEW u, StateOK(u)
      PROVE  /\ StateOK([u EXCEPT ![f] = v])
             /\ [u EXCEPT ![f] = v].messages = u.messages
             /\ [u EXCEPT ![f] = v].unmodelled = u.unmodelled
             /\ [u EXCEPT ![f] = v].rejected = u.rejected
             /\ \A g \in Looked : [u EXCEPT ![f] = v][g] = IF g = f THEN v ELSE u[g]
  BY <1>1, <1>2 DEF StateOK, Looked
<1>3. StateOK(s) /\ StateOK(t)
  BY DEF Leads
<1> QED
  BY <1>2, <1>3 DEF Leads

LEMMA LeadsUnmodelled ==
    ASSUME NEW s, NEW t, NEW m, NEW r, Leads(t, s, m, r), NEW v, IsSeq(v)
    PROVE  Leads([t EXCEPT !.unmodelled = v], [s EXCEPT !.unmodelled = v], m, r)
<1>1. ASSUME NEW u, StateOK(u)
      PROVE  LET w == [u EXCEPT !.unmodelled = v]
             IN  /\ StateOK(w) /\ w.messages = u.messages /\ w.unmodelled = v
                 /\ w.rejected = u.rejected /\ \A g \in Looked : w[g] = u[g]
  BY <1>1, Fields DEF StateOK
<1>2. StateOK(s) /\ StateOK(t)
  BY DEF Leads
<1> QED
  BY <1>1, <1>2 DEF Leads

LEMMA LeadsMessages ==
    ASSUME NEW s, NEW t, NEW m, NEW r, Leads(t, s, m, r), NEW x, IsSeq(x)
    PROVE  Leads([t EXCEPT !.messages = t.messages \o x],
                 [s EXCEPT !.messages = s.messages \o x], m, r)
<1>1. ASSUME NEW u, StateOK(u), NEW y, IsSeq(y)
      PROVE  LET w == [u EXCEPT !.messages = y]
             IN  /\ StateOK(w) /\ w.messages = y
                 /\ w.unmodelled = u.unmodelled /\ w.rejected = u.rejected
                 /\ \A g \in Looked : w[g] = u[g]
  BY <1>1, Fields DEF StateOK
<1>2. /\ StateOK(s) /\ StateOK(t) /\ IsSeq(m) /\ r \in Nat
      /\ t.messages = m \o s.messages /\ t.rejected = r + s.rejected
      /\ t.unmodelled = s.unmodelled /\ \A f \in Looked : t[f] = s[f]
  BY DEF Leads
<1> DEFINE y == s.messages \o x
           z == t.messages \o x
<1>3. z = m \o y /\ IsSeq(y) /\ IsSeq(z)
  <2>1. IsSeq(m) /\ IsSeq(s.messages) /\ IsSeq(t.messages) /\ IsSeq(x)
    BY <1>2 DEF StateOK
  <2>2. PICK w : w = s.messages
    OBVIOUS
  <2>3. IsSeq(w)
    BY <2>1, <2>2
  <2>4. (m \o w) \o x = m \o (w \o x)
    BY <2>1, <2>3, SeqAssociative
  <2>5. IsSeq(y) /\ IsSeq(z)
    BY <2>1, SeqConcat
  <2> QED
    BY <1>2, <2>2, <2>4, <2>5
<1> HIDE DEF y, z
<1> DEFINE t2 == [t EXCEPT !.messages = z]
           s2 == [s EXCEPT !.messages = y]
<1>4. /\ StateOK(t2) /\ t2.messages = z /\ t2.unmodelled = t.unmodelled
      /\ t2.rejected = t.rejected /\ \A g \in Looked : t2[g] = t[g]
  <2>1. StateOK(t) /\ IsSeq(z)
    BY <1>2, <1>3
  <2> QED
    BY <1>1, <2>1
<1>5. /\ StateOK(s2) /\ s2.messages = y /\ s2.unmodelled = s.unmodelled
      /\ s2.rejected = s.rejected /\ \A g \in Looked : s2[g] = s[g]
  BY <1>1, <1>2, <1>3
<1> HIDE DEF t2, s2
<1>6. Leads(t2, s2, m, r)
  BY <1>2, <1>3, <1>4, <1>5 DEF Leads
<1> QED
  BY <1>6 DEF y, z, t2, s2

LEMMA LeadsAppend ==
    ASSUME NEW s, NEW t, NEW m, NEW r, Leads(t, s, m, r), NEW e
    PROVE  Leads([t EXCEPT !.messages = Append(t.messages, e)],
                 [s EXCEPT !.messages = Append(s.messages, e)], m, r)
<1> DEFINE x == <<e>>
<1>1. /\ IsSeq(x) /\ Append(t.messages, e) = t.messages \o x
      /\ Append(s.messages, e) = s.messages \o x
  BY SeqAppend DEF Leads, StateOK
<1> HIDE DEF x
<1>2. Leads([t EXCEPT !.messages = t.messages \o x],
            [s EXCEPT !.messages = s.messages \o x], m, r)
  BY <1>1, LeadsMessages
<1> QED
  BY <1>1, <1>2

LEMMA LeadsRejected ==
    ASSUME NEW s, NEW t, NEW m, NEW r, Leads(t, s, m, r)
    PROVE  Leads(Rejected(t), Rejected(s), m, r)
<1>1. ASSUME NEW u, StateOK(u)
      PROVE  /\ StateOK(Rejected(u)) /\ Rejected(u).messages = u.messages
             /\ Rejected(u).unmodelled = u.unmodelled
             /\ Rejected(u).rejected = u.rejected + 1
             /\ \A g \in Looked : Rejected(u)[g] = u[g]
  BY <1>1, Fields DEF StateOK, Rejected
<1>2. /\ StateOK(s) /\ StateOK(t) /\ s.rejected \in Nat /\ r \in Nat
      /\ t.messages = m \o s.messages /\ t.rejected = r + s.rejected /\ IsSeq(m)
      /\ t.unmodelled = s.unmodelled /\ \A f \in Looked : t[f] = s[f]
  BY DEF Leads, StateOK
<1>3. t.rejected + 1 = r + (s.rejected + 1)
  BY <1>2
<1> QED
  BY <1>1, <1>2, <1>3 DEF Leads

LEMMA LeadsInterrupted ==
    ASSUME NEW s, NEW t, NEW m, NEW r, Leads(t, s, m, r)
    PROVE  Leads(Interrupted(t), Interrupted(s), m, r) /\ Interrupted(s).interrupted
<1>1. "interrupted" \in Looked
  BY Fields
<1>2. Leads(Rejected(t), Rejected(s), m, r)
  BY LeadsRejected
<1>3. "interrupted" \in DOMAIN Rejected(s)
  BY <1>2, Fields DEF Leads, StateOK
<1> QED
  BY <1>1, <1>2, <1>3, LeadsField DEF Interrupted

-----------------------------------------------------------------------------
(* The parser leaves what comes before alone.                              *)

\* What the parser asks of a state does not depend on what leads it.
LEMMA SameTests ==
    ASSUME NEW s, NEW t, NEW m, NEW r, Leads(t, s, m, r), NEW line, NEW model
    PROVE  /\ AfterCompacted(t) <=> AfterCompacted(s)
           /\ Repeats(t, line) <=> Repeats(s, line)
           /\ Confirms(t, line, model) <=> Confirms(s, line, model)
           /\ LateFor(t, line) = LateFor(s, line)
           /\ ClosesPending(t, line) <=> ClosesPending(s, line)
           /\ Undecided(t, line) <=> Undecided(s, line)
           /\ StartsOwn(t, line) <=> StartsOwn(s, line)
<1> USE SameFields
<1>1. AfterCompacted(t) <=> AfterCompacted(s)
  BY DEF AfterCompacted
<1>2. Repeats(t, line) <=> Repeats(s, line)
  BY DEF Repeats
<1>3. Confirms(t, line, model) <=> Confirms(s, line, model)
  BY DEF Confirms
<1>4. LateFor(t, line) = LateFor(s, line)
  BY DEF LateFor
<1>5. ClosesPending(t, line) <=> ClosesPending(s, line)
  BY DEF ClosesPending
<1>6. Undecided(t, line) <=> Undecided(s, line)
  BY DEF Undecided
<1>7. StartsOwn(t, line) <=> StartsOwn(s, line)
  BY DEF StartsOwn
<1> QED
  BY <1>1, <1>2, <1>3, <1>4, <1>5, <1>6, <1>7

LEMMA LeadsSettled ==
    ASSUME NEW s, NEW t, NEW m, NEW r, Leads(t, s, m, r)
    PROVE  Leads(Settled(t), Settled(s), m, r)
<1> DEFINE p == s.pending
           start == p.start /\ s.started
           left == s.started /\ ~start
           message == Message(p.usage, p.model, start)
           settled == Append(s.settled, [usage |-> p.usage, turn |-> p.turn,
                                         model |-> p.model])
<1>1. /\ t.pending = p /\ t.started = s.started /\ t.settled = s.settled
      /\ {"pending", "started", "settled"} \subseteq Looked
  BY SameFields, Fields
<1>2. CASE p = None
  BY <1>1, <1>2 DEF Settled
<1>3. CASE p # None
  <2> DEFINE a(u) == [u EXCEPT !.messages = Append(u.messages, message)]
             b(u) == [[[a(u) EXCEPT !.pending = None] EXCEPT !.started = left]
                        EXCEPT !.settled = settled]
  <2>1. Leads(a(t), a(s), m, r)
    BY LeadsAppend
  <2> HIDE DEF a
  <2>2. Leads(b(t), b(s), m, r)
    BY <1>1, <2>1, LeadsField
  <2>3. ASSUME NEW u, StateOK(u), u.pending = p, u.started = s.started,
               u.settled = s.settled
        PROVE  Settled(u) = b(u)
    BY <1>3, <2>3, Fields DEF Settled, a, StateOK
  <2>4. StateOK(s) /\ StateOK(t)
    BY DEF Leads
  <2> QED
    BY <1>1, <2>2, <2>3, <2>4
<1> QED
  BY <1>2, <1>3

LEMMA LeadsUnadvanced ==
    ASSUME NEW s, NEW t, NEW m, NEW r, Leads(t, s, m, r)
    PROVE  Leads(Unadvanced(t), Unadvanced(s), m, r)
BY SameTests, LeadsSettled DEF Unadvanced

LEMMA LeadsModelled ==
    ASSUME NEW s, NEW t, NEW m, NEW r, Leads(t, s, m, r), NEW model
    PROVE  Leads(Modelled(t, model), Modelled(s, model), m, r)
<1> DEFINE w == s.unmodelled
           x == [n \in DOMAIN w |-> [w[n] EXCEPT !.model = model]]
<1>1. t.unmodelled = w /\ "model" \in Looked /\ IsSeq(w)
  BY SameFields, Fields DEF Leads, StateOK
<1>2. IsSeq(x)
  <2>1. Len(w) \in Nat /\ DOMAIN w = 1 .. Len(w)
    BY <1>1, SeqLength
  <2> DEFINE S == {[w[n] EXCEPT !.model = model] : n \in DOMAIN w}
  <2>2. x \in [1 .. Len(w) -> S]
    BY <2>1
  <2>3. x \in Seq(S)
    BY <2>1, <2>2, SeqDef
  <2> QED
    BY <2>3 DEF IsSeq
<1>3. CASE model = None
  BY <1>3 DEF Modelled
<1>4. CASE model # None
  <2>1. /\ Modelled(t, model) = [[[t EXCEPT !.messages = t.messages \o x]
                                   EXCEPT !.model = model] EXCEPT !.unmodelled = <<>>]
        /\ Modelled(s, model) = [[[s EXCEPT !.messages = s.messages \o x]
                                   EXCEPT !.model = model] EXCEPT !.unmodelled = <<>>]
    <3>1. ASSUME NEW u, StateOK(u), u.unmodelled = w
          PROVE  Modelled(u, model) = [[[u EXCEPT !.messages = u.messages \o x]
                                   EXCEPT !.model = model] EXCEPT !.unmodelled = <<>>]
      BY <1>4, <3>1, Fields DEF Modelled, StateOK
    <3>2. StateOK(s) /\ StateOK(t)
      BY DEF Leads
    <3> QED
      BY <1>1, <3>1, <3>2
  <2> DEFINE a(u) == [u EXCEPT !.messages = u.messages \o x]
  <2>2. Leads(a(t), a(s), m, r)
    BY <1>2, LeadsMessages
  <2> HIDE DEF a
  <2>3. Leads([a(t) EXCEPT !.model = model], [a(s) EXCEPT !.model = model], m, r)
    BY <1>1, <2>2, LeadsField
  <2>4. Leads([[a(t) EXCEPT !.model = model] EXCEPT !.unmodelled = <<>>],
              [[a(s) EXCEPT !.model = model] EXCEPT !.unmodelled = <<>>], m, r)
    BY <2>3, NoSeq, LeadsUnmodelled
  <2> QED
    BY <2>1, <2>4 DEF a
<1> QED
  BY <1>3, <1>4

LEMMA LeadsRecord ==
    ASSUME NEW s, NEW t, NEW m, NEW r, Leads(t, s, m, r), NEW line
    PROVE  Leads(ParsedRecord(t, line), ParsedRecord(s, line), m, r)
<1> DEFINE model == Or(line.model, s.model)
           pending == [usage |-> line.usage, turn |-> Or(line.turn, s.turn),
                       model |-> model, start |-> s.started, compacted |-> FALSE]
           a(u) == [Settled(u) EXCEPT !.seen = Settled(s).seen \cup {line.id}]
           b(u) == [a(u) EXCEPT !.pending = Settled(s).pending]
<1>1. /\ t.model = s.model /\ t.turn = s.turn /\ t.started = s.started /\ t.seen = s.seen
      /\ {"seen", "pending"} \subseteq Looked
  BY SameFields, Fields
<1>2. Leads(Settled(t), Settled(s), m, r)
  BY LeadsSettled
<1>3. Settled(t).seen = Settled(s).seen
  BY <1>2, SameFields
<1>4. CASE line.fault # None \/ model = None
  <2>1. ParsedRecord(s, line) = Rejected(s) /\ ParsedRecord(t, line) = Rejected(t)
    BY <1>1, <1>4 DEF ParsedRecord
  <2> QED
    BY <2>1, LeadsRejected
<1>5. CASE ~(line.fault # None \/ model = None) /\ (line.usage = 0 \/ line.id \in s.seen)
  <2>1. ParsedRecord(s, line) = s /\ ParsedRecord(t, line) = t
    BY <1>1, <1>5 DEF ParsedRecord
  <2> QED
    BY <2>1
<1>6. CASE ~(line.fault # None \/ model = None) /\ ~(line.usage = 0 \/ line.id \in s.seen)
  <2> DEFINE seen == Settled(s).seen \cup {line.id}
             c(u) == [[Settled(u) EXCEPT !.seen = seen] EXCEPT !.pending = pending]
  <2>1. ParsedRecord(s, line) = c(s) /\ ParsedRecord(t, line) = c(t)
    BY <1>1, <1>3, <1>6 DEF ParsedRecord
  <2> HIDE DEF seen, pending
  <2>2. Leads(c(t), c(s), m, r)
    BY <1>1, <1>2, LeadsField
  <2> QED
    BY <2>1, <2>2
<1> QED
  BY <1>4, <1>5, <1>6

LEMMA LeadsEmitted ==
    ASSUME NEW s, NEW t, NEW m, NEW r, Leads(t, s, m, r), NEW line, NEW model
    PROVE  Leads(Emitted(t, line, model), Emitted(s, line, model), m, r)
<1> DEFINE message == Message(line.usage, model, s.started)
           a(u) == [u EXCEPT !.started = FALSE]
<1>1. t.started = s.started /\ "started" \in Looked
  BY SameFields, Fields
<1>2. Leads(a(t), a(s), m, r)
  BY <1>1, LeadsField
<1>3. /\ Emitted(s, line, model) =
             IF model # None THEN [a(s) EXCEPT !.messages = Append(a(s).messages, message)]
             ELSE [a(s) EXCEPT !.unmodelled = Append(a(s).unmodelled, message)]
      /\ Emitted(t, line, model) =
             IF model # None THEN [a(t) EXCEPT !.messages = Append(a(t).messages, message)]
             ELSE [a(t) EXCEPT !.unmodelled = Append(a(t).unmodelled, message)]
  BY <1>1 DEF Emitted
<1> HIDE DEF a, message
<1>4. CASE model # None
  <2>1. /\ Emitted(t, line, model) = [a(t) EXCEPT !.messages = Append(a(t).messages, message)]
        /\ Emitted(s, line, model) = [a(s) EXCEPT !.messages = Append(a(s).messages, message)]
    BY <1>3, <1>4
  <2>2. Leads([a(t) EXCEPT !.messages = Append(a(t).messages, message)],
              [a(s) EXCEPT !.messages = Append(a(s).messages, message)], m, r)
    BY <1>2, LeadsAppend
  <2> QED
    BY <2>1, <2>2
<1>5. CASE model = None
  <2> DEFINE w == Append(a(s).unmodelled, message)
  <2>1. IsSeq(w) /\ a(t).unmodelled = a(s).unmodelled
    BY <1>2, SeqAppend, SameFields DEF Leads, StateOK
  <2>2. Leads([a(t) EXCEPT !.unmodelled = w], [a(s) EXCEPT !.unmodelled = w], m, r)
    BY <1>2, <2>1, LeadsUnmodelled
  <2>3. /\ Emitted(t, line, model) = [a(t) EXCEPT !.unmodelled = w]
        /\ Emitted(s, line, model) = [a(s) EXCEPT !.unmodelled = w]
    BY <1>3, <1>5, <2>1
  <2> QED
    BY <2>2, <2>3
<1> QED
  BY <1>4, <1>5

LEMMA LeadsSuperseded ==
    ASSUME NEW s, NEW t, NEW m, NEW r, Leads(t, s, m, r), NEW line
    PROVE  Leads(Superseded(t, line), Superseded(s, line), m, r)
<1>1. Leads([t EXCEPT !.pending = None], [s EXCEPT !.pending = None], m, r)
  BY LeadsField, Fields
<1> QED
  BY <1>1, SameFields, SameTests, LeadsSettled DEF Superseded

LEMMA LeadsReported ==
    ASSUME NEW s, NEW t, NEW m, NEW r, Leads(t, s, m, r), NEW line, NEW model
    PROVE  Leads(Reported(t, line, model), Reported(s, line, model), m, r)
<1> DEFINE late == LateFor(s, line)
           confirms == Confirms(s, line, model)
           settled == RemoveAt(s.settled, late)
           a(u) == [u EXCEPT !.baseline = 0]
           b(u) == [a(u) EXCEPT !.previous = line.total]
           c(u) == [u EXCEPT !.pending = None]
           d(u) == [u EXCEPT !.settled = settled]
<1>1. /\ t.baseline = s.baseline /\ t.settled = s.settled
      /\ {"baseline", "previous", "pending", "settled"} \subseteq Looked
  BY SameFields, Fields
<1>2. /\ Repeats(t, line) <=> Repeats(s, line)
      /\ Confirms(t, line, model) <=> confirms
      /\ LateFor(t, line) = late
  BY SameTests
<1>3. /\ Leads(a(t), a(s), m, r) /\ Leads(c(t), c(s), m, r)
  BY <1>1, LeadsField
<1> HIDE DEF a
<1>4. Leads(b(t), b(s), m, r)
  BY <1>1, <1>3, LeadsField
<1>5. b(s).settled = s.settled /\ b(t).settled = s.settled
  BY <1>1, Fields DEF a, Leads, StateOK
<1> HIDE DEF b, settled
<1>6. Leads(c(b(t)), c(b(s)), m, r) /\ Leads(d(b(t)), d(b(s)), m, r)
  BY <1>1, <1>4, LeadsField
<1> HIDE DEF c, d, late, confirms
<1>7. ASSUME NEW u, u.baseline = s.baseline, b(u).settled = s.settled,
             Repeats(u, line) <=> Repeats(s, line),
             Confirms(u, line, model) <=> confirms, LateFor(u, line) = late
      PROVE  Reported(u, line, model) =
                IF s.baseline # 0 /\ line.total <= s.baseline THEN c(u)
                ELSE IF Repeats(s, line) THEN Unadvanced(a(u))
                ELSE IF confirms THEN Emitted(c(b(u)), line, model)
                ELSE IF late # 0 THEN d(b(u))
                ELSE Emitted(Superseded(b(u), line), line, model)
  BY <1>7 DEF Reported, a, b, c, d, settled
<1>8. /\ Leads(Unadvanced(a(t)), Unadvanced(a(s)), m, r)
      /\ Leads(Emitted(c(b(t)), line, model), Emitted(c(b(s)), line, model), m, r)
      /\ Leads(Emitted(Superseded(b(t), line), line, model),
               Emitted(Superseded(b(s), line), line, model), m, r)
  BY <1>3, <1>4, <1>6, LeadsUnadvanced, LeadsEmitted, LeadsSuperseded
<1>9. /\ Confirms(s, line, model) <=> confirms
      /\ LateFor(s, line) = late
  BY DEF confirms, late
<1> QED
  BY <1>1, <1>2, <1>3, <1>5, <1>6, <1>7, <1>8, <1>9

\* A message that is new is new in both.
LEMMA SameGrowth ==
    ASSUME NEW s, NEW t, NEW u, NEW v, NEW m, NEW r, Leads(t, s, m, r), Leads(v, u, m, r)
    PROVE  Len(v.messages) + Len(v.unmodelled) > Len(t.messages) + Len(t.unmodelled)
             <=> Len(u.messages) + Len(u.unmodelled) > Len(s.messages) + Len(s.unmodelled)
<1>1. /\ IsSeq(m) /\ IsSeq(s.messages) /\ IsSeq(u.messages)
      /\ IsSeq(s.unmodelled) /\ IsSeq(u.unmodelled)
      /\ t.messages = m \o s.messages /\ v.messages = m \o u.messages
      /\ t.unmodelled = s.unmodelled /\ v.unmodelled = u.unmodelled
  BY DEF Leads, StateOK
<1>2. /\ Len(t.messages) = Len(m) + Len(s.messages)
      /\ Len(v.messages) = Len(m) + Len(u.messages)
  BY <1>1, SeqConcat
<1>3. /\ Len(m) \in Nat /\ Len(s.messages) \in Nat /\ Len(u.messages) \in Nat
      /\ Len(s.unmodelled) \in Nat /\ Len(u.unmodelled) \in Nat
  BY <1>1, SeqLength
<1>4. PICK k \in Nat, a \in Nat, b \in Nat, c \in Nat, d \in Nat :
        /\ k = Len(m) /\ a = Len(s.messages) /\ b = Len(u.messages)
        /\ c = Len(s.unmodelled) /\ d = Len(u.unmodelled)
  BY <1>3
<1>5. /\ Len(t.messages) = k + a /\ Len(v.messages) = k + b
      /\ Len(t.unmodelled) = c /\ Len(v.unmodelled) = d
  BY <1>1, <1>2, <1>4
<1>6. (k + b) + d > (k + a) + c <=> b + d > a + c
  OBVIOUS
<1> QED
  BY <1>4, <1>5, <1>6

LEMMA LeadsCount ==
    ASSUME NEW s, NEW t, NEW m, NEW r, Leads(t, s, m, r), NEW line
    PROVE  Leads(ParsedCount(t, line), ParsedCount(s, line), m, r)
<1> DEFINE model(u) ==
             Or(line.model, Or(IF u.pending = None THEN None ELSE u.pending.model, u.model))
           known(u) == Modelled(u, model(u))
           reported(u) == Reported(known(u), line, model(u))
           counted(u) == Len(reported(u).messages) + Len(reported(u).unmodelled)
                             > Len(known(u).messages) + Len(known(u).unmodelled)
<1>1. model(t) = model(s)
  BY SameFields
<1> HIDE DEF model
<1>2. Leads(known(t), known(s), m, r)
  BY <1>1, LeadsModelled
<1> HIDE DEF known
<1>3. Leads(reported(t), reported(s), m, r)
  BY <1>1, <1>2, LeadsReported
<1> HIDE DEF reported
<1>4. counted(t) <=> counted(s)
  BY <1>2, <1>3, SameGrowth
<1>5. Repeats(t, line) <=> Repeats(s, line)
  BY SameTests
<1>6. /\ Leads(Interrupted(t), Interrupted(s), m, r)
      /\ Leads(Rejected(t), Rejected(s), m, r)
  BY LeadsInterrupted, LeadsRejected
<1> HIDE DEF counted
<1>7. ASSUME NEW u
      PROVE  ParsedCount(u, line) =
               IF line.fault = "unshaped" THEN Interrupted(u)
               ELSE IF line.fault = "invalid" THEN Rejected(u)
               ELSE IF line.fault = "undated" /\ counted(u) /\ ~Repeats(u, line)
               THEN Interrupted(u) ELSE reported(u)
  BY DEF ParsedCount, counted, reported, known, model
<1> QED
  BY <1>3, <1>4, <1>5, <1>6, <1>7

LEMMA LeadsClosed ==
    ASSUME NEW s, NEW t, NEW m, NEW r, Leads(t, s, m, r), NEW line
    PROVE  Leads(Closed(t, line), Closed(s, line), m, r)
<1> DEFINE a(u) == IF ClosesPending(u, line) THEN Settled(u) ELSE u
<1>1. Leads(a(t), a(s), m, r)
  BY SameTests, LeadsSettled
<1> HIDE DEF a
<1>2. "turn" \in Looked
  BY Fields
<1>3. Leads([a(t) EXCEPT !.turn = line.turn], [a(s) EXCEPT !.turn = line.turn], m, r)
  BY <1>1, <1>2, LeadsField
<1>4. ASSUME NEW u
      PROVE  Closed(u, line) = IF line.kind \in {"turn", "started"}
                               THEN [a(u) EXCEPT !.turn = line.turn] ELSE a(u)
  BY DEF Closed, a
<1> QED
  BY <1>1, <1>3, <1>4

LEMMA LeadsEntry ==
    ASSUME NEW s, NEW t, NEW m, NEW r, Leads(t, s, m, r), NEW line
    PROVE  Leads(ParsedEntry(t, line), ParsedEntry(s, line), m, r)
<1> DEFINE a(u) == Closed(u, line)
           turn(u) == [Modelled(a(u), line.model) EXCEPT !.model = line.model]
           human(u) == [a(u) EXCEPT !.started = TRUE]
           marked(u) == [a(u) EXCEPT !.pending = [a(s).pending EXCEPT !.compacted = TRUE]]
           fork(u) == [[[a(u) EXCEPT !.waiting = TRUE] EXCEPT !.replaying = FALSE]
                         EXCEPT !.baseline = 0]
<1>1. Leads(a(t), a(s), m, r)
  BY LeadsClosed
<1>2. /\ a(t).pending = a(s).pending
      /\ {"model", "started", "pending", "waiting", "replaying", "baseline"} \subseteq Looked
  BY <1>1, SameFields, Fields
<1> HIDE DEF a
<1>3. Leads(turn(t), turn(s), m, r)
  <2>1. Leads(Modelled(a(t), line.model), Modelled(a(s), line.model), m, r)
    BY <1>1, LeadsModelled
  <2> QED
    BY <1>2, <2>1, LeadsField
<1>4. Leads(human(t), human(s), m, r) /\ Leads(marked(t), marked(s), m, r)
  BY <1>1, <1>2, LeadsField
<1>5. Leads(fork(t), fork(s), m, r)
  BY <1>1, <1>2, LeadsField
<1>6. Leads(Interrupted(t), Interrupted(s), m, r)
  BY LeadsInterrupted
<1>7. Undecided(t, line) <=> Undecided(s, line)
  BY SameTests
<1>8. ASSUME NEW u, a(u).pending = a(s).pending
      PROVE  ParsedEntry(u, line) =
               IF Undecided(u, line) \/ (line.kind = "human" /\ line.fault = "unshaped")
               THEN Interrupted(u)
               ELSE IF line.kind = "turn" THEN turn(u)
               ELSE IF line.kind = "human" THEN human(u)
               ELSE IF line.kind = "compacted"
               THEN IF a(s).pending = None THEN a(u) ELSE marked(u)
               ELSE IF line.kind = "fork" THEN fork(u) ELSE a(u)
  BY <1>8 DEF ParsedEntry, a
<1> HIDE DEF turn, human, marked, fork
<1> QED
  BY <1>1, <1>2, <1>3, <1>4, <1>5, <1>6, <1>7, <1>8

LEMMA LeadsReplayed ==
    ASSUME NEW s, NEW t, NEW m, NEW r, Leads(t, s, m, r), NEW line
    PROVE  Leads(Replayed(t, line), Replayed(s, line), m, r)
<1> DEFINE parent(u) == [u EXCEPT !.replaying = TRUE]
           count(u) == [[u EXCEPT !.previous = line.total] EXCEPT !.baseline = line.total]
<1>1. {"replaying", "previous", "baseline"} \subseteq Looked
  BY Fields
<1>2. Leads(parent(t), parent(s), m, r) /\ Leads(count(t), count(s), m, r)
  BY <1>1, LeadsField
<1>3. ASSUME NEW u
      PROVE  Replayed(u, line) =
               IF line.kind = "parent" THEN parent(u)
               ELSE IF line.kind = "count"
               THEN IF line.fault \in {"invalid", "unshaped"} THEN Rejected(u) ELSE count(u)
               ELSE u
  BY DEF Replayed
<1> HIDE DEF parent, count
<1> QED
  BY <1>2, <1>3, LeadsRejected

\* One line is parsed as it would be with other messages before.
LEMMA LeadsLine ==
    ASSUME NEW s, NEW t, NEW m, NEW r, Leads(t, s, m, r), NEW line
    PROVE  Leads(ParsedLine(t, line), ParsedLine(s, line), m, r)
<1> DEFINE a(u) == [[u EXCEPT !.waiting = FALSE] EXCEPT !.replaying = FALSE]
<1>1. {"waiting", "replaying"} \subseteq Looked
  BY Fields
<1>2. Leads(a(t), a(s), m, r)
  BY <1>1, LeadsField
<1>3. ASSUME NEW u
      PROVE  ParsedLine(u, line) =
               IF u.interrupted \/ line.kind = "blank" THEN u
               ELSE IF Unreadable(u, line) THEN Interrupted(u)
               ELSE IF u.waiting
               THEN IF StartsOwn(u, line) THEN ParsedEntry(a(u), line) ELSE Replayed(u, line)
               ELSE IF line.kind = "odd" THEN Rejected(u)
               ELSE IF line.kind = "record" THEN ParsedRecord(u, line)
               ELSE IF line.kind = "count" THEN ParsedCount(u, line)
               ELSE ParsedEntry(u, line)
  BY DEF ParsedLine
<1> HIDE DEF a
<1>4. /\ Leads(Interrupted(t), Interrupted(s), m, r) /\ Leads(Rejected(t), Rejected(s), m, r)
      /\ Leads(ParsedEntry(a(t), line), ParsedEntry(a(s), line), m, r)
      /\ Leads(ParsedEntry(t, line), ParsedEntry(s, line), m, r)
      /\ Leads(Replayed(t, line), Replayed(s, line), m, r)
      /\ Leads(ParsedRecord(t, line), ParsedRecord(s, line), m, r)
      /\ Leads(ParsedCount(t, line), ParsedCount(s, line), m, r)
  BY <1>2, LeadsInterrupted, LeadsRejected, LeadsEntry, LeadsReplayed, LeadsRecord, LeadsCount
<1>5. /\ t.interrupted = s.interrupted /\ t.unmodelled = s.unmodelled
      /\ t.waiting = s.waiting /\ (StartsOwn(t, line) <=> StartsOwn(s, line))
  BY SameFields, SameTests
<1>6. Unreadable(t, line) <=> Unreadable(s, line)
  BY <1>5 DEF Unreadable
<1> QED
  BY <1>3, <1>4, <1>5, <1>6

-----------------------------------------------------------------------------
(* Parses.                                                                 *)

\* What the parse of some lines has left after each of them.
Parses(parse, lines) ==
    parse = [n \in 0 .. Len(lines) |->
               IF n = 0 THEN StartState ELSE ParsedLine(parse[n - 1], lines[n])]

\* A line leaves a state; a malformed one breaks the parse off.
LEMMA LineState ==
    ASSUME NEW s, StateOK(s), NEW line
    PROVE  /\ StateOK(ParsedLine(s, line))
           /\ s.interrupted => ParsedLine(s, line).interrupted
           /\ line.kind = "malformed" => ParsedLine(s, line).interrupted
           /\ line.kind = "blank" => ParsedLine(s, line) = s
<1>1. StateOK(ParsedLine(s, line))
  <2>1. Leads(s, s, <<>>, 0)
    BY LeadsItself
  <2>2. Leads(ParsedLine(s, line), ParsedLine(s, line), <<>>, 0)
    BY <2>1, LeadsLine
  <2> QED
    BY <2>2 DEF Leads
<1>2. s.interrupted => ParsedLine(s, line) = s
  BY DEF ParsedLine
<1>3. ~s.interrupted /\ line.kind = "malformed" => ParsedLine(s, line) = Interrupted(s)
  BY DEF ParsedLine, Unreadable
<1>4. Interrupted(s).interrupted
  BY LeadsItself, LeadsInterrupted
<1>5. line.kind = "blank" => ParsedLine(s, line) = s
  BY DEF ParsedLine
<1> QED
  BY <1>1, <1>2, <1>3, <1>4, <1>5

\* Every sequence of lines has a parse: the recursion of ParsedLines is sound.
LEMMA ParseExists ==
    ASSUME NEW lines, Len(lines) \in Nat
    PROVE  \E parse : Parses(parse, lines)
<1> DEFINE Upto(g, n) == g = [i \in 0 .. n |-> IF i = 0 THEN StartState
                                               ELSE ParsedLine(g[i - 1], lines[i])]
           T == {n \in Nat : \E g : Upto(g, n)}
<1>1. 0 \in T
  <2> DEFINE g == [i \in 0 .. 0 |-> StartState]
  <2>1. Upto(g, 0)
    OBVIOUS
  <2> HIDE DEF g, Upto
  <2> QED
    BY <2>1
<1>2. ASSUME NEW n \in Nat, n \in T
      PROVE  n + 1 \in T
  <2>1. PICK g : Upto(g, n)
    BY <1>2
  <2> DEFINE h == [i \in 0 .. n + 1 |->
                     IF i = n + 1 THEN ParsedLine(g[n], lines[n + 1]) ELSE g[i]]
  <2>2. \A i \in 0 .. n : g[i] = IF i = 0 THEN StartState ELSE ParsedLine(g[i - 1], lines[i])
    BY <2>1
  <2>3. \A i \in 0 .. n + 1 :
          h[i] = IF i = 0 THEN StartState ELSE ParsedLine(h[i - 1], lines[i])
    <3> TAKE i \in 0 .. n + 1
    <3>1. CASE i = n + 1
      <4>1. h[i] = ParsedLine(g[n], lines[n + 1]) /\ h[n] = g[n] /\ i - 1 = n
        BY <3>1
      <4> QED
        BY <3>1, <4>1
    <3>2. CASE i \in 0 .. n
      <4>1. h[i] = g[i]
        BY <3>2
      <4>2. i # 0 => h[i - 1] = g[i - 1]
        BY <3>2
      <4> QED
        BY <2>2, <3>2, <4>1, <4>2
    <3> QED
      BY <3>1, <3>2
  <2>4. Upto(h, n + 1)
    BY <2>3
  <2> HIDE DEF h, Upto
  <2> QED
    BY <2>4
<1> HIDE DEF T
<1>3. Nat \subseteq T
  BY <1>1, <1>2, Induction
<1> QED
  BY <1>3 DEF T, Parses

\* ParsedLines is what a parse has left after the last line.
LEMMA ParsedLinesDef ==
    ASSUME NEW lines, Len(lines) \in Nat
    PROVE  \E parse : Parses(parse, lines) /\ ParsedLines(lines) = parse[Len(lines)]
<1> DEFINE parse == CHOOSE g : Parses(g, lines)
<1>1. Parses(parse, lines)
  BY ParseExists
<1>2. ParsedLines(lines) = parse[Len(lines)]
  BY DEF ParsedLines, Parses
<1> QED
  BY <1>1, <1>2

\* The parse of a text and one more line is the parse of the line after that of
\* the text.
LEMMA ParseNext ==
    ASSUME NEW lines, IsSeq(lines), NEW line
    PROVE  ParsedLines(Append(lines, line)) = ParsedLine(ParsedLines(lines), line)
<1> DEFINE more == Append(lines, line)
<1>1. /\ Len(lines) \in Nat /\ Len(more) = Len(lines) + 1 /\ more[Len(lines) + 1] = line
      /\ \A i \in 1 .. Len(lines) : more[i] = lines[i]
  BY SeqAppend
<1> HIDE DEF more
<1>2. PICK f : Parses(f, lines) /\ ParsedLines(lines) = f[Len(lines)]
  BY <1>1, ParsedLinesDef
<1>3. PICK g : Parses(g, more) /\ ParsedLines(more) = g[Len(more)]
  BY <1>1, ParsedLinesDef
<1> DEFINE T == {n \in Nat : n <= Len(lines) => f[n] = g[n]}
<1>4. 0 \in T
  BY <1>1, <1>2, <1>3 DEF Parses
<1>5. ASSUME NEW n \in Nat, n \in T
      PROVE  n + 1 \in T
  <2> SUFFICES ASSUME n + 1 <= Len(lines) PROVE f[n + 1] = g[n + 1]
    OBVIOUS
  <2>1. f[n] = g[n] /\ more[n + 1] = lines[n + 1] /\ (n + 1) - 1 = n
    BY <1>1, <1>5
  <2>2. f[n + 1] = ParsedLine(f[n], lines[n + 1])
    BY <1>1, <1>2, <2>1 DEF Parses
  <2>3. g[n + 1] = ParsedLine(g[n], more[n + 1])
    BY <1>1, <1>3, <2>1 DEF Parses
  <2> QED
    BY <2>1, <2>2, <2>3
<1> HIDE DEF T
<1>6. Nat \subseteq T
  BY <1>4, <1>5, Induction
<1>7. f[Len(lines)] = g[Len(lines)]
  BY <1>1, <1>6 DEF T
<1>8. g[Len(lines) + 1] = ParsedLine(g[Len(lines)], line)
  BY <1>1, <1>3 DEF Parses
<1> QED
  BY <1>1, <1>2, <1>3, <1>7, <1>8 DEF more

\* The parse of no lines.
LEMMA ParseNothing == ParsedLines(<<>>) = StartState
<1>1. Len(<<>>) = 0
  OBVIOUS
<1>2. PICK f : Parses(f, <<>>) /\ ParsedLines(<<>>) = f[Len(<<>>)]
  BY <1>1, ParsedLinesDef
<1> QED
  BY <1>1, <1>2 DEF Parses

\* A parse leaves a state.
LEMMA ParseState ==
    ASSUME NEW lines, IsSeq(lines)
    PROVE  StateOK(ParsedLines(lines))
<1>1. Len(lines) \in Nat
  BY SeqLength
<1>2. PICK f : Parses(f, lines) /\ ParsedLines(lines) = f[Len(lines)]
  BY <1>1, ParsedLinesDef
<1> DEFINE T == {n \in Nat : n <= Len(lines) => StateOK(f[n])}
<1>3. 0 \in T
  BY <1>1, <1>2, StartOK DEF Parses
<1>4. ASSUME NEW n \in Nat, n \in T
      PROVE  n + 1 \in T
  <2> SUFFICES ASSUME n + 1 <= Len(lines) PROVE StateOK(f[n + 1])
    OBVIOUS
  <2>1. StateOK(f[n]) /\ n + 1 \in 1 .. Len(lines) /\ (n + 1) - 1 = n
    BY <1>1, <1>4
  <2>2. f[n + 1] = ParsedLine(f[n], lines[n + 1])
    BY <1>1, <1>2, <2>1 DEF Parses
  <2> QED
    BY <2>1, <2>2, LineState
<1> HIDE DEF T
<1>5. Nat \subseteq T
  BY <1>3, <1>4, Induction
<1> QED
  BY <1>1, <1>2, <1>5 DEF T

\* A parse that has not broken off by the end lets no message wait for its model.
LEMMA EndedWell ==
    ASSUME NEW s, StateOK(s)
    PROVE  /\ StateOK(Ended(s))
           /\ ~Ended(s).interrupted => Ended(s) = s /\ s.unmodelled = <<>>
           /\ s.unmodelled = <<>> => Ended(s) = s
           /\ s.interrupted => Ended(s) = s
<1>1. Leads(Interrupted(s), Interrupted(s), <<>>, 0) /\ Interrupted(s).interrupted
  BY LeadsItself, LeadsInterrupted
<1>2. StateOK(Interrupted(s))
  BY <1>1 DEF Leads
<1> QED
  BY <1>1, <1>2 DEF Ended

\* A checkpoint is the state without what has piled up.
LEMMA CheckpointLeads ==
    ASSUME NEW s, StateOK(s), s.unmodelled = <<>>
    PROVE  Leads(s, Checkpoint(s), s.messages, s.rejected)
<1> DEFINE c == Checkpoint(s)
<1>1. /\ DOMAIN c = StateFields /\ c = [f \in StateFields |-> c[f]]
      /\ c.messages = <<>> /\ c.unmodelled = <<>> /\ c.rejected = 0
      /\ \A f \in Looked : c[f] = s[f]
  BY Fields DEF Checkpoint, StateOK
<1> HIDE DEF c
<1>2. /\ IsSeq(s.messages) /\ s.rejected \in Nat /\ IsSeq(<<>>)
  BY NoSeq DEF StateOK
<1>3. s.messages = s.messages \o c.messages /\ s.rejected = s.rejected + c.rejected
  <2>1. s.messages \o <<>> = s.messages
    BY <1>2, SeqConcat
  <2>2. PICK n \in Nat : n = s.rejected
    BY <1>2
  <2>3. n = n + 0
    OBVIOUS
  <2>4. s.rejected = s.rejected + c.rejected
    BY <1>1, <2>2, <2>3
  <2>5. s.messages = s.messages \o c.messages
    BY <1>1, <2>1, Zenon
  <2> QED
    BY <2>4, <2>5
<1>4. StateOK(c)
  BY <1>1, <1>2 DEF StateOK
<1>5. Leads(s, c, s.messages, s.rejected)
  BY <1>1, <1>2, <1>3, <1>4 DEF Leads
<1> QED
  BY <1>5 DEF c

\* States that differ in what has piled up have one checkpoint.
LEMMA SameCheckpoint ==
    ASSUME NEW s, NEW t, NEW m, NEW r, Leads(t, s, m, r)
    PROVE  Checkpoint(t) = Checkpoint(s)
<1>1. ASSUME NEW u, StateOK(u)
      PROVE  Checkpoint(u) =
               [f \in StateFields |-> IF f \in {"messages", "unmodelled"} THEN <<>>
                                      ELSE IF f = "rejected" THEN 0 ELSE u[f]]
  BY <1>1, Fields DEF Checkpoint, StateOK
<1>2. StateOK(s) /\ StateOK(t) /\ \A f \in Looked : t[f] = s[f]
  BY DEF Leads
<1> QED
  BY <1>1, <1>2 DEF Looked

-----------------------------------------------------------------------------
(* The invariant.                                                          *)

\* One sequence begins another.
Begins(x, y) == Len(x) <= Len(y) /\ \A i \in 1 .. Len(x) : x[i] = y[i]

\* Every rewrite has made a file of its own: files have only grown.
OnlyGrown == rewrites = Len(disk) - 1

WorldOK ==
    /\ \E S : FileOK(Seq(S))
    /\ rewrites \in Nat /\ Len(disk) - 1 <= rewrites

\* A stamp of a file, which has what it had then unless it was overwritten.
Stamped(stamp) ==
    /\ StampOK(stamp) /\ IsSeq(stamp.text.lines)
    /\ OnlyGrown => Begins(stamp.text.lines, disk[stamp.inode].text.lines)

\* A checkpoint is that of the text a shard is stamped with; a sealed shard also has
\* its records.
SealedState(sh) ==
    LET parse == FullParse(sh.stamp.text.lines)
    IN  /\ IsSeq(sh.stamp.text.lines) /\ sh.stamp.text.tail = "whole" /\ ~parse.interrupted
        /\ sh.hash = sh.stamp.text.lines /\ sh.state = Checkpoint(parse)

Sealed(sh) ==
    LET parse == FullParse(sh.stamp.text.lines)
    IN  SealedState(sh) /\ sh.records = parse.messages /\ sh.rejected = parse.rejected

\* The file that is open is that of the snapshot and has not changed since.
Steady(q) ==
    q.inode = q.snapshot.inode /\ disk[q.inode].mtime = q.snapshot.mtime

\* What has been read begins the file, as far as it is known.
Known(q) == Steady(q) \/ OnlyGrown => Begins(q.hash, disk[q.inode].text.lines)

\* Verification has come to the end of a line of the prefix.
Verified(q) ==
    /\ IsSeq(q.hash) /\ Begins(q.hash, q.planned.hash)
    /\ q.at = 3 * Len(q.hash) /\ q.newline /\ Known(q)

\* What has been read is parsed: after a checkpoint the records before it lead.
Parsing(q) ==
    IF q.pass = "append"
    THEN Leads(ParsedLines(q.hash), q.state, q.planned.records, q.planned.rejected)
    ELSE q.state = ParsedLines(q.hash)

\* The position is at the end of the last line read, or before its newline.
Scanned(q) ==
    /\ IsSeq(q.hash) /\ Known(q) /\ Parsing(q)
    /\ \/ q.at = 3 * Len(q.hash) /\ q.newline
       \/ q.at = 3 * Len(q.hash) - 1 /\ Len(q.hash) # 0 /\ ~q.newline

\* Nothing that was there at the snapshot is missing.
Whole(q) ==
    OnlyGrown /\ q.inode = q.snapshot.inode => Begins(q.snapshot.text.lines, q.hash)

\* What was read is the beginning of a version of the file.
Found(q) ==
    OnlyGrown =>
        \E i \in Inodes :
            /\ Begins(q.hash, disk[i].text.lines)
            /\ i = q.snapshot.inode => Begins(q.snapshot.text.lines, q.hash)

\* A report is the full parse of what was read; before the records of an append
\* are joined, of what follows them.
Read(q) == IsSeq(q.hash) /\ ~FullParse(q.hash).interrupted /\ Found(q)

Answers(q) ==
    LET parse == FullParse(q.hash)
    IN  Read(q) /\ q.report = [messages |-> parse.messages, rejected |-> parse.rejected]

Joinable(q) ==
    LET parse == FullParse(q.hash)
    IN  /\ Read(q) /\ parse.messages = q.planned.records \o q.report.messages
        /\ parse.rejected = q.planned.rejected + q.report.rejected

AcquirerInv(q) ==
    /\ DOMAIN q = DOMAIN Resting /\ StateOK(q.state)
    /\ q.step # "idle" => Stamped(q.snapshot)
    /\ q.step = "plan" => q.pass = "full" /\ q.report = NoReport /\ q.plan = None
    /\ ((q.step \in {"open", "verify", "read", "measure"} /\ q.pass = "append")
            \/ q.step = "take") => Sealed(q.planned)
    /\ q.step \in {"verify", "read", "measure"} => q.inode \in Inodes /\ q.at \in Nat
    /\ q.step = "verify" => q.pass = "append" /\ Verified(q)
    /\ q.step \in {"read", "measure"} => (~q.state.interrupted => Scanned(q))
    /\ q.step = "measure" => (~q.state.interrupted => q.state.unmodelled = <<>> /\ Whole(q))
    /\ q.step = "take" =>
         /\ q.pass = "append" \/ q.report = NoReport
         /\ q.status = "complete" => Joinable(q)
         /\ q.plan # None => /\ q.status = "complete" /\ SealedState(q.plan)
                             /\ q.plan = NewShard(q)
    /\ q.step = "write" => (q.plan # None => Sealed(q.plan))
    /\ q.step \in {"write", "save", "done"} => (q.status = "complete" => Answers(q))

ShardInv == shard # None => Sealed(shard)

Inv ==
    /\ WorldOK /\ ShardInv /\ setting.acquirers \subseteq Acquirers
    /\ acquirer = [a \in Acquirers |-> acquirer[a]]
    /\ \A a \in Acquirers : AcquirerInv(acquirer[a])

-----------------------------------------------------------------------------
(* Changes of the file.                                                    *)

LEMMA BeginsItself ==
    ASSUME NEW x, IsSeq(x)
    PROVE  Begins(x, x)
BY SeqLength DEF Begins

LEMMA BeginsOn ==
    ASSUME NEW x, IsSeq(x), NEW y, IsSeq(y), NEW z, IsSeq(z), Begins(x, y), Begins(y, z)
    PROVE  Begins(x, z)
<1>1. PICK a \in Nat, b \in Nat, c \in Nat : a = Len(x) /\ b = Len(y) /\ c = Len(z)
  BY SeqLength
<1>2. a <= b /\ b <= c /\ a <= c
  BY <1>1 DEF Begins
<1>3. \A i \in 1 .. a : i \in 1 .. b
  BY <1>2
<1> QED
  BY <1>1, <1>2, <1>3 DEF Begins

\* The files, whatever their lines are.
LEMMA Files ==
    ASSUME WorldOK
    PROVE  /\ Len(disk) \in Nat \ {0} /\ Inodes = 1 .. Len(disk) /\ path \in Inodes
           /\ \A i \in Inodes :
                /\ disk[i].mtime \in Nat /\ IsSeq(disk[i].text.lines)
                /\ Len(disk[i].text.lines) \in Nat /\ disk[i].text.tail \in Tails
                /\ disk[i].text.tail # "whole" => Len(disk[i].text.lines) # 0
<1>1. PICK S : FileOK(Seq(S))
  BY DEF WorldOK
<1>2. /\ Len(disk) \in Nat \ {0} /\ Inodes = 1 .. Len(disk)
      /\ path \in 1 .. Len(disk)
      /\ \A i \in Inodes :
           /\ disk[i].mtime \in Nat
           /\ disk[i].text.lines \in Seq(S) /\ disk[i].text.tail \in Tails
  BY <1>1, FileTypes
<1>3. ASSUME NEW i \in Inodes
      PROVE  /\ IsSeq(disk[i].text.lines) /\ Len(disk[i].text.lines) \in Nat
             /\ disk[i].text.tail # "whole" => Len(disk[i].text.lines) # 0
  <2>1. disk[i].text.lines \in Seq(S)
    BY <1>2
  <2>2. disk[i].text.tail # "whole" => disk[i].text.lines # <<>>
    BY <1>1 DEF FileOK
  <2> QED
    BY <2>1, <2>2, LenProperties, EmptySeq DEF IsSeq
<1> QED
  BY <1>2, <1>3

\* More lines may come.
LEMMA FilesOfMore ==
    ASSUME NEW S, NEW T, FileOK(Seq(S)), S \subseteq T
    PROVE  FileOK(Seq(T))
<1> DEFINE File(U) == [text : [lines : Seq(U), tail : Tails], mtime : Nat]
<1>1. Seq(S) \subseteq Seq(T)
  BY SeqMonotonic
<1>2. File(S) \subseteq File(T)
  BY <1>1
<1>3. disk \in Seq(File(S))
  BY DEF FileOK
<1> HIDE DEF File
<1>4. disk \in Seq(File(T))
  BY <1>2, <1>3, SeqMonotonic
<1> QED
  BY <1>4 DEF FileOK, File

\* What a change of the file leaves true.
Grows ==
    /\ Advances
    /\ OnlyGrown' =>
         /\ OnlyGrown
         /\ \A i \in Inodes : Begins(disk[i].text.lines, disk'[i].text.lines)

\* The client writes on.
LEMMA WriteGrows ==
    ASSUME WorldOK, NEW S, FileOK(Seq(S)), NEW text \in [lines : Seq(S), tail : Tails],
           text.tail # "whole" => text.lines # <<>>, Begins(Current.text.lines, text.lines),
           disk' = [disk EXCEPT ![path] = Changed(text)], UNCHANGED <<path, rewrites>>
    PROVE  Grows /\ WorldOK'
<1>1. Advances /\ FileOK(Seq(S))'
  BY PutAdvances
<1>2. /\ Len(disk) \in Nat /\ Inodes = 1 .. Len(disk) /\ path \in Inodes
      /\ \A i \in Inodes : IsSeq(disk[i].text.lines)
  BY Files
<1>3. Len(disk') = Len(disk) /\ \A i \in Inodes : disk'[i] = IF i = path THEN Changed(text) ELSE disk[i]
  <2> DEFINE File == [text : [lines : Seq(S), tail : Tails], mtime : Nat]
  <2>1. disk \in Seq(File) /\ disk' \in Seq(File)
    BY <1>1 DEF FileOK
  <2> HIDE DEF File
  <2>2. DOMAIN disk = 1 .. Len(disk) /\ DOMAIN disk' = 1 .. Len(disk') /\ Len(disk') \in Nat
    BY <2>1, LenProperties
  <2> QED
    BY <1>2, <2>2 DEF Inodes
<1>4. WorldOK'
  BY <1>1, <1>3 DEF WorldOK
<1>5. \A i \in Inodes : Begins(disk[i].text.lines, disk'[i].text.lines)
  <2> TAKE i \in Inodes
  <2>1. CASE i = path
    BY <1>3, <2>1 DEF Current, Changed
  <2>2. CASE i # path
    BY <1>2, <1>3, <2>2, BeginsItself
  <2> QED
    BY <2>1, <2>2
<1>6. OnlyGrown' => OnlyGrown
  BY <1>3 DEF OnlyGrown
<1> QED
  BY <1>1, <1>4, <1>5, <1>6 DEF Grows

LEMMA ChangeGrows ==
    ASSUME WorldOK, Change
    PROVE  Grows /\ WorldOK'
<1>1. PICK S : FileOK(Seq(S))
  BY DEF WorldOK
<1>2. /\ Len(disk) \in Nat \ {0} /\ Inodes = 1 .. Len(disk) /\ path \in Inodes
      /\ \A i \in Inodes : IsSeq(disk[i].text.lines)
  BY Files
<1> DEFINE text == Current.text
<1>3. /\ text \in [lines : Seq(S), tail : Tails] /\ IsSeq(text.lines)
      /\ text.tail # "whole" => text.lines # <<>>
  BY <1>1, <1>2, FileTypes DEF FileOK, Current
<1>4. CASE Write
  <2>1. UNCHANGED <<path, rewrites>>
    BY <1>4 DEF Write
  <2>2. CASE text.tail = "whole"
    <3> DEFINE put(l, u) ==
                 disk' = [disk EXCEPT ![path] = Changed([lines |-> Append(text.lines, l),
                                                         tail |-> u])]
    <3>a. \E l : \E u \in IF setting.pieces THEN Tails ELSE {"whole"} : put(l, u)
      BY <1>4, <2>2 DEF Write
    <3>b. "whole" \in Tails
      BY DEF Tails
    <3> HIDE DEF put
    <3>c. PICK line : \E u \in Tails : put(line, u)
      BY <3>a, <3>b
    <3>d. PICK t \in Tails : put(line, t)
      BY <3>c
    <3>1. disk' = [disk EXCEPT ![path] = Changed([lines |-> Append(text.lines, line),
                                                  tail |-> t])]
      BY <3>d DEF put
    <3> DEFINE T == S \cup {line}
               more == [lines |-> Append(text.lines, line), tail |-> t]
    <3>2. FileOK(Seq(T))
      BY <1>1, FilesOfMore
    <3>3. text.lines \in Seq(T) /\ line \in T
      BY <1>3, SeqMonotonic
    <3> HIDE DEF text, T
    <3>4. Append(text.lines, line) \in Seq(T)
      BY <3>3, AppendProperties
    <3>5. /\ Len(text.lines) \in Nat /\ Len(Append(text.lines, line)) = Len(text.lines) + 1
          /\ \A i \in 1 .. Len(text.lines) : Append(text.lines, line)[i] = text.lines[i]
      BY <1>3, SeqAppend
    <3>6. Begins(text.lines, Append(text.lines, line)) /\ Append(text.lines, line) # <<>>
      <4>1. PICK n \in Nat : n = Len(text.lines)
        BY <3>5
      <4>2. Len(Append(text.lines, line)) = n + 1 /\ n <= n + 1 /\ n + 1 # 0
        BY <3>5, <4>1
      <4> QED
        BY <3>5, <4>1, <4>2, NoSeq DEF Begins
    <3>7. /\ more \in [lines : Seq(T), tail : Tails] /\ more.lines # <<>>
          /\ Begins(Current.text.lines, more.lines)
          /\ disk' = [disk EXCEPT ![path] = Changed(more)]
      BY <3>1, <3>4, <3>6 DEF text
    <3> HIDE DEF more
    <3> QED
      BY <2>1, <3>2, <3>7, WriteGrows
  <2>3. CASE text.tail # "whole"
    <3>1. PICK t \in Tails : disk' = [disk EXCEPT ![path] = Changed([text EXCEPT !.tail = t])]
      BY <1>4, <2>3 DEF Write, Tails
    <3> DEFINE more == [text EXCEPT !.tail = t]
    <3>2. more \in [lines : Seq(S), tail : Tails] /\ more.lines = text.lines
      BY <1>3
    <3>3. Begins(Current.text.lines, more.lines) /\ more.lines # <<>>
      BY <1>3, <2>3, <3>2, BeginsItself
    <3>4. disk' = [disk EXCEPT ![path] = Changed(more)]
      BY <3>1
    <3> HIDE DEF more, text
    <3> QED
      BY <1>1, <2>1, <3>2, <3>3, <3>4, WriteGrows
  <2> QED
    BY <2>2, <2>3
<1>5. CASE RewriteFile
  <2>1. PICK l \in Beginnings :
          LET written == Changed([lines |-> l, tail |-> "whole"])
          IN  \/ disk' = [disk EXCEPT ![path] = written] /\ path' = path
              \/ disk' = Append(disk, written) /\ path' = Len(disk')
    BY <1>5 DEF RewriteFile
  <2> DEFINE more == [lines |-> l, tail |-> "whole"]
             T == S \cup Line
  <2>2. l \in Seq(T)
    <3>1. PICK d \in Drafts : \E n \in 0 .. Len(d) : l = SubSeq(d, 1, n)
      BY DEF Beginnings
    <3>2. d \in Seq(Line) /\ Len(d) \in Nat
      BY CodexAssumption, LenProperties
    <3>3. l \in Seq(Line)
      BY <3>1, <3>2, SubSeqProperties
    <3> QED
      BY <3>3, SeqMonotonic
  <2>3. FileOK(Seq(T))
    BY <1>1, FilesOfMore
  <2> HIDE DEF T
  <2>4. more \in [lines : Seq(T), tail : Tails] /\ more.tail = "whole"
    BY <2>2 DEF Tails
  <2>5. \/ disk' = [disk EXCEPT ![path] = Changed(more)] /\ path' = path
        \/ disk' = Append(disk, Changed(more)) /\ path' = Len(disk')
    BY <2>1
  <2> HIDE DEF more
  <2>6. Advances /\ FileOK(Seq(T))'
    BY <2>3, <2>4, <2>5, PutAdvances
  <2>7. rewrites' = rewrites + 1
    BY <1>5 DEF RewriteFile
  <2> DEFINE File == [text : [lines : Seq(T), tail : Tails], mtime : Nat]
  <2>8. disk \in Seq(File) /\ disk' \in Seq(File)
    BY <2>3, <2>6 DEF FileOK
  <2> HIDE DEF File
  <2>9. CASE disk' = [disk EXCEPT ![path] = Changed(more)]
    <3>1. Len(disk') = Len(disk)
      BY <1>2, <2>8, <2>9, LenProperties
    <3>2. WorldOK' /\ ~OnlyGrown'
      BY <1>2, <2>6, <2>7, <3>1 DEF WorldOK, OnlyGrown
    <3> QED
      BY <2>6, <3>2 DEF Grows
  <2>10. CASE disk' = Append(disk, Changed(more))
    <3> DEFINE new == Changed(more)
    <3> HIDE DEF new
    <3>1. disk' = Append(disk, new) /\ IsSeq(disk)
      BY <2>8, <2>10 DEF new, IsSeq
    <3>2. Len(disk') = Len(disk) + 1 /\ \A i \in 1 .. Len(disk) : disk'[i] = disk[i]
      BY <3>1, SeqAppend
    <3>3. WorldOK' /\ (OnlyGrown' => OnlyGrown)
      BY <1>2, <2>6, <2>7, <3>2 DEF WorldOK, OnlyGrown
    <3>4. \A i \in Inodes : Begins(disk[i].text.lines, disk'[i].text.lines)
      BY <1>2, <3>2, BeginsItself
    <3> QED
      BY <2>6, <3>3, <3>4 DEF Grows
  <2> QED
    BY <2>5, <2>9, <2>10
<1>6. CASE RestoreFile
  <2>1. disk' = disk /\ rewrites' = rewrites /\ path' \in 1 .. path - 1
    BY <1>6 DEF RestoreFile
  <2>2. path' \in Inodes
    BY <1>2, <2>1
  <2>3. FileOK(Seq(S))'
    BY <1>1, <2>1, <2>2 DEF FileOK, Inodes
  <2>4. WorldOK'
    BY <2>1, <2>3 DEF WorldOK
  <2>5. \A i \in Inodes : Begins(disk[i].text.lines, disk'[i].text.lines)
    BY <1>2, <2>1, BeginsItself
  <2> QED
    BY <2>1, <2>4, <2>5 DEF Grows, Advances, OnlyGrown, Inodes
<1> QED
  BY <1>4, <1>5, <1>6 DEF Change

\* A change of the file leaves what acquisitions know true.
LEMMA ChangeKeeps ==
    ASSUME NEW q, AcquirerInv(q), WorldOK, WorldOK', Grows
    PROVE  AcquirerInv(q)'
<1>1. /\ Inodes = 1 .. Len(disk)
      /\ \A i \in Inodes : disk[i].mtime \in Nat /\ IsSeq(disk[i].text.lines)
  BY Files
<1>2. \A i \in Inodes : i \in Inodes' /\ IsSeq(disk'[i].text.lines)
  <2>1. \A i \in Inodes' : IsSeq(disk'[i].text.lines)
    <3>1. PICK S : FileOK(Seq(S))'
      BY DEF WorldOK
    <3> DEFINE File == [text : [lines : Seq(S), tail : Tails], mtime : Nat]
    <3>2. disk' \in Seq(File)
      BY <3>1 DEF FileOK
    <3>3. ASSUME NEW i \in DOMAIN disk'
          PROVE  disk'[i].text.lines \in Seq(S)
      <4> HIDE DEF File
      <4>1. disk'[i] \in File
        BY <3>2, <3>3, LenProperties, ElementOfSeq
      <4> QED
        BY <4>1 DEF File
    <3> QED
      BY <3>3 DEF Inodes, IsSeq
  <2> QED
    BY <2>1 DEF Grows, Advances, Inodes
<1>3. OnlyGrown' =>
        /\ OnlyGrown
        /\ \A i \in Inodes : Begins(disk[i].text.lines, disk'[i].text.lines)
  BY DEF Grows
<1>4. ASSUME NEW x, IsSeq(x), NEW i \in Inodes, OnlyGrown', Begins(x, disk[i].text.lines)
      PROVE  Begins(x, disk'[i].text.lines)
  BY <1>1, <1>2, <1>3, <1>4, BeginsOn
<1>5. q.step # "idle" => Stamped(q.snapshot)'
  <2> SUFFICES ASSUME Stamped(q.snapshot) PROVE Stamped(q.snapshot)'
    BY DEF AcquirerInv
  <2>1. PICK S, T : FileOK(Seq(S)) /\ FileOK(Seq(T))'
    BY DEF WorldOK
  <2> DEFINE U == S \cup T
  <2>2. FileOK(Seq(U))
    BY <2>1, FilesOfMore
  <2>3. FileOK(Seq(U))'
    <3> DEFINE File(V) == [text : [lines : Seq(V), tail : Tails], mtime : Nat]
    <3>1. Seq(T) \subseteq Seq(U)
      BY SeqMonotonic
    <3>2. File(T) \subseteq File(U)
      BY <3>1
    <3>3. disk' \in Seq(File(T))
      BY <2>1 DEF FileOK
    <3> HIDE DEF File
    <3>4. disk' \in Seq(File(U))
      BY <3>2, <3>3, SeqMonotonic
    <3> QED
      BY <2>1, <3>4 DEF FileOK, File
  <2>4. StampOK(q.snapshot)'
    BY <2>2, <2>3, StampKept DEF Stamped, Grows
  <2>5. /\ IsSeq(q.snapshot.text.lines) /\ q.snapshot.inode \in Inodes
        /\ OnlyGrown => Begins(q.snapshot.text.lines, disk[q.snapshot.inode].text.lines)
    BY DEF Stamped, StampOK
  <2> QED
    BY <1>3, <1>4, <2>4, <2>5 DEF Stamped
<1>6. ASSUME q.step # "idle", q.inode \in Inodes, Steady(q)'
      PROVE  Steady(q) /\ disk'[q.inode] = disk[q.inode]
  <2>1. q.inode = q.snapshot.inode /\ disk'[q.inode].mtime = q.snapshot.mtime
    BY <1>6 DEF Steady
  <2>2. /\ q.snapshot.mtime <= disk[q.inode].mtime
        /\ q.snapshot.mtime \in Nat /\ disk[q.inode].mtime \in Nat
    BY <1>1, <1>6, <2>1 DEF AcquirerInv, Stamped, StampOK
  <2>3. disk'[q.inode] = disk[q.inode]
    BY <1>6, <2>1, <2>2 DEF Grows, Advances
  <2> QED
    BY <2>1, <2>3 DEF Steady
<1>7. ASSUME q.step # "idle", q.inode \in Inodes, IsSeq(q.hash), Known(q)
      PROVE  Known(q)'
  BY <1>3, <1>4, <1>6, <1>7 DEF Known
<1>8. q.step = "verify" => Verified(q)'
  BY <1>7 DEF AcquirerInv, Verified
<1>9. q.step \in {"read", "measure"} /\ ~q.state.interrupted => Scanned(q)'
  BY <1>7 DEF AcquirerInv, Scanned, Parsing
<1>10. Whole(q) => Whole(q)'
  BY <1>3 DEF Whole
<1>11. ASSUME IsSeq(q.hash), Found(q)
       PROVE  Found(q)'
  <2> SUFFICES ASSUME OnlyGrown'
               PROVE  \E i \in Inodes' :
                        /\ Begins(q.hash, disk'[i].text.lines)
                        /\ i = q.snapshot.inode => Begins(q.snapshot.text.lines, q.hash)
    BY DEF Found
  <2>1. PICK i \in Inodes :
          /\ Begins(q.hash, disk[i].text.lines)
          /\ i = q.snapshot.inode => Begins(q.snapshot.text.lines, q.hash)
    BY <1>3, <1>11 DEF Found
  <2>2. Begins(q.hash, disk'[i].text.lines) /\ i \in Inodes'
    BY <1>2, <1>4, <1>11, <2>1
  <2> QED
    BY <2>1, <2>2
<1>12. Read(q) => Read(q)'
  BY <1>11 DEF Read
<1>13. (Answers(q) => Answers(q)') /\ (Joinable(q) => Joinable(q)')
  BY <1>12 DEF Answers, Joinable
<1>14. q.inode \in Inodes => q.inode \in Inodes'
  BY <1>2
<1> QED
  BY <1>5, <1>8, <1>9, <1>10, <1>13, <1>14 DEF AcquirerInv, Sealed, SealedState

\* A change of the file preserves the invariant.
LEMMA ChangeStep ==
    ASSUME Inv, Change
    PROVE  Inv'
<1>1. Grows /\ WorldOK'
  BY ChangeGrows DEF Inv
<1>2. shard' = shard /\ acquirer' = acquirer /\ setting' = setting
  BY DEF Change
<1>3. ASSUME NEW a \in Acquirers
      PROVE  AcquirerInv(acquirer[a])'
  <2>1. PICK q : q = acquirer[a]
    OBVIOUS
  <2>2. AcquirerInv(q) /\ WorldOK
    BY <2>1 DEF Inv
  <2>3. AcquirerInv(q)'
    BY <1>1, <2>2, ChangeKeeps
  <2>4. acquirer'[a] = q
    BY <1>2, <2>1
  <2> QED
    BY <2>3, <2>4
<1> QED
  BY <1>1, <1>2, <1>3 DEF Inv, ShardInv, Sealed, SealedState

-----------------------------------------------------------------------------
(* Steps of an acquisition.                                                *)

\* While the file stays as it is, what is known of it stays true.
LEMMA StillKeeps ==
    ASSUME NEW q, AcquirerInv(q), UNCHANGED <<disk, rewrites>>
    PROVE  AcquirerInv(q)'
<1>1. Inodes' = Inodes /\ (OnlyGrown' <=> OnlyGrown)
  BY DEF Inodes, OnlyGrown
<1>2. /\ Stamped(q.snapshot)' <=> Stamped(q.snapshot)
      /\ Known(q)' <=> Known(q)
      /\ Whole(q)' <=> Whole(q)
      /\ Found(q)' <=> Found(q)
  BY <1>1 DEF Stamped, StampOK, Known, Steady, Whole, Found
<1>3. /\ Verified(q)' <=> Verified(q)
      /\ Scanned(q)' <=> Scanned(q)
      /\ Answers(q)' <=> Answers(q)
      /\ Joinable(q)' <=> Joinable(q)
  BY <1>2 DEF Verified, Scanned, Parsing, Read, Answers, Joinable
<1> QED
  BY <1>1, <1>2, <1>3 DEF AcquirerInv, Sealed, SealedState

\* A step that leaves an acquisition as it should be, and the shard too, preserves
\* the invariant.
LEMMA SetKeeps ==
    ASSUME Inv, NEW a \in Acquirers, NEW q, AcquirerInv(q), Set(a, q), UNCHANGED World,
           ShardInv'
    PROVE  Inv'
<1>1. UNCHANGED <<disk, path, rewrites, setting>>
  BY DEF World
<1>2. WorldOK'
  BY <1>1 DEF Inv, WorldOK, FileOK, Inodes
<1>3. ASSUME NEW b \in Acquirers
      PROVE  AcquirerInv(acquirer[b])'
  <2>1. PICK r : r = acquirer'[b]
    OBVIOUS
  <2>2. r = IF b = a THEN q ELSE acquirer[b]
    BY <2>1 DEF Inv, Set
  <2>3. AcquirerInv(r)
    BY <2>2 DEF Inv
  <2>4. AcquirerInv(r)'
    BY <1>1, <2>3, StillKeeps
  <2> QED
    BY <2>1, <2>4
<1>4. acquirer' = [b \in Acquirers |-> acquirer'[b]]
  BY DEF Inv, Set
<1> QED
  BY <1>1, <1>2, <1>3, <1>4 DEF Inv

\* An acquisition has the fields of a resting one.
LEMMA AcquirerFields ==
    /\ DOMAIN Resting = {"step", "pass", "snapshot", "planned", "inode", "at", "newline",
                         "hash", "state", "plan", "invalid", "damaged", "protected",
                         "report", "status"}
    /\ Resting.state = StartState /\ Resting.step = "idle" /\ Resting.pass = "full"
    /\ Resting.report = NoReport /\ Resting.plan = None
BY DEF Resting

\* A stamp of the file is one.
LEMMA StampNow ==
    ASSUME Inv
    PROVE  Stamped(Stamp)
<1>1. /\ path \in Inodes /\ disk[path].mtime \in Nat /\ IsSeq(disk[path].text.lines)
  BY Files DEF Inv
<1>2. Begins(disk[path].text.lines, disk[path].text.lines)
  BY <1>1, BeginsItself
<1>3. Stamp.inode = path /\ Stamp.mtime = disk[path].mtime /\ Stamp.text = disk[path].text
  BY DEF Stamp, Current
<1> QED
  BY <1>1, <1>2, <1>3 DEF Stamped, StampOK

\* An acquisition has ended well, or without a claim to be complete.
LEMMA DoneInv ==
    ASSUME NEW q, Stamped(q.snapshot), q.status = "complete" => Answers(q)
    PROVE  AcquirerInv(Done(q))
<1> DEFINE r == Done(q)
<1>1. /\ DOMAIN r = DOMAIN Resting /\ r.step = "done" /\ r.state = StartState
      /\ r.snapshot = q.snapshot /\ r.hash = q.hash /\ r.report = q.report
      /\ r.status = q.status
  BY AcquirerFields DEF Done
<1> HIDE DEF r
<1>2. StateOK(r.state)
  BY <1>1, StartOK
<1>3. r.status = "complete" => Answers(r)
  BY <1>1 DEF Answers, Read, Found
<1>4. AcquirerInv(r)
  BY <1>1, <1>2, <1>3 DEF AcquirerInv
<1> QED
  BY <1>4 DEF r

\* So has one that may still unlink the shard.
LEMMA EndingInv ==
    ASSUME NEW q, DOMAIN q = DOMAIN Resting, StateOK(q.state), Stamped(q.snapshot),
           q.status = "complete" => Answers(q)
    PROVE  AcquirerInv(Ending(q))
<1> DEFINE r == [q EXCEPT !.step = "save"]
<1>1. /\ DOMAIN r = DOMAIN Resting /\ r.step = "save" /\ r.state = q.state
      /\ r.snapshot = q.snapshot /\ r.hash = q.hash /\ r.report = q.report
      /\ r.status = q.status
  BY AcquirerFields
<1>2. Ending(q) = r \/ Ending(q) = Done(q)
  BY DEF Ending
<1> HIDE DEF r
<1>3. r.status = "complete" => Answers(r)
  BY <1>1 DEF Answers, Read, Found
<1>4. AcquirerInv(r)
  BY <1>1, <1>3 DEF AcquirerInv
<1>5. AcquirerInv(Done(q))
  BY DoneInv
<1> QED
  BY <1>2, <1>4, <1>5

\* An acquisition that could not read says so.
LEMMA UnavailableInv ==
    ASSUME NEW q, DOMAIN q = DOMAIN Resting, StateOK(q.state), Stamped(q.snapshot)
    PROVE  AcquirerInv(Unavailable(q))
<1> DEFINE r == [q EXCEPT !.status = "unavailable", !.report = NoReport, !.invalid = FALSE]
<1>1. /\ DOMAIN r = DOMAIN Resting /\ r.state = q.state /\ r.snapshot = q.snapshot
      /\ r.status # "complete"
  BY AcquirerFields
<1> HIDE DEF r
<1>2. AcquirerInv(Ending(r))
  BY <1>1, EndingInv
<1> QED
  BY <1>2 DEF Unavailable, r

\* An acquisition that starts over knows nothing yet.
LEMMA FromStartInv ==
    ASSUME NEW q, DOMAIN q = DOMAIN Resting, StateOK(q.state), Stamped(q.snapshot)
    PROVE  AcquirerInv(FromStart(q))
<1> DEFINE r == FromStart(q)
<1>1. /\ DOMAIN r = DOMAIN Resting /\ r.step = "open" /\ r.pass = "full"
      /\ r.state = q.state /\ r.snapshot = q.snapshot
  BY AcquirerFields DEF FromStart
<1> HIDE DEF r
<1>2. AcquirerInv(r)
  BY <1>1 DEF AcquirerInv
<1> QED
  BY <1>2 DEF r

LEMMA RefoldedInv ==
    ASSUME Inv, NEW q, DOMAIN q = DOMAIN Resting, StateOK(q.state)
    PROVE  AcquirerInv(Refolded(q))
<1> DEFINE r == Refolded(q)
<1>1. /\ DOMAIN r = DOMAIN Resting /\ r.step = "open" /\ r.pass = "again"
      /\ r.state = q.state /\ r.snapshot = Stamp
  BY AcquirerFields DEF Refolded
<1> HIDE DEF r
<1>2. Stamped(r.snapshot)
  BY <1>1, StampNow
<1>3. AcquirerInv(r)
  BY <1>1, <1>2 DEF AcquirerInv
<1> QED
  BY <1>3 DEF r

\* The shard is as it was.
LEMMA ShardStays ==
    ASSUME Inv, shard' = shard
    PROVE  ShardInv'
BY DEF Inv, ShardInv, Sealed, SealedState

\* A sealed shard of the snapshot answers as it is.
LEMMA HitAnswers ==
    ASSUME Inv, NEW q, Stamped(q.snapshot), Sealed(q.planned),
           q.planned.stamp = q.snapshot, q.hash = q.planned.hash, q.report = NoReport
    PROVE  Joinable(q)
<1> DEFINE lines == q.snapshot.text.lines
           parse == FullParse(lines)
<1>1. /\ q.hash = lines /\ IsSeq(lines) /\ ~parse.interrupted
      /\ q.planned.records = parse.messages /\ q.planned.rejected = parse.rejected
  BY DEF Sealed, SealedState
<1>2. OnlyGrown => Begins(lines, disk[q.snapshot.inode].text.lines)
  BY DEF Stamped
<1>3. Found(q)
  BY <1>1, <1>2, BeginsItself DEF Found, Stamped, StampOK
<1>4. IsSeq(parse.messages) /\ parse.rejected \in Nat
  BY <1>1, ParseState, EndedWell DEF FullParse, StateOK
<1> HIDE DEF parse, lines
<1>5. parse.messages \o <<>> = parse.messages /\ parse.rejected + 0 = parse.rejected
  <2>1. PICK n \in Nat : n = parse.rejected
    BY <1>4
  <2>2. n + 0 = n
    OBVIOUS
  <2> QED
    BY <1>4, <2>1, <2>2, SeqConcat
<1>6. q.report.messages = <<>> /\ q.report.rejected = 0
  BY DEF NoReport
<1>7. /\ FullParse(q.hash) = parse /\ q.planned.records \o q.report.messages = parse.messages
      /\ q.planned.rejected + q.report.rejected = parse.rejected
  BY <1>1, <1>5, <1>6, Zenon DEF parse
<1> QED
  BY <1>1, <1>3, <1>7 DEF Joinable, Read, lines, parse

\* A shard as it was when its header was read.
LEMMA PlanStep ==
    ASSUME Inv, NEW a \in Acquirers, Begin(a) \/ Plan(a)
    PROVE  Inv'
<1> DEFINE q == acquirer[a]
<1>1. AcquirerInv(q) /\ DOMAIN q = DOMAIN Resting /\ StateOK(q.state)
  BY DEF Inv, AcquirerInv
<1>2. UNCHANGED World /\ shard' = shard
  BY DEF Begin, Plan
<1>3. ShardInv'
  BY <1>2, ShardStays
<1>4. CASE Begin(a)
  <2> DEFINE r == [Resting EXCEPT !.step = "plan", !.snapshot = Stamp]
  <2>1. /\ DOMAIN r = DOMAIN Resting /\ r.step = "plan" /\ r.state = StartState
        /\ r.snapshot = Stamp /\ r.pass = "full" /\ r.report = NoReport /\ r.plan = None
    BY AcquirerFields
  <2>2. Set(a, r)
    BY <1>4 DEF Begin
  <2> HIDE DEF r
  <2>3. AcquirerInv(r)
    BY <2>1, StartOK, StampNow DEF AcquirerInv
  <2> QED
    BY <1>2, <1>3, <2>2, <2>3, SetKeeps
<1>5. CASE Plan(a)
  <2>1. /\ q.step = "plan" /\ Stamped(q.snapshot) /\ q.report = NoReport /\ q.plan = None
    BY <1>1, <1>5 DEF Plan, At, AcquirerInv
  <2> DEFINE hit == [q EXCEPT !.step = "take", !.pass = "hit", !.planned = shard,
                              !.hash = shard.hash]
             append == [q EXCEPT !.step = "open", !.pass = "append", !.planned = shard]
  <2>2. CASE Exact(q) /\ Set(a, hit)
    <3>1. /\ DOMAIN hit = DOMAIN Resting /\ hit.step = "take" /\ hit.pass = "hit"
          /\ hit.planned = shard /\ hit.hash = shard.hash /\ hit.state = q.state
          /\ hit.snapshot = q.snapshot /\ hit.report = NoReport /\ hit.plan = None
      BY <1>1, <2>1, AcquirerFields
    <3> HIDE DEF hit
    <3>2. Sealed(shard) /\ shard.stamp = q.snapshot
      BY <2>2 DEF Inv, ShardInv, Exact
    <3>3. Joinable(hit)
      BY <2>1, <3>1, <3>2, HitAnswers
    <3>4. AcquirerInv(hit)
      BY <1>1, <2>1, <3>1, <3>2, <3>3 DEF AcquirerInv
    <3> QED
      BY <1>2, <1>3, <2>2, <3>4, SetKeeps
  <2>3. CASE Longer(q) /\ Set(a, append)
    <3>1. /\ DOMAIN append = DOMAIN Resting /\ append.step = "open"
          /\ append.planned = shard /\ append.state = q.state
          /\ append.snapshot = q.snapshot
      BY <1>1, AcquirerFields
    <3> HIDE DEF append
    <3>2. Sealed(shard)
      BY <2>3 DEF Inv, ShardInv, Longer
    <3>3. AcquirerInv(append)
      BY <1>1, <2>1, <3>1, <3>2 DEF AcquirerInv
    <3> QED
      BY <1>2, <1>3, <2>3, <3>3, SetKeeps
  <2>4. ASSUME NEW invalid, Set(a, [q EXCEPT !.step = "open", !.invalid = invalid])
        PROVE  Inv'
    <3> DEFINE r == [q EXCEPT !.step = "open", !.invalid = invalid]
    <3>1. /\ DOMAIN r = DOMAIN Resting /\ r.step = "open" /\ r.pass = q.pass
          /\ r.planned = q.planned /\ r.state = q.state /\ r.snapshot = q.snapshot
      BY <1>1, AcquirerFields
    <3>2. Set(a, r)
      BY <2>4
    <3> HIDE DEF r
    <3>3. r.pass # "append"
      BY <1>1, <2>1, <3>1 DEF AcquirerInv
    <3>4. AcquirerInv(r)
      BY <1>1, <2>1, <3>1, <3>3 DEF AcquirerInv
    <3> QED
      BY <1>2, <1>3, <3>2, <3>4, SetKeeps
  <2>5. \/ Exact(q) /\ Set(a, hit)
        \/ Longer(q) /\ Set(a, append)
        \/ \E invalid : Set(a, [q EXCEPT !.step = "open", !.invalid = invalid])
    <3>1. [q EXCEPT !.step = "open"] = [q EXCEPT !.step = "open", !.invalid = q.invalid]
      BY <1>1, AcquirerFields
    <3> QED
      BY <1>5, <3>1 DEF Plan
  <2> QED
    BY <2>2, <2>3, <2>4, <2>5
<1> QED
  BY <1>4, <1>5

\* Nothing has been read when the file has just been opened.
LEMMA OpenStep ==
    ASSUME Inv, NEW a \in Acquirers, Open(a)
    PROVE  Inv'
<1> DEFINE q == acquirer[a]
           step == IF q.pass = "append" THEN "verify" ELSE "read"
           r == [q EXCEPT !.inode = path, !.at = 0, !.hash = <<>>, !.newline = TRUE,
                          !.state = StartState, !.step = step]
<1>1. /\ AcquirerInv(q) /\ DOMAIN q = DOMAIN Resting /\ StateOK(q.state)
      /\ q.step = "open" /\ Stamped(q.snapshot)
      /\ q.pass = "append" => Sealed(q.planned)
  BY DEF Inv, AcquirerInv, Open, At
<1>2. UNCHANGED World /\ shard' = shard
  BY DEF Open
<1>3. ShardInv'
  BY <1>2, ShardStays
<1>4. Set(a, r) \/ Set(a, Unavailable(q))
  BY <1>1, AcquirerFields DEF Open
<1>5. CASE Set(a, r)
  <2>1. /\ DOMAIN r = DOMAIN Resting /\ r.step = step /\ r.pass = q.pass
        /\ r.planned = q.planned /\ r.state = StartState /\ r.snapshot = q.snapshot
        /\ r.inode = path /\ r.at = 0 /\ r.hash = <<>> /\ r.newline
    BY <1>1, AcquirerFields
  <2> HIDE DEF r
  <2>2. /\ path \in Inodes /\ Len(disk[path].text.lines) \in Nat
        /\ IsSeq(<<>>) /\ Len(<<>>) = 0
    BY Files, NoSeq DEF Inv
  <2>3. Begins(<<>>, disk[path].text.lines)
    BY <2>2 DEF Begins
  <2>4. Known(r)
    BY <2>1, <2>3 DEF Known
  <2>5. CASE q.pass = "append"
    <3>1. IsSeq(r.planned.hash)
      BY <1>1, <2>1, <2>5 DEF Sealed, SealedState
    <3>2. Len(r.planned.hash) \in Nat
      BY <3>1, SeqLength
    <3>3. Verified(r)
      BY <2>1, <2>2, <2>4, <3>2 DEF Verified, Begins
    <3> QED
      BY <1>1, <1>2, <1>3, <1>5, <2>1, <2>2, <2>5, <3>3, StartOK, SetKeeps DEF AcquirerInv
  <2>6. CASE q.pass # "append"
    <3>1. Scanned(r)
      BY <2>1, <2>2, <2>4, <2>6, ParseNothing DEF Scanned, Parsing
    <3> QED
      BY <1>1, <1>2, <1>3, <1>5, <2>1, <2>2, <2>6, <3>1, StartOK, SetKeeps DEF AcquirerInv
  <2> QED
    BY <2>5, <2>6
<1>6. CASE Set(a, Unavailable(q))
  BY <1>1, <1>2, <1>3, <1>6, UnavailableInv, SetKeeps
<1> QED
  BY <1>4, <1>5, <1>6

\* One more line of the prefix.
LEMMA OneMore ==
    ASSUME NEW x, IsSeq(x), NEW y, Len(y) \in Nat, Begins(x, y), Len(x) + 1 <= Len(y)
    PROVE  Begins(Append(x, y[Len(x) + 1]), y)
<1> DEFINE more == Append(x, y[Len(x) + 1])
<1>1. PICK n \in Nat : n = Len(x)
  BY SeqLength
<1>2. /\ Len(more) = n + 1 /\ more[n + 1] = y[n + 1]
      /\ \A i \in 1 .. n : more[i] = x[i]
  BY <1>1, SeqAppend
<1>3. \A i \in 1 .. n + 1 : i = n + 1 \/ i \in 1 .. n
  OBVIOUS
<1>4. n + 1 <= Len(y) /\ \A i \in 1 .. n : x[i] = y[i]
  BY <1>1 DEF Begins
<1> HIDE DEF more
<1>5. \A i \in 1 .. n + 1 : more[i] = y[i]
  BY <1>2, <1>3, <1>4
<1>6. Begins(more, y)
  BY <1>2, <1>4, <1>5 DEF Begins
<1> QED
  BY <1>6 DEF more

\* At the end of the prefix the checkpoint is the parse of what was read.
LEMMA PrefixRead ==
    ASSUME NEW q, Sealed(q.planned), IsSeq(q.hash), Begins(q.hash, q.planned.hash),
           Len(q.hash) + 1 > Len(q.planned.hash)
    PROVE  Leads(ParsedLines(q.hash), q.planned.state, q.planned.records, q.planned.rejected)
<1> DEFINE prefix == q.planned.hash
           parse == ParsedLines(prefix)
<1>1. /\ IsSeq(prefix) /\ ~Ended(parse).interrupted
      /\ q.planned.state = Checkpoint(Ended(parse))
      /\ q.planned.records = Ended(parse).messages
      /\ q.planned.rejected = Ended(parse).rejected
  BY DEF Sealed, SealedState, FullParse
<1> HIDE DEF prefix
<1>2. q.hash = prefix
  <2>1. PICK n \in Nat, m \in Nat : n = Len(q.hash) /\ m = Len(prefix)
    BY <1>1, SeqLength
  <2>2. n <= m /\ n + 1 > m /\ \A i \in 1 .. n : q.hash[i] = prefix[i]
    BY <2>1 DEF Begins, prefix
  <2>3. n = m
    BY <2>2
  <2> QED
    BY <1>1, <2>1, <2>2, <2>3, SeqEquality
<1>3. StateOK(parse)
  BY <1>1, ParseState
<1> HIDE DEF parse
<1>4. Ended(parse) = parse /\ parse.unmodelled = <<>>
  BY <1>1, <1>3, EndedWell
<1>5. Leads(parse, Checkpoint(parse), parse.messages, parse.rejected)
  BY <1>3, <1>4, CheckpointLeads
<1> QED
  BY <1>1, <1>2, <1>4, <1>5 DEF parse

\* The prefix is the text of the checkpoint, line by line.
LEMMA VerifyStep ==
    ASSUME Inv, NEW a \in Acquirers, VerifyPrefix(a)
    PROVE  Inv'
<1> DEFINE q == acquirer[a]
           prefix == q.planned.hash
           n == Len(q.hash) + 1
           text == disk[q.inode].text
           finished == [q EXCEPT !.step = "read", !.state = q.planned.state]
           further == [q EXCEPT !.hash = Append(@, text.lines[n]), !.at = @ + 3]
<1>1. /\ AcquirerInv(q) /\ DOMAIN q = DOMAIN Resting /\ StateOK(q.state)
      /\ q.step = "verify" /\ q.pass = "append" /\ Stamped(q.snapshot)
      /\ Sealed(q.planned) /\ Verified(q) /\ q.inode \in Inodes /\ q.at \in Nat
  BY DEF Inv, AcquirerInv, VerifyPrefix, At
<1>2. UNCHANGED World /\ shard' = shard
  BY DEF VerifyPrefix
<1>3. ShardInv'
  BY <1>2, ShardStays
<1>4. /\ IsSeq(q.hash) /\ IsSeq(prefix) /\ Len(q.hash) \in Nat /\ Len(prefix) \in Nat
      /\ Begins(q.hash, prefix) /\ q.at = 3 * Len(q.hash) /\ q.newline /\ Known(q)
  BY <1>1, SeqLength DEF Verified, Sealed, SealedState
<1>5. CASE n > Len(prefix) /\ Set(a, finished)
  <2>1. /\ DOMAIN finished = DOMAIN Resting /\ finished.step = "read"
        /\ finished.pass = q.pass /\ finished.state = q.planned.state
        /\ finished.planned = q.planned /\ finished.snapshot = q.snapshot
        /\ finished.inode = q.inode /\ finished.at = q.at /\ finished.hash = q.hash
        /\ finished.newline = q.newline
    BY <1>1, AcquirerFields
  <2> HIDE DEF finished
  <2>2. Leads(ParsedLines(q.hash), q.planned.state, q.planned.records, q.planned.rejected)
    BY <1>1, <1>4, <1>5, PrefixRead
  <2>3. Known(finished)
    BY <1>4, <2>1 DEF Known, Steady
  <2>4. Scanned(finished)
    BY <1>1, <1>4, <2>1, <2>2, <2>3 DEF Scanned, Parsing
  <2>5. StateOK(finished.state)
    BY <2>1, <2>2 DEF Leads
  <2>6. AcquirerInv(finished)
    BY <1>1, <2>1, <2>4, <2>5 DEF AcquirerInv
  <2> QED
    BY <1>2, <1>3, <1>5, <2>6, SetKeeps
<1>6. CASE n <= Len(prefix) /\ PrefixContinues(q) /\ Set(a, further)
  <2> DEFINE lines == text.lines
  <2>1. /\ DOMAIN further = DOMAIN Resting /\ further.step = "verify"
        /\ further.pass = q.pass /\ further.state = q.state
        /\ further.planned = q.planned /\ further.snapshot = q.snapshot
        /\ further.inode = q.inode /\ further.at = q.at + 3
        /\ further.hash = Append(q.hash, lines[n]) /\ further.newline = q.newline
    BY <1>1, AcquirerFields
  <2> HIDE DEF further
  <2>2. /\ IsSeq(lines) /\ Len(lines) \in Nat /\ text.tail \in Tails
        /\ text.tail # "whole" => Len(lines) # 0
    BY <1>1, Files DEF Inv
  <2>3. Size(text) >= q.at + 3 /\ lines[n] = prefix[n]
    BY <1>6 DEF PrefixContinues
  <2>4. n <= Len(lines)
    <3>1. PICK read \in Nat, len \in Nat, size \in Nat :
            read = Len(q.hash) /\ len = Len(lines) /\ size = Size(text)
      BY <1>4, <2>2, Sizes
    <3>2. size <= 3 * len
      BY <2>2, <3>1, Sizes DEF Tails
    <3>3. 3 * read + 3 <= size
      BY <1>4, <2>3, <3>1
    <3>4. read + 1 <= len
      BY <3>2, <3>3
    <3> QED
      BY <3>1, <3>4
  <2>5. Begins(further.hash, prefix)
    BY <1>4, <1>6, <2>1, <2>3, OneMore
  <2>6. Known(further)
    <3>1. Begins(q.hash, lines) => Begins(further.hash, lines)
      BY <1>4, <2>1, <2>2, <2>4, OneMore
    <3> QED
      BY <1>4, <2>1, <3>1 DEF Known, Steady
  <2>7. IsSeq(further.hash) /\ Len(further.hash) = n
    <3>1. PICK hash, line : hash = q.hash /\ line = lines[n]
      OBVIOUS
    <3>2. IsSeq(Append(hash, line)) /\ Len(Append(hash, line)) = Len(hash) + 1
      BY <1>4, <3>1, SeqAppend
    <3> QED
      BY <2>1, <3>1, <3>2
  <2>8. further.at = 3 * n /\ further.at \in Nat
    <3>1. PICK read \in Nat : read = Len(q.hash)
      BY <1>4
    <3>2. 3 * read + 3 = 3 * (read + 1)
      OBVIOUS
    <3> QED
      BY <1>4, <2>1, <3>1, <3>2
  <2>9. Verified(further)
    BY <1>4, <2>1, <2>5, <2>6, <2>7, <2>8 DEF Verified
  <2>10. AcquirerInv(further)
    BY <1>1, <2>1, <2>8, <2>9 DEF AcquirerInv
  <2> QED
    BY <1>2, <1>3, <1>6, <2>10, SetKeeps
<1>7. CASE Set(a, FromStart(q)) \/ Set(a, Unavailable(q))
  BY <1>1, <1>2, <1>3, <1>7, FromStartInv, UnavailableInv, SetKeeps
<1> QED
  BY <1>5, <1>6, <1>7 DEF VerifyPrefix

\* At the end of the file all that was there at the snapshot has been read.
LEMMA EndIsWhole ==
    ASSUME Inv, NEW q, Stamped(q.snapshot), q.inode \in Inodes, Scanned(q),
           ~More(q.inode, q.at)
    PROVE  Whole(q)
<1> SUFFICES ASSUME OnlyGrown, q.inode = q.snapshot.inode
             PROVE  Begins(q.snapshot.text.lines, q.hash)
  BY DEF Whole
<1> DEFINE text == disk[q.inode].text
           lines == text.lines
<1>1. /\ IsSeq(lines) /\ Len(lines) \in Nat /\ text.tail \in Tails
      /\ text.tail # "whole" => Len(lines) # 0
  BY Files DEF Inv
<1>2. IsSeq(q.hash) /\ Begins(q.hash, lines)
  BY DEF Scanned, Known
<1>3. PICK n \in Nat, len \in Nat, size \in Nat :
        n = Len(q.hash) /\ len = Len(lines) /\ size = Size(text)
  BY <1>1, <1>2, SeqLength, Sizes
<1>4. size >= 3 * len - 2
  BY <1>1, <1>3, Sizes DEF Tails
<1>5. q.at \in {3 * n, 3 * n - 1}
  BY <1>3 DEF Scanned
<1>6. size <= 3 * n
  BY <1>3, <1>5 DEF More
<1>7. n <= len /\ \A i \in 1 .. n : q.hash[i] = lines[i]
  BY <1>2, <1>3 DEF Begins
<1>8. n = len
  BY <1>4, <1>6, <1>7
<1>9. q.hash = lines
  BY <1>1, <1>2, <1>3, <1>7, <1>8, SeqEquality
<1> QED
  BY <1>9 DEF Stamped

\* What the next turn of the loop reads.
LEMMA NextLine ==
    ASSUME NEW i, NEW at \in Nat, More(i, at),
           Len(disk[i].text.lines) \in Nat, disk[i].text.tail \in Tails,
           disk[i].text.tail # "whole" => Len(disk[i].text.lines) # 0
    PROVE  LET lines == disk[i].text.lines
               next == ReadLine(i, at, Plain("malformed"), Plain("blank"))
           IN  /\ next.at \in Nat
               /\ \A n \in Nat : at = 3 * n =>
                    /\ at % 3 = 0 /\ n + 1 <= Len(lines)
                    /\ next.line = lines[n + 1] \/ next.line = Plain("malformed")
                    /\ \/ next.at = 3 * (n + 1) /\ next.newline
                       \/ next.at = 3 * (n + 1) - 1 /\ ~next.newline
                       \/ next.line = Plain("malformed")
               /\ \A n \in Nat : at = 3 * (n + 1) - 1 =>
                    /\ at % 3 # 0 /\ next.line = Plain("blank")
                    /\ next.at = 3 * (n + 1) /\ next.newline
<1> DEFINE text == disk[i].text
           next == ReadLine(i, at, Plain("malformed"), Plain("blank"))
<1>1. /\ next.at \in Nat
      /\ \A n \in Nat : at = 3 * n =>
           /\ at % 3 = 0 /\ n + 1 <= Len(text.lines)
           /\ next.line = text.lines[n + 1] \/ next.line = Plain("malformed")
           /\ \/ next.at = 3 * (n + 1) /\ next.newline
                 /\ 3 * (n + 1) <= Size(text)
              \/ /\ next.at = 3 * (n + 1) - 1 /\ ~next.newline
                 /\ n + 1 = Len(text.lines) /\ text.tail = "open"
              \/ next.line = Plain("malformed")
      /\ \A n \in Nat : at = 3 * (n + 1) - 1 =>
           /\ at % 3 # 0 /\ next.line = Plain("blank")
           /\ next.at = 3 * (n + 1) /\ next.newline
  BY ReadNext
<1> HIDE DEF next, text
<1>2. /\ next.at \in Nat
      /\ \A n \in Nat : at = 3 * n =>
           /\ at % 3 = 0 /\ n + 1 <= Len(text.lines)
           /\ next.line = text.lines[n + 1] \/ next.line = Plain("malformed")
           /\ \/ next.at = 3 * (n + 1) /\ next.newline
              \/ next.at = 3 * (n + 1) - 1 /\ ~next.newline
              \/ next.line = Plain("malformed")
      /\ \A n \in Nat : at = 3 * (n + 1) - 1 =>
           /\ at % 3 # 0 /\ next.line = Plain("blank")
           /\ next.at = 3 * (n + 1) /\ next.newline
  BY <1>1
<1> QED
  BY <1>2 DEF next, text

\* The next line is parsed after those that were read.
LEMMA ParseStep ==
    ASSUME Inv, NEW a \in Acquirers, ParseLine(a)
    PROVE  Inv'
<1> DEFINE q == acquirer[a]
           text == disk[q.inode].text
           malformed == Plain("malformed")
           blank == Plain("blank")
           next == ReadLine(q.inode, q.at, malformed, blank)
           parsed == ParsedLine(q.state, next.line)
           step == IF parsed.interrupted THEN "measure" ELSE "read"
           hash == IF q.at % 3 = 0 THEN Append(q.hash, next.line) ELSE q.hash
           ended == [q EXCEPT !.step = "measure", !.state = Ended(@)]
           further == [q EXCEPT !.step = step, !.state = parsed, !.at = next.at,
                                !.newline = next.newline, !.hash = hash]
           broken == [q EXCEPT !.step = "measure", !.state.interrupted = TRUE]
<1>1. /\ AcquirerInv(q) /\ DOMAIN q = DOMAIN Resting /\ StateOK(q.state)
      /\ q.step = "read" /\ Stamped(q.snapshot)
      /\ q.pass = "append" => Sealed(q.planned)
      /\ q.inode \in Inodes /\ q.at \in Nat
      /\ ~q.state.interrupted => Scanned(q)
  BY DEF Inv, AcquirerInv, ParseLine, At
<1>2. UNCHANGED World /\ shard' = shard
  BY DEF ParseLine
<1>3. ShardInv'
  BY <1>2, ShardStays
<1>4. \/ ~More(q.inode, q.at) /\ Set(a, ended)
      \/ More(q.inode, q.at) /\ Set(a, further)
      \/ Set(a, broken)
  <2>1. further = [q EXCEPT !.step = step, !.state = parsed, !.at = next.at,
                            !.newline = next.newline,
                            !.hash = IF q.at % 3 = 0 THEN Append(@, next.line) ELSE @]
    BY <1>1, AcquirerFields
  <2> QED
    BY <2>1 DEF ParseLine
<1>5. CASE ~More(q.inode, q.at) /\ Set(a, ended)
  <2>1. /\ DOMAIN ended = DOMAIN Resting /\ ended.step = "measure" /\ ended.pass = q.pass
        /\ ended.state = Ended(q.state) /\ ended.planned = q.planned
        /\ ended.snapshot = q.snapshot /\ ended.inode = q.inode /\ ended.at = q.at
        /\ ended.hash = q.hash /\ ended.newline = q.newline
    BY <1>1, AcquirerFields
  <2> HIDE DEF ended
  <2>2. /\ StateOK(ended.state)
        /\ ~ended.state.interrupted => /\ ended.state = q.state /\ ~q.state.interrupted
                                       /\ ended.state.unmodelled = <<>>
    BY <1>1, <2>1, EndedWell
  <2>3. ASSUME ~ended.state.interrupted
        PROVE  Scanned(ended) /\ Whole(ended)
    <3>1. Scanned(q) /\ Whole(q)
      BY <1>1, <1>5, <2>2, <2>3, EndIsWhole
    <3> QED
      BY <2>1, <2>2, <2>3, <3>1 DEF Scanned, Whole, Known, Steady, Parsing
  <2>4. AcquirerInv(ended)
    BY <1>1, <2>1, <2>2, <2>3 DEF AcquirerInv
  <2> QED
    BY <1>2, <1>3, <1>5, <2>4, SetKeeps
<1>6. CASE More(q.inode, q.at) /\ Set(a, further)
  <2> DEFINE lines == text.lines
  <2>1. /\ DOMAIN further = DOMAIN Resting /\ further.step = step /\ further.pass = q.pass
        /\ further.state = parsed /\ further.planned = q.planned
        /\ further.snapshot = q.snapshot /\ further.inode = q.inode
        /\ further.at = next.at /\ further.hash = hash /\ further.newline = next.newline
    BY <1>1, AcquirerFields
  <2> HIDE DEF further
  <2>2. /\ IsSeq(lines) /\ Len(lines) \in Nat /\ text.tail \in Tails
        /\ text.tail # "whole" => Len(lines) # 0
    BY <1>1, Files DEF Inv
  <2>3. /\ next.at \in Nat
        /\ \A n \in Nat : q.at = 3 * n =>
             /\ q.at % 3 = 0 /\ n + 1 <= Len(lines)
             /\ next.line = lines[n + 1] \/ next.line = malformed
             /\ \/ next.at = 3 * (n + 1) /\ next.newline
                \/ next.at = 3 * (n + 1) - 1 /\ ~next.newline
                \/ next.line = malformed
        /\ \A n \in Nat : q.at = 3 * (n + 1) - 1 =>
             /\ q.at % 3 # 0 /\ next.line = blank
             /\ next.at = 3 * (n + 1) /\ next.newline
    BY <1>1, <1>6, <2>2, NextLine
  <2> HIDE DEF next
  <2>4. malformed.kind = "malformed" /\ blank.kind = "blank"
    BY DEF Plain
  <2> HIDE DEF malformed, blank
  <2>5. /\ StateOK(parsed) /\ (q.state.interrupted => parsed.interrupted)
        /\ next.line = malformed => parsed.interrupted
        /\ next.line = blank => parsed = q.state
    BY <1>1, <2>4, LineState
  <2>6. ASSUME ~parsed.interrupted
        PROVE  Scanned(further)
    <3>1. /\ Scanned(q) /\ IsSeq(q.hash) /\ Known(q) /\ Parsing(q)
          /\ next.line # malformed
      BY <1>1, <2>5, <2>6 DEF Scanned
    <3>2. PICK n \in Nat : n = Len(q.hash)
      BY <3>1, SeqLength
    <3>3. \/ q.at = 3 * n /\ q.newline
          \/ q.at = 3 * n - 1 /\ n # 0 /\ ~q.newline
      BY <3>1, <3>2 DEF Scanned
    <3>4. CASE q.at = 3 * n
      <4>1. /\ hash = Append(q.hash, lines[n + 1]) /\ n + 1 <= Len(lines)
            /\ next.line = lines[n + 1]
            /\ \/ next.at = 3 * (n + 1) /\ next.newline
               \/ next.at = 3 * (n + 1) - 1 /\ ~next.newline
        BY <2>3, <3>1, <3>4
      <4>2. IsSeq(further.hash) /\ Len(further.hash) = n + 1
        <5>1. PICK read, line : read = q.hash /\ line = lines[n + 1]
          OBVIOUS
        <5>2. IsSeq(Append(read, line)) /\ Len(Append(read, line)) = Len(read) + 1
          BY <3>1, <5>1, SeqAppend
        <5> QED
          BY <2>1, <3>2, <4>1, <5>1, <5>2
      <4>3. Known(further)
        <5>1. Begins(q.hash, lines) => Begins(further.hash, lines)
          BY <2>1, <2>2, <3>1, <3>2, <4>1, OneMore
        <5> QED
          BY <2>1, <3>1, <5>1 DEF Known, Steady
      <4>4. ParsedLines(further.hash) = ParsedLine(ParsedLines(q.hash), next.line)
        <5>1. PICK read, line : read = q.hash /\ line = lines[n + 1]
          OBVIOUS
        <5>2. ParsedLines(Append(read, line)) = ParsedLine(ParsedLines(read), line)
          BY <3>1, <5>1, ParseNext
        <5> QED
          BY <2>1, <4>1, <5>1, <5>2
      <4>5. Parsing(further)
        <5>1. CASE q.pass = "append"
          <6>1. Leads(ParsedLines(q.hash), q.state, q.planned.records, q.planned.rejected)
            BY <3>1, <5>1 DEF Parsing
          <6>2. Leads(ParsedLine(ParsedLines(q.hash), next.line), parsed,
                      q.planned.records, q.planned.rejected)
            BY <6>1, LeadsLine
          <6> QED
            BY <2>1, <4>4, <5>1, <6>2 DEF Parsing
        <5>2. CASE q.pass # "append"
          BY <2>1, <3>1, <4>4, <5>2 DEF Parsing
        <5> QED
          BY <5>1, <5>2
      <4>6. \/ further.at = 3 * Len(further.hash) /\ further.newline
            \/ /\ further.at = 3 * Len(further.hash) - 1 /\ Len(further.hash) # 0
               /\ ~further.newline
        <5>1. n + 1 # 0
          OBVIOUS
        <5>2. CASE next.at = 3 * (n + 1) /\ next.newline
          BY <2>1, <4>2, <5>2, Zenon
        <5>3. CASE next.at = 3 * (n + 1) - 1 /\ ~next.newline
          BY <2>1, <4>2, <5>1, <5>3, Zenon
        <5> QED
          BY <4>1, <5>2, <5>3
      <4> QED
        BY <4>2, <4>3, <4>5, <4>6 DEF Scanned
    <3>5. CASE q.at = 3 * n - 1 /\ n # 0
      <4>1. PICK m \in Nat : n = m + 1
        <5>1. n - 1 \in Nat /\ n = (n - 1) + 1
          BY <3>5
        <5> QED
          BY <5>1
      <4>2. /\ hash = q.hash /\ next.at = 3 * n /\ next.newline /\ parsed = q.state
        BY <2>3, <2>5, <3>5, <4>1
      <4>3. Known(further) /\ Parsing(further)
        BY <2>1, <3>1, <4>2 DEF Known, Steady, Parsing
      <4>4. /\ IsSeq(further.hash) /\ Len(further.hash) = n
            /\ further.at = 3 * n /\ further.newline
        BY <2>1, <3>1, <3>2, <4>2
      <4>5. further.at = 3 * Len(further.hash)
        BY <4>4
      <4> QED
        BY <4>3, <4>4, <4>5 DEF Scanned
    <3> QED
      BY <3>3, <3>4, <3>5
  <2>7. AcquirerInv(further)
    BY <1>1, <2>1, <2>3, <2>5, <2>6 DEF AcquirerInv
  <2> QED
    BY <1>2, <1>3, <1>6, <2>7, SetKeeps
<1>7. CASE Set(a, broken)
  <2> DEFINE state == [q.state EXCEPT !.interrupted = TRUE]
  <2>1. /\ DOMAIN broken = DOMAIN Resting /\ broken.step = "measure"
        /\ broken.pass = q.pass /\ broken.state = state /\ broken.planned = q.planned
        /\ broken.snapshot = q.snapshot /\ broken.inode = q.inode /\ broken.at = q.at
    BY <1>1, AcquirerFields
  <2>2. StateOK(state) /\ state.interrupted
    BY <1>1, Fields DEF StateOK
  <2> HIDE DEF broken, state
  <2>3. AcquirerInv(broken)
    BY <1>1, <2>1, <2>2 DEF AcquirerInv
  <2> QED
    BY <1>2, <1>3, <1>7, <2>3, SetKeeps
<1> QED
  BY <1>4, <1>5, <1>6, <1>7

\* What a parse that did not break off has read is a beginning of the file, and its
\* state is the full parse of it, but for what a checkpoint stands for.
LEMMA ReadWell ==
    ASSUME NEW q, q.inode \in Inodes, Scanned(q), Whole(q),
           StateOK(q.state), ~q.state.interrupted, q.state.unmodelled = <<>>
    PROVE  LET parse == FullParse(q.hash)
           IN  /\ Read(q) /\ StateOK(parse)
               /\ q.pass = "append" =>
                    Leads(parse, q.state, q.planned.records, q.planned.rejected)
               /\ q.pass # "append" => parse = q.state
<1> DEFINE parse == ParsedLines(q.hash)
<1>1. IsSeq(q.hash) /\ Known(q) /\ Parsing(q)
  BY DEF Scanned
<1>2. StateOK(parse)
  BY <1>1, ParseState
<1>3. /\ q.pass = "append" =>
           Leads(parse, q.state, q.planned.records, q.planned.rejected)
      /\ q.pass # "append" => parse = q.state
  BY <1>1 DEF Parsing
<1> HIDE DEF parse
<1>4. ~parse.interrupted /\ parse.unmodelled = <<>>
  BY <1>3, SameFields
<1>5. Ended(parse) = parse
  BY <1>2, <1>4, EndedWell
<1>6. FullParse(q.hash) = parse
  BY <1>5 DEF FullParse, parse
<1>7. Found(q)
  BY <1>1 DEF Known, Whole, Found
<1> QED
  BY <1>1, <1>2, <1>3, <1>4, <1>6, <1>7 DEF Read

\* A shard is planned only for a file that has not changed and was read to its end.
LEMMA CacheableSeals ==
    ASSUME Inv, NEW q, q.inode \in Inodes, Scanned(q), Whole(q),
           StateOK(q.state), ~q.state.interrupted, q.state.unmodelled = <<>>, Cacheable(q)
    PROVE  /\ SealedState(NewShard(q))
           /\ q.pass # "append" => Sealed(NewShard(q))
<1> DEFINE parse == FullParse(q.hash)
           text == disk[q.inode].text
           sh == NewShard(q)
<1>1. /\ Read(q) /\ StateOK(parse) /\ ~parse.interrupted /\ IsSeq(q.hash)
      /\ q.pass = "append" => Leads(parse, q.state, q.planned.records, q.planned.rejected)
      /\ q.pass # "append" => parse = q.state
  BY ReadWell DEF Read
<1> HIDE DEF parse
<1>2. /\ q.snapshot.text = text /\ q.snapshot.mtime = disk[q.inode].mtime
      /\ q.snapshot.inode = q.inode
      /\ q.at = Size(text) /\ q.newline
  BY DEF Cacheable, Stamp, Current
<1>3. q.at = 3 * Len(q.hash) /\ Begins(q.hash, text.lines)
  BY <1>2 DEF Scanned, Known, Steady
<1>4. /\ IsSeq(text.lines) /\ Len(text.lines) \in Nat /\ text.tail \in Tails
      /\ text.tail # "whole" => Len(text.lines) # 0
  BY Files DEF Inv
<1>5. PICK n \in Nat, len \in Nat, size \in Nat :
        n = Len(q.hash) /\ len = Len(text.lines) /\ size = Size(text)
  BY <1>1, <1>4, SeqLength, Sizes
<1>6. /\ text.tail = "whole" => size = 3 * len
      /\ text.tail = "open" => size = 3 * len - 1
      /\ text.tail = "half" => size = 3 * len - 2
  BY <1>4, <1>5, Sizes
<1>7. size = 3 * n
  BY <1>2, <1>3, <1>5
<1>8. text.tail = "whole" /\ n = len
  BY <1>4, <1>6, <1>7 DEF Tails
<1>9. q.hash = text.lines
  BY <1>1, <1>3, <1>4, <1>5, <1>8, SeqEquality DEF Begins
<1>10. Checkpoint(q.state) = Checkpoint(parse)
  BY <1>1, SameCheckpoint
<1>11. /\ sh.stamp = q.snapshot /\ sh.hash = q.hash /\ sh.state = Checkpoint(q.state)
       /\ sh.records = q.state.messages /\ sh.rejected = q.state.rejected
  BY DEF NewShard
<1> HIDE DEF sh, text
<1>12. FullParse(sh.stamp.text.lines) = parse
  BY <1>2, <1>9, <1>11 DEF parse
<1>13. SealedState(sh)
  BY <1>1, <1>2, <1>4, <1>8, <1>9, <1>10, <1>11, <1>12 DEF SealedState
<1>14. q.pass # "append" => Sealed(sh)
  BY <1>1, <1>11, <1>12, <1>13 DEF Sealed
<1> QED
  BY <1>13, <1>14 DEF sh

\* The metadata is measured, and the records of a full parse are reported.
LEMMA MeasureStep ==
    ASSUME Inv, NEW a \in Acquirers, Measure(a)
    PROVE  Inv'
<1> DEFINE q == acquirer[a]
<1>1. /\ AcquirerInv(q) /\ DOMAIN q = DOMAIN Resting /\ StateOK(q.state)
      /\ q.step = "measure" /\ Stamped(q.snapshot) /\ q.inode \in Inodes
      /\ q.pass = "append" => Sealed(q.planned)
      /\ ~q.state.interrupted => /\ Scanned(q) /\ Whole(q) /\ q.state.unmodelled = <<>>
  BY DEF Inv, AcquirerInv, Measure, At
<1>2. UNCHANGED World /\ shard' = shard
  BY DEF Measure
<1>3. ShardInv'
  BY <1>2, ShardStays
<1>4. ASSUME NEW plan
      PROVE  LET r == Parsed(q, plan)
             IN  /\ DOMAIN r = DOMAIN Resting /\ r.state = q.state /\ r.snapshot = q.snapshot
                 /\ r.planned = q.planned /\ r.pass = q.pass /\ r.hash = q.hash
                 /\ r.step = IF q.pass = "append" THEN "take" ELSE "write"
                 /\ r.status = IF q.state.interrupted THEN "partial" ELSE "complete"
                 /\ r.report = [messages |-> q.state.messages, rejected |-> q.state.rejected]
                 /\ r.plan = plan
  BY <1>1, AcquirerFields DEF Parsed
<1>5. CASE q.state.interrupted /\ Set(a, Parsed(q, None))
  <2> DEFINE r == Parsed(q, None)
  <2>1. /\ DOMAIN r = DOMAIN Resting /\ r.state = q.state /\ r.snapshot = q.snapshot
        /\ r.planned = q.planned /\ r.pass = q.pass
        /\ r.step = IF q.pass = "append" THEN "take" ELSE "write"
        /\ r.status = "partial" /\ r.plan = None
    BY <1>4, <1>5
  <2> HIDE DEF r
  <2>2. AcquirerInv(r)
    BY <1>1, <2>1 DEF AcquirerInv
  <2>3. Set(a, r)
    BY <1>5 DEF r
  <2> QED
    BY <1>2, <1>3, <2>2, <2>3, SetKeeps
<1>6. ASSUME NEW plan, ~q.state.interrupted, Set(a, Parsed(q, plan)),
             \/ plan = None /\ q.pass # "append"
             \/ plan = NewShard(q) /\ Cacheable(q)
      PROVE  Inv'
  <2> DEFINE r == Parsed(q, plan)
             parse == FullParse(q.hash)
  <2>1. /\ DOMAIN r = DOMAIN Resting /\ r.state = q.state /\ r.snapshot = q.snapshot
        /\ r.planned = q.planned /\ r.pass = q.pass /\ r.hash = q.hash
        /\ r.step = IF q.pass = "append" THEN "take" ELSE "write"
        /\ r.status = "complete" /\ r.plan = plan
        /\ r.report = [messages |-> q.state.messages, rejected |-> q.state.rejected]
    BY <1>4, <1>6
  <2>2. Set(a, r)
    BY <1>6
  <2> HIDE DEF r
  <2>3. /\ Read(q)
        /\ q.pass = "append" => Leads(parse, q.state, q.planned.records, q.planned.rejected)
        /\ q.pass # "append" => parse = q.state
    BY <1>1, <1>6, ReadWell
  <2>4. plan # None => /\ SealedState(plan)
                       /\ q.pass # "append" => Sealed(plan)
    BY <1>1, <1>6, CacheableSeals
  <2>5. Read(r)
    BY <2>1, <2>3 DEF Read, Found
  <2>6. CASE q.pass = "append"
    <3>1. parse.messages = q.planned.records \o q.state.messages
          /\ parse.rejected = q.planned.rejected + q.state.rejected
      BY <2>3, <2>6 DEF Leads
    <3>2. Joinable(r)
      <4>1. /\ r.report.messages = q.state.messages /\ r.report.rejected = q.state.rejected
            /\ FullParse(r.hash) = parse
        BY <2>1
      <4> HIDE DEF parse
      <4> QED
        BY <2>1, <2>5, <3>1, <4>1, Zenon DEF Joinable
    <3>3. plan = NewShard(r)
      BY <1>6, <2>1, <2>6 DEF NewShard
    <3>4. AcquirerInv(r)
      BY <1>1, <2>1, <2>4, <2>6, <3>2, <3>3 DEF AcquirerInv
    <3> QED
      BY <1>2, <1>3, <2>2, <3>4, SetKeeps
  <2>7. CASE q.pass # "append"
    <3>1. Answers(r)
      BY <2>1, <2>3, <2>5, <2>7 DEF Answers
    <3>2. AcquirerInv(r)
      BY <1>1, <2>1, <2>4, <2>7, <3>1 DEF AcquirerInv
    <3> QED
      BY <1>2, <1>3, <2>2, <3>2, SetKeeps
  <2> QED
    BY <2>6, <2>7
<1>7. CASE Set(a, FromStart(q)) \/ Set(a, Unavailable(q))
  BY <1>1, <1>2, <1>3, <1>7, FromStartInv, UnavailableInv, SetKeeps
<1>8. \/ q.state.interrupted /\ Set(a, Parsed(q, None))
      \/ ~q.state.interrupted /\ Cacheable(q) /\ Set(a, Parsed(q, NewShard(q)))
      \/ ~q.state.interrupted /\ q.pass # "append" /\ Set(a, Parsed(q, None))
      \/ Set(a, FromStart(q)) \/ Set(a, Unavailable(q))
  BY DEF Measure
<1> QED
  BY <1>5, <1>6, <1>7, <1>8

\* The records belong to the header that was planned with: a shard of the same stamp
\* has the same records, whoever wrote it.
LEMMA TakeStep ==
    ASSUME Inv, NEW a \in Acquirers, TakeRecords(a)
    PROVE  Inv'
<1> DEFINE q == acquirer[a]
           joined == Joined(q)
           completed == Completed(q)
           taken == [q EXCEPT !.step = "write", !.report = joined, !.plan = completed]
<1>1. /\ AcquirerInv(q) /\ DOMAIN q = DOMAIN Resting /\ StateOK(q.state)
      /\ q.step = "take" /\ Stamped(q.snapshot) /\ Sealed(q.planned)
      /\ q.pass = "append" \/ q.report = NoReport
      /\ q.status = "complete" => Joinable(q)
      /\ q.plan # None => /\ q.status = "complete" /\ SealedState(q.plan)
                          /\ q.plan = NewShard(q)
  BY DEF Inv, AcquirerInv, TakeRecords, At
<1>2. UNCHANGED World /\ shard' = shard
  BY DEF TakeRecords
<1>3. ShardInv'
  BY <1>2, ShardStays
<1>4. CASE TakenOver(q) /\ Set(a, taken)
  <2>1. shard.records = q.planned.records
    <3>1. shard # None /\ shard.stamp = q.planned.stamp
      BY <1>4 DEF TakenOver
    <3>2. Sealed(shard)
      BY <3>1 DEF Inv, ShardInv
    <3> QED
      BY <1>1, <3>1, <3>2 DEF Sealed
  <2>2. joined = [messages |-> q.planned.records \o q.report.messages,
                  rejected |-> q.planned.rejected + q.report.rejected]
    <3>1. (IF q.pass = "append" THEN q.report.messages ELSE <<>>) = q.report.messages
      BY <1>1 DEF NoReport
    <3> QED
      BY <2>1, <3>1, Zenon DEF Joined
  <2>3. completed = IF q.plan = None THEN None
                    ELSE [q.plan EXCEPT !.records = joined.messages,
                                        !.rejected = joined.rejected]
    BY DEF Completed
  <2> HIDE DEF joined, completed
  <2>4. /\ DOMAIN taken = DOMAIN Resting /\ taken.step = "write" /\ taken.state = q.state
        /\ taken.snapshot = q.snapshot /\ taken.hash = q.hash /\ taken.status = q.status
        /\ taken.report = joined /\ taken.plan = completed
    BY <1>1, AcquirerFields
  <2> HIDE DEF taken
  <2>5. ASSUME q.status = "complete"
        PROVE  LET parse == FullParse(q.hash)
               IN  Read(q) /\ joined = [messages |-> parse.messages,
                                        rejected |-> parse.rejected]
    BY <1>1, <2>2, <2>5 DEF Joinable
  <2>6. taken.status = "complete" => Answers(taken)
    BY <2>4, <2>5 DEF Answers, Read, Found
  <2>7. ASSUME completed # None
        PROVE  Sealed(completed)
    <3> DEFINE plan == q.plan
               parse == FullParse(q.hash)
    <3>1. /\ plan # None /\ SealedState(plan) /\ plan = NewShard(q)
          /\ q.status = "complete"
      BY <1>1, <2>3, <2>7
    <3>2. /\ plan.hash = q.hash /\ DOMAIN plan = {"stamp", "hash", "state", "records", "rejected"}
      BY <3>1 DEF NewShard
    <3> HIDE DEF plan, parse
    <3>3. /\ completed.stamp = plan.stamp /\ completed.hash = plan.hash
          /\ completed.state = plan.state /\ completed.records = joined.messages
          /\ completed.rejected = joined.rejected
      BY <2>3, <3>1, <3>2 DEF plan
    <3>4. joined.messages = parse.messages /\ joined.rejected = parse.rejected
      BY <2>5, <3>1 DEF parse
    <3>5. FullParse(completed.stamp.text.lines) = parse
      BY <3>1, <3>2, <3>3 DEF SealedState, parse
    <3>6. SealedState(completed)
      BY <3>1, <3>3 DEF SealedState
    <3> QED
      BY <3>3, <3>4, <3>5, <3>6 DEF Sealed
  <2>8. AcquirerInv(taken)
    BY <1>1, <2>4, <2>6, <2>7 DEF AcquirerInv
  <2> QED
    BY <1>2, <1>3, <1>4, <2>8, SetKeeps
<1>5. ASSUME NEW r, DOMAIN r = DOMAIN Resting, r.state = q.state, Set(a, Refolded(r))
      PROVE  Inv'
  BY <1>1, <1>2, <1>3, <1>5, RefoldedInv, SetKeeps
<1>6. CASE \/ Set(a, Refolded([q EXCEPT !.protected = shard = None]))
           \/ Set(a, Refolded([q EXCEPT !.damaged = TRUE]))
  <2> DEFINE protected == [q EXCEPT !.protected = shard = None]
             damaged == [q EXCEPT !.damaged = TRUE]
  <2>1. /\ DOMAIN protected = DOMAIN Resting /\ protected.state = q.state
        /\ DOMAIN damaged = DOMAIN Resting /\ damaged.state = q.state
    BY <1>1, AcquirerFields
  <2> QED
    BY <1>5, <1>6, <2>1
<1> QED
  BY <1>4, <1>6 DEF TakeRecords

\* What is written is sealed, and what is answered is a full parse.
LEMMA WriteStep ==
    ASSUME Inv, NEW a \in Acquirers, WriteShard(a) \/ Unlink(a)
    PROVE  Inv'
<1> DEFINE q == acquirer[a]
<1>1. /\ AcquirerInv(q) /\ DOMAIN q = DOMAIN Resting /\ StateOK(q.state)
      /\ Stamped(q.snapshot) /\ (q.status = "complete" => Answers(q))
      /\ WriteShard(a) => (q.plan # None => Sealed(q.plan))
  BY DEF Inv, AcquirerInv, WriteShard, Unlink, At
<1>2. UNCHANGED World
  BY DEF WriteShard, Unlink
<1>3. AcquirerInv(Done(q)) /\ AcquirerInv(Ending(q))
  BY <1>1, DoneInv, EndingInv
<1>4. ShardInv'
  <2>1. \/ WriteShard(a) /\ q.plan # None /\ shard' = q.plan
        \/ shard' = shard \/ shard' = None
    BY DEF WriteShard, Unlink
  <2>2. CASE WriteShard(a) /\ q.plan # None /\ shard' = q.plan
    BY <1>1, <2>2 DEF ShardInv, Sealed, SealedState
  <2>3. CASE shard' = shard
    BY <2>3, ShardStays
  <2>4. CASE shard' = None
    BY <2>4 DEF ShardInv
  <2> QED
    BY <2>1, <2>2, <2>3, <2>4
<1>5. Set(a, Done(q)) \/ Set(a, Ending(q))
  BY DEF WriteShard, Unlink
<1> QED
  BY <1>2, <1>3, <1>4, <1>5, SetKeeps

-----------------------------------------------------------------------------
(* The theorems.                                                           *)

\* At the start there is an empty file and nothing has been read.
LEMMA InitInv ==
    ASSUME Init
    PROVE  Inv
<1> DEFINE new == [text |-> [lines |-> <<>>, tail |-> "whole"], mtime |-> 0]
           File == [text : [lines : Seq({}), tail : Tails], mtime : Nat]
<1>1. disk = <<new>> /\ path = 1 /\ rewrites = 0
  BY DEF Init, FileInit
<1>2. new \in File /\ new.text.tail = "whole"
  BY EmptySeq DEF Tails
<1> HIDE DEF new, File
<1>3. disk \in Seq(File) /\ DOMAIN disk = {1} /\ disk[1] = new /\ Len(disk) = 1
  BY <1>1, <1>2
<1>4. FileOK(Seq({}))
  BY <1>1, <1>2, <1>3 DEF FileOK, Inodes, File
<1>5. WorldOK
  BY <1>1, <1>3, <1>4 DEF WorldOK
<1>6. AcquirerInv(Resting)
  BY AcquirerFields, StartOK DEF AcquirerInv
<1>7. setting.acquirers \subseteq Acquirers
  BY CodexAssumption DEF Init
<1> QED
  BY <1>5, <1>6, <1>7 DEF Init, Inv, ShardInv

\* The invariant is inductive.
THEOREM Invariance == Spec => []Inv
<1>1. Inv /\ [Next]_vars => Inv'
  <2> SUFFICES ASSUME Inv, [Next]_vars PROVE Inv'
    OBVIOUS
  <2>1. CASE Change
    BY <2>1, ChangeStep
  <2>2. ASSUME NEW a \in setting.acquirers, AcquirerStep(a)
        PROVE  Inv'
    <3>1. a \in Acquirers
      BY DEF Inv
    <3> QED
      BY <2>2, <3>1, PlanStep, OpenStep, VerifyStep, ParseStep, MeasureStep, TakeStep,
         WriteStep DEF AcquirerStep
  <2>3. CASE UNCHANGED vars
    <3>1. UNCHANGED <<disk, path, rewrites, shard, acquirer, setting>>
      BY <2>3 DEF vars
    <3>2. ASSUME NEW a \in Acquirers
          PROVE  AcquirerInv(acquirer[a])'
      <4>1. PICK q : q = acquirer[a]
        OBVIOUS
      <4>2. AcquirerInv(q)
        BY <4>1 DEF Inv
      <4>3. AcquirerInv(q)' /\ acquirer'[a] = q
        BY <3>1, <4>1, <4>2, StillKeeps
      <4> QED
        BY <4>3
    <3>3. WorldOK' /\ ShardInv'
      BY <3>1, ShardStays DEF Inv, WorldOK, FileOK, Inodes
    <3> QED
      BY <3>1, <3>2, <3>3 DEF Inv
  <2> QED
    BY <2>1, <2>2, <2>3 DEF Next
<1> QED
  BY <1>1, InitInv, PTL DEF Spec

\* What is cached is what a full parse of the stamped text leaves, and its checkpoint
\* is the state of the parser there, however often the parse was resumed, whoever
\* wrote the shard and whatever the client did meanwhile (codex/mod.rs).
THEOREM SealedCheckpoints == Spec => []SealedCheckpoint
<1>1. Inv => SealedCheckpoint
  BY DEF Inv, ShardInv, Sealed, SealedState, SealedCheckpoint
<1> QED
  BY <1>1, Invariance, PTL

\* One sequence that begins another is a prefix of it.
LEMMA BeginsIsPrefix ==
    ASSUME NEW x, IsSeq(x), NEW y, IsSeq(y), Begins(x, y)
    PROVE  IsPrefix(x, y)
<1>1. PICK S : x \in Seq(S) /\ y \in Seq(S)
  BY Common
<1>2. PICK n \in Nat, m \in Nat : n = Len(x) /\ m = Len(y)
  BY <1>1, LenProperties
<1>3. n <= m /\ \A i \in 1 .. n : x[i] = y[i]
  BY <1>2 DEF Begins
<1>4. \A i \in 1 .. n : y[i] \in S
  BY <1>1, <1>2, <1>3, ElementOfSeq
<1>5. /\ SubSeq(y, 1, n) \in Seq(S) /\ Len(SubSeq(y, 1, n)) = n
      /\ \A i \in 1 .. n : SubSeq(y, 1, n)[i] = y[i]
  BY <1>1, <1>2, <1>3, <1>4, SubSeqProperties
<1>6. SubSeq(y, 1, n) = x
  BY <1>1, <1>2, <1>3, <1>5, SeqEqual
<1> QED
  BY <1>2, <1>3, <1>6 DEF IsPrefix

\* What calls itself complete is the full parse of the lines it was made from, which
\* begin a version of the file that has all that was there at the snapshot, unless
\* the file was overwritten (codex/mod.rs).
THEOREM CompleteReports == Spec => []CompleteIsFullParse
<1>1. ASSUME Inv PROVE CompleteIsFullParse
  <2> SUFFICES ASSUME NEW a \in Acquirers, At(a, "done"), acquirer[a].status = "complete"
               PROVE  LET q == acquirer[a]
                          parse == FullParse(q.hash)
                      IN  /\ q.report = [messages |-> parse.messages,
                                         rejected |-> parse.rejected]
                          /\ ~parse.interrupted
                          /\ rewrites = Len(disk) - 1 =>
                               \E i \in Inodes :
                                 /\ IsPrefix(q.hash, disk[i].text.lines)
                                 /\ i = q.snapshot.inode =>
                                      IsPrefix(q.snapshot.text.lines, q.hash)
    BY DEF CompleteIsFullParse
  <2> DEFINE q == acquirer[a]
  <2>1. Answers(q) /\ Read(q) /\ IsSeq(q.hash) /\ Found(q) /\ Stamped(q.snapshot)
    <3>1. AcquirerInv(q)
      BY <1>1 DEF Inv
    <3> QED
      BY <3>1 DEF AcquirerInv, At, Answers, Read
  <2>2. ASSUME OnlyGrown
        PROVE  \E i \in Inodes :
                 /\ IsPrefix(q.hash, disk[i].text.lines)
                 /\ i = q.snapshot.inode => IsPrefix(q.snapshot.text.lines, q.hash)
    <3>1. PICK i \in Inodes :
            /\ Begins(q.hash, disk[i].text.lines)
            /\ i = q.snapshot.inode => Begins(q.snapshot.text.lines, q.hash)
      BY <2>1, <2>2 DEF Found
    <3>2. IsSeq(disk[i].text.lines) /\ IsSeq(q.snapshot.text.lines)
      BY <1>1, <2>1, Files DEF Inv, Stamped
    <3>3. /\ IsPrefix(q.hash, disk[i].text.lines)
          /\ i = q.snapshot.inode => IsPrefix(q.snapshot.text.lines, q.hash)
      BY <2>1, <3>1, <3>2, BeginsIsPrefix
    <3> QED
      BY <3>3
  <2> QED
    BY <2>1, <2>2 DEF Answers, Read, OnlyGrown
<1> QED
  BY <1>1, Invariance, PTL
-----------------------------------------------------------------------------
(* How many elements of a sequence are in a set.                             *)

Number(seq, S) == Cardinality({n \in DOMAIN seq : seq[n] \in S})

\* A number, which is 0 if no element is in the set.
LEMMA NumberNat ==
    ASSUME NEW seq, IsSeq(seq), NEW S
    PROVE  /\ IsFiniteSet({n \in DOMAIN seq : seq[n] \in S}) /\ Number(seq, S) \in Nat
           /\ (Number(seq, S) = 0 <=> \A n \in DOMAIN seq : seq[n] \notin S)
<1>1. PICK m \in Nat : m = Len(seq) /\ DOMAIN seq = 1 .. m
  BY SeqLength
<1> DEFINE In == {n \in DOMAIN seq : seq[n] \in S}
<1>2. IsFiniteSet(1 .. m) /\ In \subseteq 1 .. m
  BY <1>1, FS_Interval
<1>3. IsFiniteSet(In)
  BY <1>2, FS_Subset
<1>4. Cardinality(In) \in Nat /\ (Cardinality(In) = 0 <=> In = {})
  BY <1>3, FS_CardinalityType, FS_EmptySet
<1> QED
  BY <1>3, <1>4 DEF Number

LEMMA NumberNone == \A S : Number(<<>>, S) = 0
<1> TAKE S
<1>1. {n \in DOMAIN <<>> : <<>>[n] \in S} = {}
  OBVIOUS
<1> QED
  BY <1>1, FS_EmptySet DEF Number

\* Two sequences whose elements are in the set at the same places.
LEMMA NumberSame ==
    ASSUME NEW x, NEW y, NEW S, DOMAIN x = DOMAIN y,
           \A n \in DOMAIN x : x[n] \in S <=> y[n] \in S
    PROVE  Number(x, S) = Number(y, S)
<1>1. {n \in DOMAIN x : x[n] \in S} = {n \in DOMAIN y : y[n] \in S}
  OBVIOUS
<1> QED
  BY <1>1 DEF Number

\* One more element, two sequences in a row, an element removed.
LEMMA NumberMore ==
    ASSUME NEW seq, IsSeq(seq), NEW e, NEW S
    PROVE  Number(Append(seq, e), S) = Number(seq, S) + (IF e \in S THEN 1 ELSE 0)
<1> DEFINE more == Append(seq, e)
           Old == {n \in DOMAIN seq : seq[n] \in S}
           New == {n \in DOMAIN more : more[n] \in S}
<1>1. PICK m \in Nat : m = Len(seq) /\ DOMAIN seq = 1 .. m
  BY SeqLength
<1>2. /\ IsSeq(more) /\ Len(more) = m + 1 /\ more[m + 1] = e
      /\ \A i \in 1 .. m : more[i] = seq[i]
  BY <1>1, SeqAppend
<1> HIDE DEF more
<1>3. DOMAIN more = 1 .. m + 1
  BY <1>2, SeqLength
<1>4. New = IF e \in S THEN Old \cup {m + 1} ELSE Old
  BY <1>1, <1>2, <1>3
<1>5. IsFiniteSet(Old) /\ m + 1 \notin Old
  <2>1. IsFiniteSet(Old)
    BY NumberNat
  <2>2. m + 1 \notin 1 .. m
    OBVIOUS
  <2> QED
    BY <1>1, <2>1, <2>2
<1>6. PICK k \in Nat : k = Cardinality(Old)
  BY <1>5, FS_CardinalityType
<1>7. Cardinality(Old \cup {m + 1}) = k + 1
  BY <1>5, <1>6, FS_AddElement
<1> HIDE DEF New, Old
<1>8. Cardinality(New) = k + (IF e \in S THEN 1 ELSE 0)
  <2>1. CASE e \in S
    BY <1>4, <1>7, <2>1
  <2>2. CASE e \notin S
    <3>1. New = Old
      BY <1>4, <2>2
    <3> QED
      BY <1>6, <2>2, <3>1
  <2> QED
    BY <2>1, <2>2
<1>9. Number(more, S) = Cardinality(New) /\ Number(seq, S) = Cardinality(Old)
  BY DEF Number, New, Old
<1> QED
  BY <1>6, <1>8, <1>9 DEF more

LEMMA NumberJoined ==
    ASSUME NEW x, IsSeq(x), NEW y, IsSeq(y), NEW S
    PROVE  Number(x \o y, S) = Number(x, S) + Number(y, S)
<1> DEFINE z == x \o y
           Within(q, k) == {n \in 1 .. k : q[n] \in S}
<1>1. PICK a \in Nat, b \in Nat : /\ a = Len(x) /\ b = Len(y)
                                  /\ DOMAIN x = 1 .. a /\ DOMAIN y = 1 .. b
  BY SeqLength
<1>2. IsSeq(z) /\ Len(z) = a + b
  BY <1>1, SeqConcat
<1>3. DOMAIN z = 1 .. a + b
  BY <1>2, SeqLength
<1>4. /\ \A n \in 1 .. a : z[n] = x[n]
      /\ \A n \in 1 .. b : z[a + n] = y[n]
  <2>1. PICK T : x \in Seq(T) /\ y \in Seq(T)
    BY Common
  <2>2. \A n \in 1 .. Len(x) + Len(y) :
          z[n] = IF n <= Len(x) THEN x[n] ELSE y[n - Len(x)]
    BY <2>1, ConcatProperties
  <2> HIDE DEF z
  <2>3. \A n \in 1 .. b : a + n \in 1 .. a + b /\ ~(a + n <= a) /\ (a + n) - a = n
    BY <1>1
  <2>4. \A n \in 1 .. a : n \in 1 .. a + b /\ n <= a
    BY <1>1
  <2> QED
    BY <1>1, <2>2, <2>3, <2>4
<1> HIDE DEF z
<1> DEFINE Joins(k) == Cardinality(Within(z, a + k)) = Cardinality(Within(x, a)) + Cardinality(Within(y, k))
           K == {k \in Nat : k <= b => Joins(k)}
<1>5. \A q : \A k \in Nat : IsFiniteSet(Within(q, k)) /\ Cardinality(Within(q, k)) \in Nat
  <2> TAKE q
  <2> TAKE k \in Nat
  <2>1. IsFiniteSet(1 .. k) /\ Within(q, k) \subseteq 1 .. k
    BY FS_Interval
  <2>2. IsFiniteSet(Within(q, k))
    BY <2>1, FS_Subset
  <2> QED
    BY <2>2, FS_CardinalityType
<1>6. 0 \in K
  <2>1. Within(z, a + 0) = Within(x, a) /\ Within(y, 0) = {}
    BY <1>4
  <2>2. PICK c \in Nat : c = Cardinality(Within(x, a))
    BY <1>5
  <2> HIDE DEF Within
  <2>3. c = c + Cardinality(Within(y, 0))
    BY <2>1, FS_EmptySet
  <2> QED
    BY <2>1, <2>2, <2>3
<1>7. ASSUME NEW k \in Nat, k \in K PROVE k + 1 \in K
  <2> SUFFICES ASSUME k + 1 <= b PROVE Joins(k + 1)
    OBVIOUS
  <2>1. Joins(k) /\ k + 1 \in 1 .. b
    BY <1>1, <1>7
  <2>2. z[a + (k + 1)] = y[k + 1]
    BY <1>4, <2>1
  <2>3. Within(y, k + 1) = IF y[k + 1] \in S THEN Within(y, k) \cup {k + 1} ELSE Within(y, k)
    OBVIOUS
  <2>4. Within(z, a + (k + 1)) = IF y[k + 1] \in S THEN Within(z, a + k) \cup {a + (k + 1)}
                              ELSE Within(z, a + k)
    BY <2>2
  <2>5. k + 1 \notin Within(y, k) /\ a + (k + 1) \notin Within(z, a + k)
    OBVIOUS
  <2>6. a + k \in Nat
    OBVIOUS
  <2>7. PICK cz \in Nat, cy \in Nat, cx \in Nat :
          cz = Cardinality(Within(z, a + k)) /\ cy = Cardinality(Within(y, k)) /\ cx = Cardinality(Within(x, a))
    BY <1>5, <2>6
  <2>8. Cardinality(Within(y, k) \cup {k + 1}) = cy + 1
    BY <1>5, <2>5, <2>7, FS_AddElement
  <2>9. Cardinality(Within(z, a + k) \cup {a + (k + 1)}) = cz + 1
    BY <1>5, <2>5, <2>6, <2>7, FS_AddElement
  <2>10. cz = cx + cy
    BY <2>1, <2>7
  <2> HIDE DEF Within
  <2> QED
    BY <2>3, <2>4, <2>7, <2>8, <2>9, <2>10
<1>8. Nat \subseteq K
  <2> HIDE DEF K
  <2> QED
    BY <1>6, <1>7, Induction
<1>9. Joins(b)
  BY <1>1, <1>8
<1> QED
  BY <1>1, <1>3, <1>9 DEF Number, z

LEMMA NumberRemoved ==
    ASSUME NEW seq, IsSeq(seq), NEW i \in DOMAIN seq, NEW S
    PROVE  /\ IsSeq(RemoveAt(seq, i))
           /\ Number(seq, S) = Number(RemoveAt(seq, i), S) + (IF seq[i] \in S THEN 1 ELSE 0)
<1> DEFINE a == SubSeq(seq, 1, i - 1)
           b == SubSeq(seq, i + 1, Len(seq))
           c == Append(a, seq[i])
<1>1. PICK T : seq \in Seq(T)
  BY DEF IsSeq
<1>2. PICK m \in Nat : m = Len(seq) /\ DOMAIN seq = 1 .. m
  BY SeqLength
<1>3. i \in 1 .. m
  BY <1>2
<1>4. /\ a \in Seq(T) /\ Len(a) = i - 1 /\ \A n \in 1 .. i - 1 : a[n] = seq[n]
  BY <1>1, <1>2, <1>3, SubSeqProperties
<1>5. /\ b \in Seq(T) /\ Len(b) = m - i /\ \A n \in 1 .. m - i : b[n] = seq[i + n]
  BY <1>1, <1>2, <1>3, SubSeqProperties
<1>6. RemoveAt(seq, i) = a \o b
  BY DEF RemoveAt
<1> HIDE DEF a, b
<1>7. IsSeq(a) /\ IsSeq(b) /\ seq[i] \in T
  BY <1>1, <1>2, <1>3, <1>4, <1>5, ElementOfSeq DEF IsSeq
<1>8. /\ IsSeq(c) /\ c \in Seq(T) /\ Len(c) = i /\ \A n \in 1 .. i : c[n] = seq[n]
  <2>1. IsSeq(c) /\ Len(c) = (i - 1) + 1 /\ c[(i - 1) + 1] = seq[i]
          /\ \A n \in 1 .. i - 1 : c[n] = a[n]
    <3>1. IsSeq(c) /\ Len(c) = Len(a) + 1 /\ c[Len(a) + 1] = seq[i]
            /\ \A n \in 1 .. Len(a) : c[n] = a[n]
      BY <1>7, SeqAppend
    <3> HIDE DEF c
    <3> QED
      BY <1>4, <3>1
  <2>2. c \in Seq(T)
    BY <1>4, <1>7, AppendProperties
  <2> HIDE DEF c
  <2>3. (i - 1) + 1 = i
    BY <1>3
  <2>4. \A n \in 1 .. i : n = i \/ n \in 1 .. i - 1
    BY <1>3
  <2> QED
    BY <1>4, <2>1, <2>2, <2>3, <2>4
<1>9. c \o b = seq
  <2> HIDE DEF c
  <2>1. /\ c \o b \in Seq(T) /\ Len(c \o b) = Len(c) + Len(b)
        /\ \A n \in 1 .. Len(c) + Len(b) :
             (c \o b)[n] = IF n <= Len(c) THEN c[n] ELSE b[n - Len(c)]
    BY <1>5, <1>8, ConcatProperties
  <2>2. Len(c \o b) = m
    BY <1>3, <1>5, <1>8, <2>1
  <2>3. ASSUME NEW n \in 1 .. m PROVE (c \o b)[n] = seq[n]
    <3>1. n <= i => n \in 1 .. i
      OBVIOUS
    <3>2. ~(n <= i) => n - i \in 1 .. m - i /\ i + (n - i) = n
      BY <1>3
    <3> QED
      BY <1>3, <1>5, <1>8, <2>1, <3>1, <3>2
  <2> QED
    BY <1>1, <1>2, <2>1, <2>2, <2>3, SeqEqual
<1>10. IsSeq(a \o b)
  BY <1>7, SeqConcat
<1>11. /\ Number(c \o b, S) = Number(c, S) + Number(b, S)
       /\ Number(a \o b, S) = Number(a, S) + Number(b, S)
       /\ Number(c, S) = Number(a, S) + (IF seq[i] \in S THEN 1 ELSE 0)
  BY <1>7, <1>8, NumberJoined, NumberMore
<1>12. PICK na \in Nat, nb \in Nat : na = Number(a, S) /\ nb = Number(b, S)
  BY <1>7, NumberNat
<1> HIDE DEF c
<1> QED
  BY <1>6, <1>9, <1>10, <1>11, <1>12

-----------------------------------------------------------------------------
(* What one more line adds to what a session has written.                     *)

\* The place of the next line, and what it adds to the lines that pass a test.
Place(lines) == Len(lines) + 1
Adds(lines, test) == IF test THEN {Place(lines)} ELSE {}

\* The greatest and the least of some integers.
LEMMA MaxIs ==
    ASSUME NEW S \in SUBSET Int, NEW v \in S, \A y \in S : v >= y
    PROVE  Max(S) = v
<1>1. \A x \in S : (\A y \in S : x >= y) => x = v
  <2> TAKE x \in S
  <2> SUFFICES ASSUME \A y \in S : x >= y PROVE x = v
    OBVIOUS
  <2>1. x >= v /\ v >= x /\ x \in Int /\ v \in Int
    OBVIOUS
  <2> QED
    BY <2>1
<1>2. \E x \in S : \A y \in S : x >= y
  OBVIOUS
<1> QED
  BY <1>1, <1>2 DEF Max

LEMMA MinIs ==
    ASSUME NEW S \in SUBSET Int, NEW v \in S, \A y \in S : v <= y
    PROVE  Min(S) = v
<1>1. \A x \in S : (\A y \in S : x <= y) => x = v
  <2> TAKE x \in S
  <2> SUFFICES ASSUME \A y \in S : x <= y PROVE x = v
    OBVIOUS
  <2>1. x <= v /\ v <= x /\ x \in Int /\ v \in Int
    OBVIOUS
  <2> QED
    BY <2>1
<1>2. \E x \in S : \A y \in S : x <= y
  OBVIOUS
<1> QED
  BY <1>1, <1>2 DEF Min

\* The lines that pass a test, and what one more adds to them.
LEMMA LinesMore ==
    ASSUME NEW lines, IsSeq(lines), NEW line
    PROVE  LET more == Append(lines, line)
           IN  /\ IsSeq(more) /\ Len(lines) \in Nat /\ Len(more) = Place(lines)
               /\ DOMAIN lines = 1 .. Len(lines) /\ DOMAIN more = 1 .. Place(lines)
               /\ more[Place(lines)] = line
               /\ \A i \in 1 .. Len(lines) : more[i] = lines[i]
<1> DEFINE more == Append(lines, line)
<1>1. /\ IsSeq(more) /\ Len(lines) \in Nat /\ Len(more) = Place(lines)
      /\ more[Place(lines)] = line
      /\ \A i \in 1 .. Len(lines) : more[i] = lines[i]
  BY SeqAppend DEF Place
<1> HIDE DEF more
<1>2. DOMAIN lines = 1 .. Len(lines) /\ DOMAIN more = 1 .. Place(lines)
  BY <1>1, SeqLength
<1> QED
  BY <1>1, <1>2 DEF more

\* One line more changes no beginning.
LEMMA PrefixesMore ==
    ASSUME NEW lines, IsSeq(lines), NEW line
    PROVE  /\ \A n \in 1 .. Len(lines) + 1 :
                  SubSeq(Append(lines, line), 1, n - 1) = SubSeq(lines, 1, n - 1)
           /\ SubSeq(lines, 1, Len(lines)) = lines
<1> DEFINE more == Append(lines, line)
<1>1. PICK m \in Nat : m = Len(lines)
  BY SeqLength
<1>2. /\ IsSeq(more) /\ DOMAIN lines = 1 .. m /\ DOMAIN more = 1 .. m + 1
      /\ \A i \in 1 .. m : more[i] = lines[i]
  BY <1>1, LinesMore DEF Place
<1>3. PICK S : more \in Seq(S) /\ lines \in Seq(S)
  BY <1>2, Common
<1> HIDE DEF more
<1>4. ASSUME NEW n \in 1 .. m + 1
      PROVE  SubSeq(more, 1, n - 1) = SubSeq(lines, 1, n - 1)
  <2>1. PICK k \in Nat : k = n - 1
    OBVIOUS
  <2>2. \A i \in 1 .. k : more[i] \in S /\ lines[i] = more[i]
    BY <1>2, <1>3, <2>1, ElementOfSeq
  <2>3. /\ SubSeq(more, 1, k) \in Seq(S) /\ Len(SubSeq(more, 1, k)) = k
        /\ \A i \in 1 .. k : SubSeq(more, 1, k)[i] = more[i]
    BY <2>2, SubSeqProperties
  <2>4. /\ SubSeq(lines, 1, k) \in Seq(S) /\ Len(SubSeq(lines, 1, k)) = k
        /\ \A i \in 1 .. k : SubSeq(lines, 1, k)[i] = lines[i]
    BY <2>2, SubSeqProperties
  <2> QED
    BY <2>1, <2>2, <2>3, <2>4, SeqEqual
<1>5. SubSeq(lines, 1, m) = lines
  BY <1>1, <1>3, SubSeqFull
<1> QED
  BY <1>1, <1>4, <1>5 DEF more

LEMMA OfMore ==
    ASSUME NEW lines, IsSeq(lines), NEW line, NEW kind
    PROVE  /\ Of(Append(lines, line), kind) = Of(lines, kind) \cup Adds(lines, line.kind = kind)
           /\ Of(lines, kind) \subseteq 1 .. Len(lines) /\ IsFiniteSet(Of(lines, kind))
<1> DEFINE more == Append(lines, line)
<1>1. PICK m \in Nat : m = Len(lines)
  BY SeqLength
<1>2. /\ Place(lines) = m + 1 /\ DOMAIN lines = 1 .. m /\ DOMAIN more = 1 .. m + 1
      /\ more[m + 1] = line /\ \A i \in 1 .. m : more[i] = lines[i]
  BY <1>1, LinesMore DEF Place
<1> HIDE DEF more
<1>3. Of(more, kind) = Of(lines, kind) \cup Adds(lines, line.kind = kind)
  BY <1>2 DEF Of, Adds
<1>4. Of(lines, kind) \subseteq 1 .. m /\ IsFiniteSet(1 .. m)
  BY <1>2, FS_Interval DEF Of
<1> QED
  BY <1>1, <1>3, <1>4, FS_Subset DEF more

LEMMA OwnMore ==
    ASSUME NEW lines, IsSeq(lines), NEW line
    PROVE  /\ Own(Append(lines, line)) = Own(lines) \cup Adds(lines, line.own)
           /\ Own(lines) \subseteq 1 .. Len(lines)
<1> DEFINE more == Append(lines, line)
<1>1. PICK m \in Nat : m = Len(lines)
  BY SeqLength
<1>2. /\ Place(lines) = m + 1 /\ DOMAIN lines = 1 .. m /\ DOMAIN more = 1 .. m + 1
      /\ more[m + 1] = line /\ \A i \in 1 .. m : more[i] = lines[i]
  BY <1>1, LinesMore DEF Place
<1> HIDE DEF more
<1>3. Own(more) = Own(lines) \cup Adds(lines, line.own)
  BY <1>2 DEF Own, Adds
<1>4. Own(lines) \subseteq 1 .. m
  BY <1>2 DEF Own
<1> QED
  BY <1>1, <1>3, <1>4 DEF more

\* The lines of a kind that are the session's own.
OwnOf(lines, kind) == Of(lines, kind) \cap Own(lines)

LEMMA OwnOfMore ==
    ASSUME NEW lines, IsSeq(lines), NEW line, line.own \in BOOLEAN, NEW kind
    PROVE  /\ OwnOf(Append(lines, line), kind)
                  = OwnOf(lines, kind) \cup Adds(lines, line.kind = kind /\ line.own)
           /\ OwnOf(lines, kind) \subseteq 1 .. Len(lines) /\ IsFiniteSet(OwnOf(lines, kind))
           /\ Place(lines) \notin OwnOf(lines, kind)
<1>1. /\ Of(Append(lines, line), kind) = Of(lines, kind) \cup Adds(lines, line.kind = kind)
      /\ Of(lines, kind) \subseteq 1 .. Len(lines) /\ IsFiniteSet(Of(lines, kind))
  BY OfMore
<1>2. /\ Own(Append(lines, line)) = Own(lines) \cup Adds(lines, line.own)
      /\ Own(lines) \subseteq 1 .. Len(lines)
  BY OwnMore
<1>3. Place(lines) \notin 1 .. Len(lines)
  BY SeqLength DEF Place
<1>4. IsFiniteSet(OwnOf(lines, kind))
  BY <1>1, FS_Subset DEF OwnOf
<1>5. OwnOf(Append(lines, line), kind)
          = OwnOf(lines, kind) \cup Adds(lines, line.kind = kind /\ line.own)
  BY <1>1, <1>2, <1>3 DEF OwnOf, Adds
<1> QED
  BY <1>1, <1>3, <1>4, <1>5 DEF OwnOf

\* A turn of its own has the next number.
LEMMA TurnMore ==
    ASSUME NEW lines, IsSeq(lines), NEW line, line.own \in BOOLEAN
    PROVE  /\ TurnOf(lines) \in Nat
           /\ TurnOf(Append(lines, line))
                  = TurnOf(lines) + (IF line.kind = "turn" /\ line.own THEN 1 ELSE 0)
<1> DEFINE T == OwnOf(lines, "turn")
           test == line.kind = "turn" /\ line.own
<1>1. /\ OwnOf(Append(lines, line), "turn") = T \cup Adds(lines, test)
      /\ IsFiniteSet(T) /\ Place(lines) \notin T
  BY OwnOfMore
<1>2. TurnOf(lines) = Cardinality(T) /\ Cardinality(T) \in Nat
  BY <1>1, FS_CardinalityType DEF TurnOf, OwnOf
<1>3. TurnOf(Append(lines, line)) = Cardinality(T \cup Adds(lines, test))
  BY <1>1 DEF TurnOf, OwnOf
<1>4. Cardinality(T \cup {Place(lines)}) = Cardinality(T) + 1
  BY <1>1, FS_AddElement
<1> HIDE DEF T
<1>5. CASE test
  BY <1>2, <1>3, <1>4, <1>5 DEF Adds
<1>6. CASE ~test
  <2>1. T \cup Adds(lines, test) = T
    BY <1>6 DEF Adds
  <2> QED
    BY <1>2, <1>3, <1>6, <2>1
<1> QED
  BY <1>5, <1>6

\* The ids of some lines.
Ids(lines, N) == {lines[n].id : n \in N}

\* The ids of some of the lines.
LEMMA IdsMore ==
    ASSUME NEW lines, IsSeq(lines), NEW line, NEW N \in SUBSET (1 .. Len(lines))
    PROVE  /\ Ids(Append(lines, line), N) = Ids(lines, N)
           /\ Ids(Append(lines, line), N \cup {Place(lines)}) = Ids(lines, N) \cup {line.id}
<1> DEFINE more == Append(lines, line)
<1>1. /\ more[Place(lines)] = line
      /\ \A i \in 1 .. Len(lines) : more[i] = lines[i]
  BY LinesMore
<1> HIDE DEF more
<1>2. Ids(more, N) = Ids(lines, N)
  BY <1>1 DEF Ids
<1>3. Ids(more, N \cup {Place(lines)}) = Ids(more, N) \cup {line.id}
  BY <1>1 DEF Ids
<1> QED
  BY <1>2, <1>3 DEF more

\* What one more line adds to the responses, the recorded and the counted ones.
LEMMA CountsMore ==
    ASSUME NEW lines, IsSeq(lines), NEW line, line.own \in BOOLEAN
    PROVE  /\ Responses(Append(lines, line))
                  = Responses(lines) \cup ((IF line.own THEN {line.id} ELSE {}) \ {None})
           /\ Recorded(Append(lines, line))
                  = Recorded(lines) \cup
                        (IF line.kind = "record" /\ line.own THEN {line.id} ELSE {})
           /\ Counted(Append(lines, line))
                  = Counted(lines) \cup
                        (IF line.kind = "count" /\ line.own /\ line.fault = None
                         THEN {line.id} ELSE {})
           /\ Told(Append(lines, line))
                  = Told(lines) \cup
                        Adds(lines, line.kind = "count" /\ line.own /\ line.id # None)
           /\ Told(lines) \subseteq OwnOf(lines, "count")
<1> DEFINE more == Append(lines, line)
           C == {m \in OwnOf(lines, "count") : lines[m].fault = None}
           counts == line.kind = "count" /\ line.own
<1>1. Own(more) = Own(lines) \cup Adds(lines, line.own) /\ Own(lines) \subseteq 1 .. Len(lines)
  BY OwnMore
<1>2. \A kind : /\ OwnOf(more, kind) = OwnOf(lines, kind) \cup Adds(lines, line.kind = kind /\ line.own)
                /\ OwnOf(lines, kind) \subseteq 1 .. Len(lines)
  BY OwnOfMore
<1>3. /\ more[Place(lines)] = line /\ \A i \in 1 .. Len(lines) : more[i] = lines[i]
      /\ Place(lines) \notin 1 .. Len(lines)
  BY LinesMore, SeqLength DEF Place
<1> HIDE DEF more
<1>4. Responses(more) = Responses(lines) \cup ((IF line.own THEN {line.id} ELSE {}) \ {None})
  <2> DEFINE N == Own(lines)
  <2>1. N \subseteq 1 .. Len(lines)
    BY <1>1
  <2>2. /\ Ids(more, N) = Ids(lines, N)
        /\ Ids(more, N \cup {Place(lines)}) = Ids(lines, N) \cup {line.id}
    <3> HIDE DEF N
    <3> QED
      BY <2>1, IdsMore DEF more
  <2>3. /\ Responses(lines) = Ids(lines, Own(lines)) \ {None}
        /\ Responses(more) = Ids(more, Own(more)) \ {None}
    BY DEF Ids, Responses
  <2>4. CASE line.own
    BY <1>1, <2>2, <2>3, <2>4 DEF Adds
  <2>5. CASE ~line.own
    <3>1. Own(more) = Own(lines)
      BY <1>1, <2>5 DEF Adds
    <3> QED
      BY <2>2, <2>3, <2>5, <3>1
  <2> QED
    BY <2>4, <2>5
<1>5. Recorded(more) = Recorded(lines) \cup
                           (IF line.kind = "record" /\ line.own THEN {line.id} ELSE {})
  <2> DEFINE N == OwnOf(lines, "record")
  <2>1. N \subseteq 1 .. Len(lines)
    BY <1>2
  <2>2. Ids(more, N) = Ids(lines, N) /\ Ids(more, N \cup {Place(lines)}) = Ids(lines, N) \cup {line.id}
    BY <2>1, IdsMore DEF more
  <2>3. Recorded(lines) = Ids(lines, N) /\ Recorded(more) = Ids(more, OwnOf(more, "record"))
    BY DEF Ids, Recorded, OwnOf
  <2>4. OwnOf(more, "record") = N \cup Adds(lines, line.kind = "record" /\ line.own)
    BY <1>2
  <2> HIDE DEF N
  <2>5. CASE line.kind = "record" /\ line.own
    BY <2>2, <2>3, <2>4, <2>5 DEF Adds
  <2>6. CASE ~(line.kind = "record" /\ line.own)
    <3>1. OwnOf(more, "record") = N
      BY <2>4, <2>6 DEF Adds
    <3> QED
      BY <2>2, <2>3, <2>6, <3>1
  <2> QED
    BY <2>5, <2>6
<1>6. {m \in OwnOf(more, "count") : more[m].fault = None}
          = C \cup Adds(lines, counts /\ line.fault = None)
  <2>1. OwnOf(more, "count") = OwnOf(lines, "count") \cup Adds(lines, counts)
    BY <1>2
  <2>2. \A m \in OwnOf(lines, "count") : more[m] = lines[m]
    BY <1>2, <1>3
  <2> QED
    BY <1>3, <2>1, <2>2 DEF Adds
<1>7. Counted(more) = Counted(lines) \cup
                          (IF counts /\ line.fault = None THEN {line.id} ELSE {})
  <2>1. C \subseteq 1 .. Len(lines)
    BY <1>2
  <2>2. Ids(more, C) = Ids(lines, C) /\ Ids(more, C \cup {Place(lines)}) = Ids(lines, C) \cup {line.id}
    BY <2>1, IdsMore DEF more
  <2>3. Counted(lines) = Ids(lines, C)
    BY DEF Counted, Ids, OwnCounts, OwnOf
  <2>4. Counted(more) = Ids(more, C \cup Adds(lines, counts /\ line.fault = None))
    BY <1>6 DEF Counted, Ids, OwnCounts, OwnOf
  <2> HIDE DEF C
  <2>5. CASE counts /\ line.fault = None
    BY <2>2, <2>3, <2>4, <2>5 DEF Adds
  <2>6. CASE ~(counts /\ line.fault = None)
    <3>1. C \cup Adds(lines, counts /\ line.fault = None) = C
      BY <2>6 DEF Adds
    <3> QED
      BY <2>2, <2>3, <2>4, <2>6, <3>1
  <2> QED
    BY <2>5, <2>6
<1>8. Told(more) = Told(lines) \cup Adds(lines, counts /\ line.id # None)
  <2>1. OwnOf(more, "count") = OwnOf(lines, "count") \cup Adds(lines, counts)
    BY <1>2
  <2>2. \A m \in OwnOf(lines, "count") : more[m] = lines[m]
    BY <1>2, <1>3
  <2>3. \A q : OwnCounts(q) = OwnOf(q, "count")
    BY DEF OwnCounts, OwnOf
  <2>4. Told(more) = {n \in OwnOf(more, "count") : more[n].id # None}
    BY <2>3 DEF Told
  <2>5. Told(lines) = {n \in OwnOf(lines, "count") : lines[n].id # None}
    BY <2>3 DEF Told
  <2> QED
    BY <1>3, <2>1, <2>2, <2>4, <2>5 DEF Adds
<1>9. Told(lines) \subseteq OwnOf(lines, "count")
  BY DEF Told, OwnCounts, OwnOf
<1> QED
  BY <1>4, <1>5, <1>7, <1>8, <1>9 DEF more

\* An id that was there stands for the line it first came with.
IdIn(lines, id) == \E n \in DOMAIN lines : lines[n].id = id

\* The first line of an id.
LEMMA FirstIs ==
    ASSUME NEW lines, IsSeq(lines), NEW id, IdIn(lines, id)
    PROVE  /\ FirstOf(lines, id) \in 1 .. Len(lines) /\ lines[FirstOf(lines, id)].id = id
           /\ \A n \in 1 .. Len(lines) : lines[n].id = id => FirstOf(lines, id) <= n
<1> DEFINE T == {n \in DOMAIN lines : lines[n].id = id}
<1>1. PICK m \in Nat : m = Len(lines) /\ DOMAIN lines = 1 .. m
  BY SeqLength
<1>2. T # {} /\ T \in SUBSET Nat
  BY <1>1 DEF IdIn
<1>3. PICK k \in T : \A n \in T : k <= n
  BY <1>2, Least
<1>4. FirstOf(lines, id) = k
  <2>1. T \in SUBSET Int
    BY <1>2
  <2>2. Min(T) = k
    BY <1>3, <2>1, MinIs
  <2> QED
    BY <2>2 DEF FirstOf
<1> QED
  BY <1>1, <1>3, <1>4

\* It keeps its place, its usage and its turn.
LEMMA FirstMore ==
    ASSUME NEW lines, IsSeq(lines), NEW line, line.own \in BOOLEAN, NEW id, IdIn(lines, id)
    PROVE  LET more == Append(lines, line)
           IN  /\ IdIn(more, id) /\ FirstOf(more, id) = FirstOf(lines, id)
               /\ UsageOf(more, id) = UsageOf(lines, id) /\ TurnIn(more, id) = TurnIn(lines, id)
<1> DEFINE more == Append(lines, line)
<1>1. PICK m \in Nat : m = Len(lines)
  BY SeqLength
<1>2. /\ IsSeq(more) /\ DOMAIN lines = 1 .. m /\ DOMAIN more = 1 .. m + 1
      /\ Len(more) = m + 1 /\ \A i \in 1 .. m : more[i] = lines[i]
  BY <1>1, LinesMore DEF Place
<1> HIDE DEF more
<1>3. PICK f \in 1 .. m : f = FirstOf(lines, id) /\ lines[f].id = id
                          /\ \A n \in 1 .. m : lines[n].id = id => f <= n
  BY <1>1, FirstIs
<1>4. IdIn(more, id)
  BY <1>2, <1>3 DEF IdIn
<1>5. FirstOf(more, id) = f
  <2>1. PICK g \in 1 .. m + 1 : g = FirstOf(more, id) /\ more[g].id = id
                          /\ \A n \in 1 .. m + 1 : more[n].id = id => g <= n
    BY <1>2, <1>4, FirstIs
  <2>2. g <= f
    BY <1>2, <1>3, <2>1
  <2>3. g \in 1 .. m
    BY <1>3, <2>1, <2>2
  <2>4. f <= g
    BY <1>2, <1>3, <2>1, <2>3
  <2> QED
    BY <2>1, <2>2, <2>4
<1>6. UsageOf(more, id) = UsageOf(lines, id)
  BY <1>2, <1>3, <1>5 DEF UsageOf
<1>7. SubSeq(more, 1, f) = SubSeq(lines, 1, f)
  <2>1. PICK S : more \in Seq(S)
    BY <1>2 DEF IsSeq
  <2>2. \A i \in 1 .. f : more[i] \in S /\ lines[i] = more[i]
    BY <1>2, <2>1, ElementOfSeq
  <2>3. /\ SubSeq(more, 1, f) \in Seq(S) /\ Len(SubSeq(more, 1, f)) = f
        /\ \A i \in 1 .. f : SubSeq(more, 1, f)[i] = more[i]
    BY <2>2, SubSeqProperties
  <2>4. /\ SubSeq(lines, 1, f) \in Seq(S) /\ Len(SubSeq(lines, 1, f)) = f
        /\ \A i \in 1 .. f : SubSeq(lines, 1, f)[i] = lines[i]
    BY <2>2, SubSeqProperties
  <2> QED
    BY <2>2, <2>3, <2>4, SeqEqual
<1>8. TurnIn(more, id) = TurnIn(lines, id)
  BY <1>3, <1>5, <1>7 DEF TurnIn
<1> QED
  BY <1>3, <1>4, <1>5, <1>6, <1>8 DEF more

\* A new id stands for the new line.
LEMMA FirstNew ==
    ASSUME NEW lines, IsSeq(lines), NEW line, ~IdIn(lines, line.id)
    PROVE  LET more == Append(lines, line)
           IN  /\ IdIn(more, line.id) /\ FirstOf(more, line.id) = Place(lines)
               /\ UsageOf(more, line.id) = line.usage
               /\ TurnIn(more, line.id) = TurnOf(more)
<1> DEFINE more == Append(lines, line)
<1>1. PICK m \in Nat : m = Len(lines)
  BY SeqLength
<1>2. /\ IsSeq(more) /\ DOMAIN lines = 1 .. m /\ DOMAIN more = 1 .. m + 1 /\ Place(lines) = m + 1
      /\ Len(more) = m + 1 /\ more[m + 1] = line /\ \A i \in 1 .. m : more[i] = lines[i]
  BY <1>1, LinesMore DEF Place
<1> HIDE DEF more
<1>3. IdIn(more, line.id)
  BY <1>2 DEF IdIn
<1>4. FirstOf(more, line.id) = m + 1
  <2>1. PICK g \in 1 .. m + 1 : g = FirstOf(more, line.id) /\ more[g].id = line.id
    BY <1>2, <1>3, FirstIs
  <2>2. \A i \in 1 .. m : more[i].id # line.id
    BY <1>2 DEF IdIn
  <2> QED
    BY <2>1, <2>2
<1>5. SubSeq(more, 1, m + 1) = more
  <2>1. PICK S : more \in Seq(S)
    BY <1>2 DEF IsSeq
  <2> QED
    BY <1>2, <2>1, SubSeqFull
<1> QED
  BY <1>2, <1>3, <1>4, <1>5 DEF UsageOf, TurnIn, more

\* The largest total that was reported.
IsTotal(lines, t) ==
    /\ t \in Nat /\ (t = 0 \/ \E n \in Of(lines, "count") : lines[n].total = t)
    /\ \A n \in Of(lines, "count") : lines[n].total \in 0 .. t

\* The total is that of the greatest count.
LEMMA TotalMore ==
    ASSUME NEW lines, IsSeq(lines), NEW line, line.total \in Nat, IsTotal(lines, Total(lines))
    PROVE  LET more == Append(lines, line)
           IN  /\ IsTotal(more, Total(more))
               /\ Total(more) = IF line.kind = "count" /\ line.total > Total(lines)
                                THEN line.total ELSE Total(lines)
<1> DEFINE more == Append(lines, line)
           t == IF line.kind = "count" /\ line.total > Total(lines)
                THEN line.total ELSE Total(lines)
           S == {0} \cup {more[n].total : n \in Of(more, "count")}
<1>1. /\ Of(more, "count") = Of(lines, "count") \cup Adds(lines, line.kind = "count")
      /\ Of(lines, "count") \subseteq 1 .. Len(lines)
  BY OfMore
<1>2. /\ more[Place(lines)] = line /\ \A i \in 1 .. Len(lines) : more[i] = lines[i]
  BY LinesMore
<1> HIDE DEF more
<1>3. PICK v \in Nat : v = Total(lines)
  BY DEF IsTotal
<1>4. PICK w \in Nat : w = line.total
  OBVIOUS
<1>5. \A n \in Of(lines, "count") : more[n].total = lines[n].total /\ lines[n].total \in 0 .. v
  BY <1>1, <1>2, <1>3 DEF IsTotal
<1>6. t \in Nat /\ v <= t /\ (line.kind = "count" => w <= t)
  BY <1>3, <1>4
<1>7. \A n \in Of(more, "count") : more[n].total \in 0 .. t
  BY <1>1, <1>2, <1>3, <1>4, <1>5, <1>6 DEF Adds
<1>8. t = 0 \/ \E n \in Of(more, "count") : more[n].total = t
  <2>1. CASE line.kind = "count" /\ line.total > Total(lines)
    BY <1>1, <1>2, <2>1 DEF Adds
  <2>2. CASE ~(line.kind = "count" /\ line.total > Total(lines))
    BY <1>1, <1>5, <2>2 DEF IsTotal
  <2> QED
    BY <2>1, <2>2
<1> HIDE DEF t
<1>9. Total(more) = t
  <2>1. S \in SUBSET Int /\ t \in S /\ \A y \in S : t >= y
    BY <1>6, <1>7, <1>8
  <2> HIDE DEF S
  <2>2. Max(S) = t
    BY <2>1, MaxIs
  <2> QED
    BY <2>2 DEF Total, S
<1>10. IsTotal(more, t)
  BY <1>6, <1>7, <1>8 DEF IsTotal
<1> QED
  BY <1>9, <1>10 DEF more, t

-----------------------------------------------------------------------------
(* What a session has written.                                              *)

\* A line that is written; only records and counts of responses have an id, and
\* what it replays is not broken.
LineOK(line) ==
    /\ line \in Line
    /\ line.id # None => /\ line.own /\ line.fault = None /\ line.kind \in {"record", "count"}
                         /\ line.usage \in Usages
    /\ line.kind = "count" /\ line.total = 0 => line.usage = 0
    /\ ~line.own => line.fault = None /\ (line.kind = "count" => line.total = 2)

\* The last response; a child that has no turn of its own.
Latest(lines) == Cardinality(Responses(lines))
Waits(lines) == Forked(lines) /\ TurnOf(lines) = 0

\* The first line says whether it is a fork, whose total is at first its parent's.
Origin(lines) ==
    /\ Of(lines, "fork") \subseteq {1}
    /\ Told(lines) = {} => Total(lines) \in {0, 2} /\ (Total(lines) = 2 => Forked(lines))
    /\ Waits(lines) => Responses(lines) = {} /\ Told(lines) = {}

\* The responses are numbered, and all of them are recorded or none is.
Numbered(lines) ==
    /\ Latest(lines) \in Nat /\ Responses(lines) = 1 .. Latest(lines)
    /\ Recorded(lines) \in {{}, Responses(lines)}

\* What a session keeps to, whatever it writes.
History(lines) ==
    /\ IsSeq(lines) /\ \A n \in DOMAIN lines : LineOK(lines[n])
    /\ Numbered(lines) /\ IsTotal(lines, Total(lines)) /\ Origin(lines)

\* The lines it may write next, told by their fields.
Foreign(lines, line) ==
    /\ ~line.own /\ line.id = None /\ line.fault = None /\ line.total \in {0, 2}
    /\ Forked(lines)
    /\ \/ TurnOf(lines) = 0 /\ line.kind \in {"count", "parent", "human", "record"}
       \/ TurnOf(lines) = 0 /\ line.kind = "turn" /\ Of(lines, "parent") # {}
       \/ TurnOf(lines) > 0 /\ line.kind = "count" /\ Total(lines) >= 2
    /\ line.kind = "count" => line.total = 2 /\ line.usage = 2 /\ line.model = None

\* A line of the session that has but its kind.
Simple(lines, line, kind) ==
    line.own /\ line.id = None /\ line.total = 0 /\ line.fault = None /\ line.kind = kind

NewTurn(lines, line) ==
    /\ Simple(lines, line, "turn") /\ line.turn = TurnOf(lines) + 1 /\ line.model \in STRING

\* Records and counts: of a new response, of one that is recorded, of one that is
\* not, and what is written again.
NewRecord(lines, line) ==
    /\ line.kind = "record" /\ line.own /\ line.fault = None
    /\ line.model = None /\ line.turn = None /\ line.id = Latest(lines) + 1
    /\ line.usage \in Usages /\ TurnOf(lines) > 0 /\ Recorded(lines) = Responses(lines)

OldRecord(lines, line) ==
    /\ line.kind = "record" /\ line.own /\ line.id \in Recorded(lines)
    /\ line.id = lines[Len(lines)].id /\ Len(lines) \in OwnOf(lines, "record")

NewCount(lines, line) ==
    /\ line.kind = "count" /\ line.own /\ line.fault = None /\ line.model = None
    /\ line.usage \in Usages /\ line.total = Total(lines) + line.usage

Reports(lines, line) ==
    /\ NewCount(lines, line)
    /\ line.id \in Recorded(lines) \ Counted(lines) /\ line.usage = UsageOf(lines, line.id)
    /\ \E named \in Naming(lines) :
           line.turn = IF named THEN TurnIn(lines, line.id) ELSE None

Unrecorded(lines, line) ==
    /\ NewCount(lines, line)
    /\ Recorded(lines) = {} /\ line.id = Latest(lines) + 1 /\ line.turn = None

Again(lines, line) ==
    /\ line.kind = "count" /\ line.own /\ line.fault = None /\ line.id = None
    /\ line.total <= Total(lines)

Broken(lines, line) ==
    /\ line.own /\ line.id = None /\ line.total = 0
    /\ line.kind = "odd" \/ (line.kind = "count" /\ line.fault = "invalid")

Fork(lines, line) == lines = <<>> /\ Simple(lines, line, "fork")

\* Plain lines, turns and models are of their types.
LEMMA PlainOK ==
    ASSUME NEW kind \in LineKinds
    PROVE  /\ Plain(kind) \in Line /\ Plain(kind).kind = kind /\ Plain(kind).id = None
           /\ Plain(kind).usage = 0 /\ Plain(kind).total = 0 /\ Plain(kind).turn = None
           /\ Plain(kind).model = None /\ Plain(kind).own = TRUE /\ Plain(kind).fault = None
           /\ LineOK(Plain(kind))
BY DEF Plain, Line, LineOK

LEMMA TurnNat ==
    ASSUME NEW lines, IsSeq(lines)
    PROVE  TurnOf(lines) \in Nat
<1>1. Plain("odd").own \in BOOLEAN
  BY DEF Plain
<1> QED
  BY <1>1, TurnMore

LEMMA ModelNames ==
    /\ Len(Models) \in Nat \ {0} /\ \A n \in 1 .. Len(Models) : Models[n] \in STRING
    /\ Models[1] \in STRING /\ Last(Models) \in STRING
<1>1. Models \in Seq(STRING) /\ Models # <<>>
  BY SessionAssumption
<1>2. Len(Models) \in Nat /\ Len(Models) # 0
  BY <1>1, LenProperties, EmptySeq
<1>3. \A n \in 1 .. Len(Models) : Models[n] \in STRING
  BY <1>1, ElementOfSeq
<1> QED
  BY <1>2, <1>3 DEF Last

\* The total of a parent is two.
LEMMA ForeignTotal ==
    ASSUME NEW lines, History(lines), Of(lines, "count") \ Own(lines) # {}
    PROVE  Total(lines) >= 2
<1>1. PICK n \in Of(lines, "count") : n \notin Own(lines)
  OBVIOUS
<1>2. n \in DOMAIN lines /\ lines[n].kind = "count" /\ ~lines[n].own
  BY <1>1 DEF Of, Own
<1>3. lines[n].total = 2
  BY <1>2 DEF History, LineOK
<1>4. PICK t \in Nat : t = Total(lines) /\ lines[n].total \in 0 .. t
  BY DEF History, IsTotal
<1> QED
  BY <1>3, <1>4

\* Whatever may be written is a line of one of these sorts.
LEMMA WrittenForeign ==
    ASSUME NEW lines, History(lines), NEW line \in Parents(lines)
    PROVE  LineOK(line) /\ Foreign(lines, line)
<1> DEFINE count == [Plain("count") EXCEPT !.own = FALSE, !.usage = 2, !.total = 2]
           parent == [Plain("parent") EXCEPT !.own = FALSE]
           human == [Plain("human") EXCEPT !.own = FALSE]
           record == [Plain("record") EXCEPT !.own = FALSE, !.usage = 2]
           turn == [Plain("turn") EXCEPT !.own = FALSE, !.turn = 0, !.model = Models[1]]
           Ours(l) == l \in Line /\ l.id = None /\ ~l.own /\ l.fault = None
<1>1. Forked(lines) /\ TurnOf(lines) \in Nat
  BY TurnNat DEF History, Parents
<1>2. \/ line = count /\ (TurnOf(lines) > 0 => Of(lines, "count") \ Own(lines) # {})
      \/ TurnOf(lines) = 0 /\ line \in {parent, human, record}
      \/ TurnOf(lines) = 0 /\ Of(lines, "parent") # {} /\ line = turn
  BY <1>1 DEF Parents
<1>3. /\ Ours(count) /\ count.kind = "count" /\ count.total = 2 /\ count.usage = 2
      /\ count.model = None
  BY DEF Plain, Line, LineKinds
<1>4. Ours(parent) /\ parent.kind = "parent" /\ parent.total = 0
  BY DEF Plain, Line, LineKinds
<1>5. Ours(human) /\ human.kind = "human" /\ human.total = 0
  BY DEF Plain, Line, LineKinds
<1>6. Ours(record) /\ record.kind = "record" /\ record.total = 0
  BY DEF Plain, Line, LineKinds
<1>7. Ours(turn) /\ turn.kind = "turn" /\ turn.total = 0
  BY ModelNames DEF Plain, Line, LineKinds
<1> HIDE DEF count, parent, human, record, turn
<1>8. Ours(line) /\ line.total \in {0, 2}
  BY <1>2, <1>3, <1>4, <1>5, <1>6, <1>7
<1>9. line.kind = "count" => line.total = 2 /\ line.usage = 2 /\ line.model = None
  BY <1>2, <1>3, <1>4, <1>5, <1>6, <1>7
<1>10. Of(lines, "count") \ Own(lines) # {} => Total(lines) >= 2
  BY ForeignTotal
<1>11. \/ TurnOf(lines) = 0 /\ line.kind \in {"count", "parent", "human", "record"}
       \/ TurnOf(lines) = 0 /\ line.kind = "turn" /\ Of(lines, "parent") # {}
       \/ TurnOf(lines) > 0 /\ line.kind = "count" /\ Total(lines) >= 2
  BY <1>1, <1>2, <1>3, <1>4, <1>5, <1>6, <1>7, <1>10
<1> QED
  BY <1>1, <1>8, <1>9, <1>11 DEF LineOK, Foreign

LEMMA WrittenTurn ==
    ASSUME NEW lines, History(lines), NEW line \in Turns(lines)
    PROVE  LineOK(line) /\ NewTurn(lines, line)
<1>1. PICK t \in Nat : t = TurnOf(lines)
  BY TurnNat DEF History
<1>2. t < Len(Models) /\ line = [Plain("turn") EXCEPT !.turn = t + 1, !.model = Models[t + 1]]
  <2>1. Len(Models) \in Nat
    BY ModelNames
  <2> QED
    BY <1>1, <2>1 DEF Turns
<1>3. Models[t + 1] \in STRING
  <2>1. t + 1 \in 1 .. Len(Models)
    BY <1>2, ModelNames
  <2> QED
    BY <2>1, ModelNames
<1>4. line \in Line /\ Simple(lines, line, "turn") /\ line.turn = t + 1 /\ line.model = Models[t + 1]
  <2>1. line = [kind |-> "turn", id |-> None, usage |-> 0, total |-> 0, turn |-> t + 1,
                model |-> Models[t + 1], own |-> TRUE, fault |-> None]
    BY <1>2 DEF Plain
  <2> QED
    BY <1>3, <2>1 DEF Line, LineKinds, Simple
<1> QED
  BY <1>1, <1>3, <1>4 DEF LineOK, NewTurn, Simple

\* What it may write when it is not replaying a parent.
LEMMA WrittenEnd ==
    ASSUME NEW lines, History(lines), NEW line \in Ends(lines)
    PROVE  LineOK(line) /\ Simple(lines, line, "end") /\ line.turn \in {None, TurnOf(lines)}
<1>1. PICK t \in Nat \cup {None} :
        line = [Plain("end") EXCEPT !.turn = t] /\ t \in {None, TurnOf(lines)}
  BY TurnNat DEF Ends, History
<1>2. line \in Line /\ Simple(lines, line, "end") /\ line.turn = t
  BY <1>1 DEF Plain, Line, LineKinds, Simple
<1> QED
  BY <1>1, <1>2 DEF LineOK, Simple

LEMMA WrittenRecord ==
    ASSUME NEW lines, History(lines), NEW line \in Records(lines)
    PROVE  LineOK(line) /\ (NewRecord(lines, line) \/ OldRecord(lines, line))
<1>1. CASE line \in {lines[n] : n \in Of(lines, "record") \cap Own(lines) \cap {Len(lines)}}
  <2>1. PICK n \in Of(lines, "record") \cap Own(lines) : n = Len(lines) /\ line = lines[n]
    BY <1>1
  <2>2. line.kind = "record" /\ line.own /\ n \in DOMAIN lines /\ line.id \in Recorded(lines)
    BY <2>1 DEF Of, Own, Recorded
  <2>3. LineOK(line)
    BY <2>1, <2>2 DEF History
  <2> QED
    BY <2>1, <2>2, <2>3 DEF OldRecord, OwnOf
<1>2. CASE line \notin {lines[n] : n \in Of(lines, "record") \cap Own(lines) \cap {Len(lines)}}
  <2>1. /\ TurnOf(lines) # 0 /\ Recorded(lines) = Responses(lines)
        /\ \E id \in Fresh(lines), u \in Usages :
              line = RecordOf(id, u)
    BY <1>2 DEF Records
  <2>2. PICK id \in Fresh(lines), u \in Usages :
          line = RecordOf(id, u)
    BY <2>1
  <2>3. id = Latest(lines) + 1 /\ id \in Nat
    BY DEF Fresh, Latest, History, Numbered
  <2>4. u \in Usages /\ u \in Nat
    BY <2>2, SessionAssumption
  <2>5. /\ line \in Line /\ line.kind = "record" /\ line.own /\ line.fault = None
        /\ line.model = None /\ line.turn = None /\ line.id = id /\ line.usage = u
    BY <2>2, <2>3, <2>4 DEF RecordOf, Plain, Line, LineKinds
  <2>6. TurnOf(lines) > 0
    BY <2>1, TurnNat DEF History
  <2> QED
    BY <2>1, <2>3, <2>4, <2>5, <2>6 DEF LineOK, NewRecord
<1> QED
  BY <1>1, <1>2

LEMMA CountOfOK ==
    ASSUME NEW lines, History(lines), NEW id \in Nat, NEW usage \in Usages,
           NEW turn \in Nat \cup {None}, NEW line, line = CountOf(lines, id, usage, turn)
    PROVE  LineOK(line) /\ NewCount(lines, line) /\ line.id = id /\ line.turn = turn
           /\ line.usage = usage
<1>1. PICK t \in Nat : t = Total(lines)
  BY DEF History, IsTotal
<1>2. usage \in Nat /\ t + usage \in Nat /\ t + usage # 0
  BY SessionAssumption
<1>3. line = [Plain("count") EXCEPT !.id = id, !.usage = usage, !.turn = turn, !.total = t + usage]
  BY <1>1 DEF CountOf
<1>4. /\ line \in Line /\ line.kind = "count" /\ line.own /\ line.fault = None /\ line.id = id
      /\ line.usage = usage /\ line.turn = turn /\ line.total = t + usage /\ line.model = None
  BY <1>2, <1>3 DEF Plain, Line, LineKinds
<1>5. LineOK(line) /\ NewCount(lines, line)
  BY <1>1, <1>2, <1>4 DEF LineOK, NewCount
<1> QED
  BY <1>4, <1>5

LEMMA ResponseIn ==
    ASSUME NEW lines, History(lines), NEW id \in Responses(lines)
    PROVE  /\ IdIn(lines, id) /\ id \in Nat \ {0} /\ id <= Latest(lines)
           /\ FirstOf(lines, id) \in 1 .. Len(lines)
           /\ UsageOf(lines, id) \in Usages /\ TurnIn(lines, id) \in Nat
<1>1. IdIn(lines, id) /\ id # None
  BY DEF Responses, IdIn, Own
<1>2. /\ FirstOf(lines, id) \in 1 .. Len(lines) /\ lines[FirstOf(lines, id)].id = id
      /\ DOMAIN lines = 1 .. Len(lines)
  BY <1>1, FirstIs, SeqLength DEF History
<1>3. UsageOf(lines, id) \in Usages
  BY <1>1, <1>2 DEF UsageOf, History, LineOK
<1>4. IsSeq(SubSeq(lines, 1, FirstOf(lines, id)))
  <2>1. PICK S : lines \in Seq(S)
    BY DEF History, IsSeq
  <2>2. \A i \in 1 .. FirstOf(lines, id) : lines[i] \in S
    BY <1>2, <2>1, LenProperties, ElementOfSeq
  <2> QED
    BY <1>2, <2>2, SubSeqProperties DEF IsSeq
<1>5. TurnIn(lines, id) \in Nat
  BY <1>4, TurnNat DEF TurnIn
<1>6. id \in Nat \ {0} /\ id <= Latest(lines)
  BY DEF History, Numbered
<1> QED
  BY <1>1, <1>2, <1>3, <1>5, <1>6

LEMMA RecordedIn ==
    ASSUME NEW lines, History(lines), NEW id \in Recorded(lines)
    PROVE  id \in Responses(lines) /\ Recorded(lines) = Responses(lines)
BY DEF History, Numbered

LEMMA WrittenCount ==
    ASSUME NEW lines, History(lines), NEW line \in Counts(lines)
    PROVE  LineOK(line) /\ (Reports(lines, line) \/ Unrecorded(lines, line))
<1> DEFINE Turn(id, named) == IF named THEN TurnIn(lines, id) ELSE None
<1>1. \/ \E id \in Recorded(lines) \ Counted(lines), named \in Naming(lines) :
            line = CountOf(lines, id, UsageOf(lines, id), Turn(id, named))
      \/ Recorded(lines) = {} /\ \E id \in Fresh(lines), u \in Usages :
            line = CountOf(lines, id, u, None)
  BY DEF Counts
<1>2. CASE \E id \in Recorded(lines) \ Counted(lines), named \in Naming(lines) :
             line = CountOf(lines, id, UsageOf(lines, id), Turn(id, named))
  <2>1. PICK id \in Recorded(lines) \ Counted(lines), n1 \in Naming(lines) :
          line = CountOf(lines, id, UsageOf(lines, id), Turn(id, n1))
    BY <1>2
  <2>2. id \in Recorded(lines) \ Counted(lines)
    BY <2>1
  <2>3. UsageOf(lines, id) \in Usages /\ TurnIn(lines, id) \in Nat /\ id \in Nat
    BY <2>2, RecordedIn, ResponseIn
  <2>4. Turn(id, n1) \in Nat \cup {None}
    BY <2>3
  <2> DEFINE t1 == Turn(id, n1)
             u1 == UsageOf(lines, id)
  <2>5. id \in Nat /\ u1 \in Usages /\ t1 \in Nat \cup {None} /\ line = CountOf(lines, id, u1, t1)
    BY <2>1, <2>3, <2>4
  <2> HIDE DEF t1, u1
  <2>6. LineOK(line) /\ NewCount(lines, line) /\ line.id = id /\ line.turn = t1
           /\ line.usage = u1
    BY <2>5, CountOfOK
  <2>7. LineOK(line) /\ NewCount(lines, line) /\ line.id = id /\ line.turn = Turn(id, n1)
           /\ line.usage = UsageOf(lines, id)
    BY <2>6 DEF t1, u1
  <2>8. Reports(lines, line)
    BY <2>1, <2>2, <2>7 DEF Reports
  <2> QED
    BY <2>7, <2>8
<1>3. CASE Recorded(lines) = {} /\ \E id \in Fresh(lines), u \in Usages :
             line = CountOf(lines, id, u, None)
  <2>1. PICK id \in Fresh(lines), u \in Usages : line = CountOf(lines, id, u, None)
    BY <1>3
  <2>2. id \in Fresh(lines) /\ u \in Usages
    BY <2>1
  <2>3. id = Latest(lines) + 1 /\ id \in Nat
    BY <2>2 DEF Fresh, Latest, History, Numbered
  <2>4. PICK t1 \in Nat \cup {None} : t1 = None
    OBVIOUS
  <2>5. line = CountOf(lines, id, u, t1)
    BY <2>1, <2>4
  <2>6. LineOK(line) /\ NewCount(lines, line) /\ line.id = id /\ line.turn = t1
    BY <2>2, <2>3, <2>5, CountOfOK
  <2>7. LineOK(line) /\ NewCount(lines, line) /\ line.id = id /\ line.turn = None
    BY <2>4, <2>6
  <2> QED
    BY <1>3, <2>3, <2>7 DEF Unrecorded
<1> QED
  BY <1>1, <1>2, <1>3

LEMMA WrittenRepeat ==
    ASSUME NEW lines, History(lines), NEW line \in Repeated(lines)
    PROVE  LineOK(line) /\ Again(lines, line)
<1> DEFINE told == Told(lines) \cup (Of(lines, "count") \ Own(lines))
<1>1. PICK t \in Nat : t = Total(lines) /\ \A n \in Of(lines, "count") : lines[n].total \in 0 .. t
  BY DEF History, IsTotal
<1>2. line = Plain("count") \/ \E n \in told : line = [lines[n] EXCEPT !.id = None, !.own = TRUE]
  BY DEF Repeated
<1>3. CASE line = Plain("count")
  <2>1. "count" \in LineKinds
    BY DEF LineKinds
  <2>2. /\ LineOK(line) /\ line.kind = "count" /\ line.id = None /\ line.total = 0
        /\ line.own = TRUE /\ line.fault = None
    BY <1>3, <2>1, PlainOK
  <2> QED
    BY <1>1, <2>2 DEF Again
<1>4. CASE \E n \in told : line = [lines[n] EXCEPT !.id = None, !.own = TRUE]
  <2>1. PICK n \in told : line = [lines[n] EXCEPT !.id = None, !.own = TRUE]
    BY <1>4
  <2>2. n \in Of(lines, "count") /\ n \in DOMAIN lines /\ lines[n].kind = "count"
    BY <2>1 DEF Told, OwnCounts, Of
  <2>3. lines[n].id # None \/ ~lines[n].own
    BY <2>1, <2>2 DEF Told, Own
  <2>4. LineOK(lines[n])
    BY <2>2 DEF History
  <2>5. lines[n] \in Line /\ lines[n].fault = None /\ (lines[n].total = 0 => lines[n].usage = 0)
    BY <2>2, <2>3, <2>4 DEF LineOK
  <2>6. /\ line \in Line /\ line.id = None /\ line.own /\ line.fault = None
        /\ line.kind = "count" /\ line.total = lines[n].total /\ line.usage = lines[n].usage
    BY <2>1, <2>2, <2>5 DEF Line
  <2>7. lines[n].total <= t
    BY <1>1, <2>2
  <2> QED
    BY <1>1, <2>5, <2>6, <2>7 DEF LineOK, Again
<1> QED
  BY <1>2, <1>3, <1>4

LEMMA WrittenBroken ==
    ASSUME NEW lines, NEW line \in Faulty(lines)
    PROVE  LineOK(line) /\ Broken(lines, line)
<1>1. line \in {Plain("odd"), [Plain("count") EXCEPT !.model = Last(Models), !.fault = "invalid"]}
  BY DEF Faulty
<1>2. CASE line = Plain("odd")
  <2>1. LineOK(line) /\ line.kind = "odd" /\ line.own /\ line.id = None /\ line.total = 0
    BY <1>2, PlainOK DEF LineKinds
  <2> QED
    BY <2>1 DEF Broken
<1>3. CASE line = [Plain("count") EXCEPT !.model = Last(Models), !.fault = "invalid"]
  <2>1. PICK name \in STRING : name = Last(Models)
    BY ModelNames
  <2>2. line = [Plain("count") EXCEPT !.model = name, !.fault = "invalid"]
    BY <1>3, <2>1
  <2>3. /\ line \in Line /\ line.kind = "count" /\ line.own /\ line.id = None
        /\ line.total = 0 /\ line.usage = 0 /\ line.fault = "invalid"
    BY <2>2 DEF Plain, Line, LineKinds
  <2> QED
    BY <2>3 DEF LineOK, Broken
<1> QED
  BY <1>1, <1>2, <1>3

LEMMA WrittenSimple ==
    ASSUME NEW lines, NEW kind \in LineKinds
    PROVE  LineOK(Plain(kind)) /\ Simple(lines, Plain(kind), kind)
BY PlainOK DEF Simple

\* Every line that may be written is of one of these sorts.
LEMMA WrittenSorts ==
    ASSUME NEW lines, History(lines), NEW line \in Written(lines)
    PROVE  /\ LineOK(line)
           /\ \/ Foreign(lines, line) \/ NewTurn(lines, line)
              \/ /\ ~Waits(lines)
                 /\ \/ Simple(lines, line, "human")
                    \/ (Simple(lines, line, "end") /\ line.turn \in {None, TurnOf(lines)})
                    \/ Simple(lines, line, "compacted") \/ Fork(lines, line)
                    \/ NewRecord(lines, line) \/ OldRecord(lines, line)
                    \/ Reports(lines, line) \/ Unrecorded(lines, line)
                    \/ Again(lines, line) \/ Broken(lines, line)
<1>1. CASE Waits(lines)
  <2>1. line \in Parents(lines) \cup Turns(lines)
    BY <1>1 DEF Written, Waits
  <2> QED
    BY <2>1, WrittenForeign, WrittenTurn
<1>2. CASE ~Waits(lines)
  <2>1. \/ line \in Inputs(lines) \/ line \in Turns(lines) \/ line \in Ends(lines)
        \/ line \in Records(lines) \/ line \in Counts(lines) \/ line \in Repeated(lines)
        \/ line \in Faulty(lines) \/ line \in Parents(lines)
        \/ line = Plain("compacted")
        \/ (lines = <<>> /\ line = Plain("fork"))
    BY <1>2 DEF Written, Waits
  <2>2. line \in Inputs(lines) => LineOK(line) /\ Simple(lines, line, "human")
    BY WrittenSimple DEF Inputs, LineKinds
  <2>3. line = Plain("compacted") => LineOK(line) /\ Simple(lines, line, "compacted")
    BY WrittenSimple DEF LineKinds
  <2>4. lines = <<>> /\ line = Plain("fork") => LineOK(line) /\ Fork(lines, line)
    BY WrittenSimple DEF LineKinds, Fork
  <2>5. line \in Repeated(lines) => LineOK(line) /\ Again(lines, line)
    BY WrittenRepeat
  <2> QED
    BY <1>2, <2>1, <2>2, <2>3, <2>4, <2>5, WrittenTurn, WrittenEnd, WrittenRecord, WrittenCount,
       WrittenBroken, WrittenForeign
<1> QED
  BY <1>1, <1>2

\* The sorts that tell of no response.
Quiet(lines, line) ==
    \/ Foreign(lines, line) \/ NewTurn(lines, line)
    \/ /\ ~Waits(lines)
       /\ \/ Simple(lines, line, "human")
          \/ (Simple(lines, line, "end") /\ line.turn \in {None, TurnOf(lines)})
          \/ Simple(lines, line, "compacted") \/ Fork(lines, line)
          \/ OldRecord(lines, line) \/ Again(lines, line) \/ Broken(lines, line)

\* A count of a response.
LEMMA ToldIn ==
    ASSUME NEW lines, History(lines), NEW n \in Told(lines)
    PROVE  /\ n \in 1 .. Len(lines) /\ lines[n].id \in Responses(lines)
           /\ lines[n].kind = "count" /\ lines[n].own /\ lines[n].fault = None
           /\ lines[n].usage \in Usages /\ lines[n].total \in Nat
           /\ lines[n].total <= Total(lines) /\ Total(lines) \in Nat
<1>1. n \in DOMAIN lines /\ lines[n].own /\ lines[n].kind = "count" /\ lines[n].id # None
  BY DEF Told, OwnCounts, Of, Own
<1>2. DOMAIN lines = 1 .. Len(lines)
  BY SeqLength DEF History
<1>3. lines[n].id \in Responses(lines)
  BY <1>1 DEF Responses, Own
<1>4. lines[n].fault = None /\ lines[n].usage \in Usages
  BY <1>1 DEF History, LineOK
<1>5. n \in Of(lines, "count")
  BY <1>1 DEF Of
<1>6. PICK t \in Nat : t = Total(lines) /\ lines[n].total \in 0 .. t
  BY <1>5 DEF History, IsTotal
<1> QED
  BY <1>1, <1>2, <1>3, <1>4, <1>6

\* Of a quiet line only the total of a parent is new.
LEMMA QuietMore ==
    ASSUME NEW lines, History(lines), NEW line, LineOK(line), Quiet(lines, line)
    PROVE  LET more == Append(lines, line)
           IN  /\ Responses(more) = Responses(lines) /\ Recorded(more) = Recorded(lines)
               /\ Told(more) = Told(lines) /\ Latest(more) = Latest(lines)
               /\ Counted(lines) \subseteq Counted(more)
               /\ Counted(more) \subseteq Counted(lines) \cup {None}
               /\ Total(more) = IF line.kind = "count" /\ ~line.own /\ Waits(lines) THEN 2
                                ELSE Total(lines)
               /\ (line.kind = "count" /\ ~line.own) =>
                      /\ Forked(lines)
                      /\ Waits(lines) => Told(lines) = {} /\ Total(lines) \in {0, 2}
<1> DEFINE more == Append(lines, line)
<1>1. line.own \in BOOLEAN /\ line.total \in Nat /\ line.usage \in Nat
  BY DEF LineOK, Line
<1>2. IsSeq(lines) /\ IsTotal(lines, Total(lines))
  BY DEF History
<1>3. /\ line.own /\ line.kind # "record" => line.id = None
      /\ line.own /\ line.kind = "record" => line.id \in Recorded(lines)
      /\ ~line.own => line.id = None /\ Foreign(lines, line)
  BY DEF Quiet, Foreign, NewTurn, Simple, Fork, OldRecord, Again, Broken
<1>4. Recorded(lines) \subseteq Responses(lines) /\ None \notin Responses(lines)
  BY DEF History, Numbered, Responses
<1>5. /\ Responses(more)
             = Responses(lines) \cup ((IF line.own THEN {line.id} ELSE {}) \ {None})
      /\ Recorded(more)
             = Recorded(lines) \cup
                   (IF line.kind = "record" /\ line.own THEN {line.id} ELSE {})
      /\ Counted(more)
             = Counted(lines) \cup
                   (IF line.kind = "count" /\ line.own /\ line.fault = None
                    THEN {line.id} ELSE {})
      /\ Told(more)
             = Told(lines) \cup
                   Adds(lines, line.kind = "count" /\ line.own /\ line.id # None)
  BY <1>1, <1>2, CountsMore
<1>6. Total(more) = IF line.kind = "count" /\ line.total > Total(lines)
                    THEN line.total ELSE Total(lines)
  BY <1>1, <1>2, TotalMore
<1> HIDE DEF more
<1>7. Responses(more) = Responses(lines)
  BY <1>3, <1>4, <1>5
<1>8. Recorded(more) = Recorded(lines)
  BY <1>3, <1>5
<1>9. Told(more) = Told(lines)
  <2>1. ~(line.kind = "count" /\ line.own /\ line.id # None)
    BY <1>3
  <2> QED
    BY <1>5, <2>1 DEF Adds
<1>10. Counted(lines) \subseteq Counted(more) /\ Counted(more) \subseteq Counted(lines) \cup {None}
  BY <1>3, <1>5
<1>11. Latest(more) = Latest(lines)
  BY <1>7 DEF Latest
<1>12. ASSUME line.kind = "count", ~line.own
       PROVE  /\ Forked(lines) /\ line.total = 2
              /\ Waits(lines) => Told(lines) = {} /\ Total(lines) \in {0, 2}
              /\ ~Waits(lines) => Total(lines) >= 2
  <2>1. Foreign(lines, line)
    BY <1>3, <1>12
  <2>2. TurnOf(lines) \in Nat
    BY <1>2, TurnNat
  <2> QED
    BY <1>12, <2>1, <2>2 DEF Foreign, History, Origin, Waits
<1>13. Total(more) = IF line.kind = "count" /\ ~line.own /\ Waits(lines) THEN 2 ELSE Total(lines)
  <2>1. CASE line.kind = "count" /\ ~line.own
    <3>1. PICK t \in Nat : t = Total(lines)
      BY <1>2 DEF IsTotal
    <3> QED
      BY <1>6, <1>12, <2>1, <3>1
  <2>2. CASE line.kind = "count" /\ line.own
    <3>1. Again(lines, line) \/ line.total = 0
      BY <2>2 DEF Quiet, Foreign, NewTurn, Simple, Fork, OldRecord, Broken
    <3>2. Again(lines, line) => line.total <= Total(lines)
      BY DEF Again
    <3>3. Total(lines) \in Nat
      BY <1>2 DEF IsTotal
    <3> QED
      BY <1>1, <1>6, <2>2, <3>1, <3>2, <3>3
  <2>3. CASE line.kind # "count"
    BY <1>6, <2>3
  <2> QED
    BY <1>1, <2>1, <2>2, <2>3
<1> QED
  BY <1>7, <1>8, <1>9, <1>10, <1>11, <1>12, <1>13 DEF more

\* Numbers up to one more.
LEMMA IntervalMore ==
    ASSUME NEW k \in Nat
    PROVE  Cardinality(1 .. k) = k /\ 1 .. (k + 1) = (1 .. k) \cup {k + 1} /\ k + 1 \notin 1 .. k
<1>1. Cardinality(1 .. k) = IF 1 > k THEN 0 ELSE k - 1 + 1
  BY FS_Interval
<1> QED
  BY <1>1

\* A record is of the next response.
LEMMA RecordMore ==
    ASSUME NEW lines, History(lines), NEW line, LineOK(line), NewRecord(lines, line)
    PROVE  LET more == Append(lines, line)
           IN  /\ Responses(more) = 1 .. (Latest(lines) + 1) /\ Recorded(more) = Responses(more)
               /\ Latest(more) = Latest(lines) + 1 /\ line.id \notin Responses(lines)
               /\ Told(more) = Told(lines) /\ Counted(more) = Counted(lines)
               /\ Total(more) = Total(lines)
<1> DEFINE more == Append(lines, line)
<1>1. line.own \in BOOLEAN /\ line.total \in Nat /\ IsSeq(lines) /\ IsTotal(lines, Total(lines))
  BY DEF LineOK, Line, History
<1>2. PICK k \in Nat : k = Latest(lines) /\ Responses(lines) = 1 .. k
  BY DEF History, Numbered
<1>3. line.kind = "record" /\ line.own /\ line.id = k + 1 /\ Recorded(lines) = 1 .. k
  BY <1>2 DEF NewRecord
<1>4. line.id # None
  BY <1>3, NoneAssumption
<1>5. /\ Responses(more)
             = Responses(lines) \cup ((IF line.own THEN {line.id} ELSE {}) \ {None})
      /\ Recorded(more)
             = Recorded(lines) \cup
                   (IF line.kind = "record" /\ line.own THEN {line.id} ELSE {})
      /\ Counted(more)
             = Counted(lines) \cup
                   (IF line.kind = "count" /\ line.own /\ line.fault = None
                    THEN {line.id} ELSE {})
      /\ Told(more)
             = Told(lines) \cup
                   Adds(lines, line.kind = "count" /\ line.own /\ line.id # None)
  BY <1>1, CountsMore
<1>6. Total(more) = IF line.kind = "count" /\ line.total > Total(lines)
                    THEN line.total ELSE Total(lines)
  BY <1>1, TotalMore
<1> HIDE DEF more
<1>7. Responses(more) = 1 .. (k + 1) /\ Recorded(more) = 1 .. (k + 1)
  BY <1>2, <1>3, <1>4, <1>5, IntervalMore
<1>8. Latest(more) = k + 1
  BY <1>7, IntervalMore DEF Latest
<1>9. line.kind # "count"
  BY <1>3
<1>10. Told(more) = Told(lines)
  BY <1>5, <1>9 DEF Adds
<1>11. Counted(more) = Counted(lines) /\ Total(more) = Total(lines)
  BY <1>5, <1>6, <1>9
<1> QED
  BY <1>2, <1>3, <1>7, <1>8, <1>10, <1>11, IntervalMore DEF more

\* A count of a response: of one with a record, or of an unrecorded one.
LEMMA CountMore ==
    ASSUME NEW lines, History(lines), NEW line, LineOK(line),
           Reports(lines, line) \/ Unrecorded(lines, line)
    PROVE  LET more == Append(lines, line)
           IN  /\ line.id # None /\ line.usage \in Nat \ {0} /\ Total(lines) \in Nat
               /\ Recorded(more) = Recorded(lines)
               /\ Counted(more) = Counted(lines) \cup {line.id}
               /\ Told(more) = Told(lines) \cup {Place(lines)}
               /\ Total(more) = line.total /\ line.total = Total(lines) + line.usage
               /\ Reports(lines, line) =>
                      line.id \in Responses(lines) /\ Recorded(lines) # {} /\
                      Responses(more) = Responses(lines) /\ Latest(more) = Latest(lines)
               /\ Unrecorded(lines, line) =>
                      /\ line.id = Latest(lines) + 1 /\ line.id \notin Responses(lines)
                      /\ Responses(more) = 1 .. (Latest(lines) + 1)
                      /\ Latest(more) = Latest(lines) + 1
<1> DEFINE more == Append(lines, line)
<1>1. line.own \in BOOLEAN /\ line.total \in Nat /\ IsSeq(lines) /\ IsTotal(lines, Total(lines))
  BY DEF LineOK, Line, History
<1>2. PICK k \in Nat : k = Latest(lines) /\ Responses(lines) = 1 .. k
  BY DEF History, Numbered
<1>3. NewCount(lines, line)
  BY DEF Reports, Unrecorded
<1>4. /\ line.kind = "count" /\ line.own /\ line.fault = None /\ line.usage \in Usages
      /\ line.total = Total(lines) + line.usage
  BY <1>3 DEF NewCount
<1>5. Reports(lines, line) => line.id \in 1 .. k /\ Recorded(lines) # {}
  BY <1>2, RecordedIn DEF Reports
<1>6. Unrecorded(lines, line) => line.id = k + 1
  BY <1>2 DEF Unrecorded
<1>7. line.id # None
  BY <1>5, <1>6, NoneAssumption
<1>8. line.usage \in Nat \ {0} /\ Total(lines) \in Nat
  BY <1>1, <1>4, SessionAssumption DEF IsTotal
<1>9. /\ Responses(more)
             = Responses(lines) \cup ((IF line.own THEN {line.id} ELSE {}) \ {None})
      /\ Recorded(more)
             = Recorded(lines) \cup
                   (IF line.kind = "record" /\ line.own THEN {line.id} ELSE {})
      /\ Counted(more)
             = Counted(lines) \cup
                   (IF line.kind = "count" /\ line.own /\ line.fault = None
                    THEN {line.id} ELSE {})
      /\ Told(more)
             = Told(lines) \cup
                   Adds(lines, line.kind = "count" /\ line.own /\ line.id # None)
  BY <1>1, CountsMore
<1>10. Total(more) = IF line.kind = "count" /\ line.total > Total(lines)
                     THEN line.total ELSE Total(lines)
  BY <1>1, TotalMore
<1> HIDE DEF more
<1>11. Recorded(more) = Recorded(lines) /\ Counted(more) = Counted(lines) \cup {line.id}
  BY <1>4, <1>9
<1>12. Told(more) = Told(lines) \cup {Place(lines)}
  BY <1>4, <1>7, <1>9 DEF Adds
<1>13. Total(more) = line.total
  BY <1>1, <1>4, <1>8, <1>10
<1>14. Responses(more) = (1 .. k) \cup {line.id}
  BY <1>2, <1>4, <1>7, <1>9
<1>15. Reports(lines, line) => Responses(more) = Responses(lines) /\ Latest(more) = k
  BY <1>2, <1>5, <1>14 DEF Latest
<1>16. Unrecorded(lines, line) => Responses(more) = 1 .. (k + 1) /\ Latest(more) = k + 1
  <2> SUFFICES ASSUME Unrecorded(lines, line)
               PROVE  Responses(more) = 1 .. (k + 1) /\ Latest(more) = k + 1
    OBVIOUS
  <2>1. Responses(more) = 1 .. (k + 1)
    BY <1>6, <1>14, IntervalMore
  <2>2. Cardinality(1 .. (k + 1)) = k + 1
    BY IntervalMore
  <2> QED
    BY <2>1, <2>2 DEF Latest
<1>17. Unrecorded(lines, line) => line.id = k + 1 /\ k + 1 \notin Responses(lines)
  BY <1>2, <1>6
<1> QED
  BY <1>2, <1>4, <1>5, <1>7, <1>8, <1>11, <1>12, <1>13, <1>15, <1>16, <1>17 DEF more

\* Every line continues the history.
LEMMA HistoryStart == History(<<>>)
<1>1. IsSeq(<<>>) /\ DOMAIN <<>> = {}
  BY NoSeq
<1>2. \A kind : Of(<<>>, kind) = {}
  BY DEF Of
<1>3. Own(<<>>) = {}
  BY DEF Own
<1>4. Responses(<<>>) = {} /\ Recorded(<<>>) = {} /\ Told(<<>>) = {} /\ ~Forked(<<>>)
  BY <1>2, <1>3 DEF Responses, Recorded, Told, OwnCounts, Forked
<1>5. Latest(<<>>) = 0 /\ 1 .. 0 = {}
  BY <1>4, FS_EmptySet DEF Latest
<1>6. Total(<<>>) = 0
  <2>1. {0} \cup {(<<>>)[n].total : n \in Of(<<>>, "count")} = {0}
    BY <1>2
  <2>2. Max({0}) = 0
    BY MaxIs
  <2> QED
    BY <2>1, <2>2 DEF Total
<1>7. Numbered(<<>>)
  <2>1. Responses(<<>>) = 1 .. Latest(<<>>)
    BY <1>4, <1>5
  <2>2. Recorded(<<>>) \in {{}, Responses(<<>>)} /\ Latest(<<>>) \in Nat
    BY <1>4, <1>5
  <2> QED
    BY <2>1, <2>2 DEF Numbered
<1>8. IsTotal(<<>>, 0) /\ Origin(<<>>)
  BY <1>2, <1>4, <1>6 DEF IsTotal, Origin, Waits
<1> QED
  BY <1>1, <1>6, <1>7, <1>8 DEF History

LEMMA ForkMore ==
    ASSUME NEW lines, History(lines), NEW line, LineOK(line),
           Quiet(lines, line) \/ NewRecord(lines, line)
               \/ Reports(lines, line) \/ Unrecorded(lines, line)
    PROVE  LET more == Append(lines, line)
           IN  /\ line.kind = "fork" => lines = <<>> /\ Fork(lines, line)
               /\ Of(more, "fork") \subseteq {1}
               /\ Forked(lines) => Forked(more)
               /\ Forked(more) => Forked(lines) \/ Fork(lines, line)
               /\ line.kind # "fork" => (Forked(more) <=> Forked(lines))
<1> DEFINE more == Append(lines, line)
<1>1. Of(more, "fork") = Of(lines, "fork") \cup Adds(lines, line.kind = "fork")
  BY OfMore DEF History
<1> HIDE DEF more
<1>2. line.kind = "fork" => lines = <<>> /\ Fork(lines, line)
  BY DEF Quiet, NewRecord, Reports, Unrecorded, NewCount, Foreign, NewTurn, Simple, Fork, OldRecord,
         Again, Broken
<1>3. Place(<<>>) = 1
  BY NoSeq DEF Place
<1>4. Of(lines, "fork") \subseteq {1}
  BY DEF History, Origin
<1>5. line.kind = "fork" => Of(more, "fork") = {1}
  BY <1>1, <1>2, <1>3, <1>4 DEF Adds
<1>6. line.kind # "fork" => Of(more, "fork") = Of(lines, "fork")
  BY <1>1 DEF Adds
<1>7. Of(more, "fork") \subseteq {1}
  BY <1>4, <1>5, <1>6
<1>8. /\ Forked(lines) => Forked(more)
      /\ Forked(more) => Forked(lines) \/ Fork(lines, line)
      /\ line.kind # "fork" => (Forked(more) <=> Forked(lines))
  BY <1>2, <1>5, <1>6 DEF Forked
<1> QED
  BY <1>2, <1>7, <1>8 DEF more

\* The next line is Doubtful.
Misread(lines, line) ==
    /\ line.kind = "count" /\ line.id = None /\ line.fault = None /\ ~Waits(lines)
    /\ IF Told(lines) = {} /\ Total(lines) > 0
       THEN \E id \in Recorded(lines) : ~IsSettled(lines, id)
       ELSE /\ line.usage # 0 /\ line.total # Total(lines)
            /\ ~Stale(line.total, Total(lines), line.usage)

LEMMA Misleading ==
    ASSUME NEW lines, IsSeq(lines), NEW line, ~Misleads(Append(lines, line))
    PROVE  ~Misleads(lines) /\ ~Misread(lines, line)
<1> DEFINE more == Append(lines, line)
<1>1. PICK m \in Nat : m = Len(lines)
  BY SeqLength
<1>2. /\ DOMAIN lines = 1 .. m /\ DOMAIN more = 1 .. m + 1
      /\ more[m + 1] = line /\ \A i \in 1 .. m : more[i] = lines[i]
  BY <1>1, LinesMore DEF Place
<1>3. /\ \A n \in 1 .. m + 1 : SubSeq(more, 1, n - 1) = SubSeq(lines, 1, n - 1)
      /\ SubSeq(lines, 1, m) = lines
  BY <1>1, PrefixesMore
<1>4. \A n \in 1 .. m + 1 : ~Doubtful(more, n)
  BY <1>2 DEF Misleads
<1> HIDE DEF more
<1>5. ASSUME NEW n \in 1 .. m
      PROVE  Doubtful(lines, n) => Doubtful(more, n)
  <2>1. SubSeq(more, 1, n - 1) = SubSeq(lines, 1, n - 1) /\ more[n] = lines[n]
    BY <1>2, <1>3
  <2> QED
    BY <2>1 DEF Doubtful
<1>6. SubSeq(more, 1, (m + 1) - 1) = lines
  <2>1. (m + 1) - 1 = m /\ m + 1 \in 1 .. m + 1
    OBVIOUS
  <2> QED
    BY <1>3, <2>1
<1>7. Misread(lines, line) => Doubtful(more, m + 1)
  BY <1>2, <1>6 DEF Misread, Doubtful, Waits
<1> QED
  BY <1>2, <1>4, <1>5, <1>7 DEF Misleads

\* All sorts of lines.
Sort(lines, line) ==
    \/ Quiet(lines, line) \/ NewRecord(lines, line)
    \/ Reports(lines, line) \/ Unrecorded(lines, line)

\* While a child waits it writes what its parent had, or a turn.
LEMMA SortsOf ==
    ASSUME NEW lines, History(lines), NEW line \in Written(lines)
    PROVE  /\ LineOK(line) /\ Sort(lines, line)
           /\ Waits(lines) => Foreign(lines, line) \/ NewTurn(lines, line)
BY WrittenSorts DEF Sort, Quiet

LEMMA WaitsMore ==
    ASSUME NEW lines, History(lines), NEW line, LineOK(line), Sort(lines, line)
    PROVE  LET more == Append(lines, line)
           IN  /\ line.kind # "fork" /\ ~(line.kind = "turn" /\ line.own) =>
                      (Waits(more) <=> Waits(lines))
               /\ line.kind = "turn" /\ line.own => ~Waits(more) /\ TurnOf(more) # 0
               /\ Fork(lines, line) => Waits(more)
<1> DEFINE more == Append(lines, line)
<1>1. TurnOf(lines) \in Nat
      /\ TurnOf(more) = TurnOf(lines) + (IF line.kind = "turn" /\ line.own THEN 1 ELSE 0)
  BY TurnMore DEF History, LineOK, Line
<1>2. /\ line.kind # "fork" => (Forked(more) <=> Forked(lines))
      /\ Of(more, "fork") \subseteq {1}
  BY ForkMore DEF Sort
<1>3. Fork(lines, line) => Forked(more) /\ TurnOf(more) = 0
  <2> SUFFICES ASSUME Fork(lines, line) PROVE Forked(more) /\ TurnOf(more) = 0
    OBVIOUS
  <2>1. lines = <<>> /\ line.kind = "fork"
    BY DEF Fork, Simple
  <2>2. TurnOf(<<>>) = 0
    <3>1. Of(<<>>, "turn") \cap Own(<<>>) = {}
      BY DEF Of
    <3> QED
      BY <3>1, FS_EmptySet DEF TurnOf
  <2>3. Of(more, "fork") = Of(lines, "fork") \cup Adds(lines, line.kind = "fork")
    BY OfMore DEF History
  <2>4. Forked(more)
    BY <2>1, <2>3 DEF Forked, Adds
  <2> QED
    BY <1>1, <2>1, <2>2, <2>4
<1> HIDE DEF more
<1>4. line.kind # "fork" /\ ~(line.kind = "turn" /\ line.own) => (Waits(more) <=> Waits(lines))
  BY <1>1, <1>2 DEF Waits
<1>5. line.kind = "turn" /\ line.own => ~Waits(more) /\ TurnOf(more) # 0
  BY <1>1 DEF Waits
<1>6. Fork(lines, line) => Waits(more)
  BY <1>3 DEF Waits
<1> QED
  BY <1>4, <1>5, <1>6 DEF more

LEMMA OriginMore ==
    ASSUME NEW lines, History(lines), NEW line, LineOK(line), Sort(lines, line),
           Waits(lines) => Foreign(lines, line) \/ NewTurn(lines, line)
    PROVE  Origin(Append(lines, line))
<1> DEFINE more == Append(lines, line)
<1>1. Origin(lines)
  BY DEF History
<1>2. Of(more, "fork") \subseteq {1} /\ (Forked(lines) => Forked(more))
  BY ForkMore DEF Sort
<1>3. Quiet(lines, line) \/ NewRecord(lines, line) =>
          Told(more) = Told(lines) /\ (Total(more) = Total(lines) \/ (Total(more) = 2 /\ Forked(lines)))
  <2>1. Quiet(lines, line) =>
          Told(more) = Told(lines) /\ (Total(more) = Total(lines) \/ (Total(more) = 2 /\ Forked(lines)))
    BY QuietMore
  <2>2. NewRecord(lines, line) => Told(more) = Told(lines) /\ Total(more) = Total(lines)
    BY RecordMore
  <2> QED
    BY <2>1, <2>2
<1>4. Reports(lines, line) \/ Unrecorded(lines, line) => Told(more) # {}
  BY CountMore
<1>5. ASSUME Waits(more)
      PROVE  Responses(more) = {} /\ Told(more) = {}
  <2>1. Quiet(lines, line) => Responses(more) = Responses(lines) /\ Told(more) = Told(lines)
    BY QuietMore
  <2>2. CASE Fork(lines, line)
    <3>1. lines = <<>> /\ Quiet(lines, line)
      <4>1. ~Waits(lines)
        <5>1. Of(<<>>, "fork") = {}
          BY DEF Of
        <5> QED
          BY <2>2, <5>1 DEF Fork, Waits, Forked
      <4> QED
        BY <2>2, <4>1 DEF Fork, Quiet
    <3>2. Responses(<<>>) = {} /\ Told(<<>>) = {}
      <4>1. \A kind : Of(<<>>, kind) = {}
        BY DEF Of
      <4>2. Own(<<>>) = {}
        BY DEF Own
      <4> QED
        BY <4>1, <4>2 DEF Responses, Told, OwnCounts
    <3> QED
      BY <2>1, <3>1, <3>2
  <2>3. CASE ~Fork(lines, line)
    <3>1. line.kind # "fork"
      BY <2>3, ForkMore DEF Sort
    <3>2. ~(line.kind = "turn" /\ line.own)
      BY <1>5, WaitsMore
    <3>3. Waits(lines)
      BY <1>5, <3>1, <3>2, WaitsMore
    <3>4. Quiet(lines, line) /\ Responses(lines) = {} /\ Told(lines) = {}
      BY <1>1, <3>3 DEF Origin, Quiet
    <3> QED
      BY <2>1, <3>4
  <2> QED
    BY <2>2, <2>3
<1> HIDE DEF more
<1>6. Told(more) = {} => Total(more) \in {0, 2} /\ (Total(more) = 2 => Forked(more))
  BY <1>1, <1>2, <1>3, <1>4 DEF Origin, Sort
<1>7. Origin(more)
  BY <1>2, <1>5, <1>6 DEF Origin
<1> QED
  BY <1>7 DEF more

LEMMA HistoryMore ==
    ASSUME NEW lines, History(lines), NEW line \in Written(lines)
    PROVE  History(Append(lines, line))
<1> DEFINE more == Append(lines, line)
<1>1. /\ LineOK(line) /\ Sort(lines, line)
      /\ Waits(lines) => Foreign(lines, line) \/ NewTurn(lines, line)
  BY SortsOf
<1>2. Origin(more)
  BY <1>1, OriginMore
<1>3. IsTotal(more, Total(more))
  BY <1>1, TotalMore DEF History, LineOK, Line
<1>4. IsSeq(more) /\ \A n \in DOMAIN more : LineOK(more[n])
  <2>1. /\ IsSeq(more) /\ Len(lines) \in Nat /\ DOMAIN lines = 1 .. Len(lines)
        /\ DOMAIN more = 1 .. Len(lines) + 1 /\ more[Len(lines) + 1] = line
        /\ \A i \in 1 .. Len(lines) : more[i] = lines[i]
    BY LinesMore DEF History, Place
  <2>2. \A n \in 1 .. Len(lines) : LineOK(lines[n])
    BY <2>1 DEF History
  <2>3. \A n \in 1 .. Len(lines) + 1 : n = Len(lines) + 1 \/ n \in 1 .. Len(lines)
    BY <2>1
  <2> HIDE DEF more
  <2> QED
    BY <1>1, <2>1, <2>2, <2>3
<1>5. Numbered(more)
  <2>1. Numbered(lines)
    BY DEF History
  <2>2. CASE Quiet(lines, line)
    <3>1. /\ Responses(more) = Responses(lines) /\ Recorded(more) = Recorded(lines)
          /\ Latest(more) = Latest(lines)
      BY <1>1, <2>2, QuietMore
    <3> QED
      BY <2>1, <3>1 DEF Numbered
  <2>3. CASE NewRecord(lines, line)
    <3>1. /\ Responses(more) = 1 .. (Latest(lines) + 1) /\ Recorded(more) = Responses(more)
          /\ Latest(more) = Latest(lines) + 1
      BY <1>1, <2>3, RecordMore
    <3> QED
      BY <2>1, <3>1 DEF Numbered
  <2>4. CASE Reports(lines, line)
    <3>1. /\ Responses(more) = Responses(lines) /\ Recorded(more) = Recorded(lines)
          /\ Latest(more) = Latest(lines)
      BY <1>1, <2>4, CountMore
    <3> QED
      BY <2>1, <3>1 DEF Numbered
  <2>5. CASE Unrecorded(lines, line)
    <3>1. /\ Responses(more) = 1 .. (Latest(lines) + 1) /\ Recorded(more) = Recorded(lines)
          /\ Latest(more) = Latest(lines) + 1
      BY <1>1, <2>5, CountMore
    <3>2. Recorded(lines) = {}
      BY <2>5 DEF Unrecorded
    <3> QED
      BY <2>1, <3>1, <3>2 DEF Numbered
  <2> QED
    BY <1>1, <2>2, <2>3, <2>4, <2>5 DEF Sort
<1> QED
  BY <1>2, <1>3, <1>4, <1>5 DEF History

\* What closes a response that was open.
Closes(lines, line, id) ==
    \/ line.kind = "count" /\ line.own /\ line.id = id
    \/ line.kind = "record" /\ line.own /\ line.id # id
    \/ line.kind = "turn" /\ line.own
    \/ line.kind = "end" /\ line.own /\ line.turn \in {None, TurnIn(lines, id)}
    \/ /\ line.kind = "count" /\ line.own /\ line.id = None /\ line.fault = None
       /\ \E n \in OwnOf(lines, "compacted") : n > FirstOf(lines, id)

\* A line that does not close a response leaves it open.
LEMMA ClosedMore ==
    ASSUME NEW lines, History(lines), NEW line, LineOK(line), NEW id \in Responses(lines),
           ~IsSettled(lines, id), ~Closes(lines, line, id)
    PROVE  ~IsSettled(Append(lines, line), id)
<1> DEFINE more == Append(lines, line)
           first == FirstOf(lines, id)
           turn == TurnIn(lines, id)
           Later(q, kind) == {n \in OwnOf(q, kind) : n > first}
<1>1. IsSeq(lines) /\ line.own \in BOOLEAN
  BY DEF History, LineOK, Line
<1>2. PICK m \in Nat : /\ m = Len(lines) /\ Place(lines) = m + 1 /\ more[m + 1] = line
                       /\ \A i \in 1 .. m : more[i] = lines[i]
  BY <1>1, LinesMore, SeqLength DEF Place
<1>3. FirstOf(more, id) = first /\ TurnIn(more, id) = turn
  BY <1>1, ResponseIn, FirstMore
<1>4. \A kind : /\ OwnOf(more, kind) = OwnOf(lines, kind) \cup Adds(lines, line.kind = kind /\ line.own)
                /\ OwnOf(lines, kind) \subseteq 1 .. m
  BY <1>1, <1>2, OwnOfMore
<1>5. Counted(more)
          = Counted(lines) \cup
                (IF line.kind = "count" /\ line.own /\ line.fault = None THEN {line.id} ELSE {})
  BY <1>1, CountsMore
<1>6. /\ id \notin Counted(lines)
      /\ \A n \in Later(lines, "record") : lines[n].id = id
      /\ Later(lines, "turn") = {}
      /\ \A n \in Later(lines, "end") : lines[n].turn \notin {None, turn}
      /\ \A n \in Later(lines, "compacted"), k \in Later(lines, "count") :
             ~(k > n /\ lines[k].id = None /\ lines[k].fault = None)
  BY DEF IsSettled, OwnOf
<1>7. first \in 1 .. m
  BY <1>2, ResponseIn
<1> HIDE DEF more, first, turn, Later
<1>8. \A kind : Later(more, kind) \subseteq Later(lines, kind) \cup Adds(lines, line.kind = kind /\ line.own)
  BY <1>4 DEF Later
<1>9. \A kind : Later(lines, kind) \subseteq 1 .. m
  BY <1>4 DEF Later
<1>10. id \notin Counted(more)
  BY <1>5, <1>6 DEF Closes
<1>11. \A n \in Later(more, "record") : more[n].id = id
  <2> TAKE n \in Later(more, "record")
  <2>1. CASE n \in Later(lines, "record")
    BY <1>2, <1>6, <1>9, <2>1
  <2>2. CASE n \notin Later(lines, "record")
    <3>1. n = m + 1 /\ line.kind = "record" /\ line.own
      BY <1>2, <1>8, <2>2 DEF Adds
    <3> QED
      BY <1>2, <3>1 DEF Closes
  <2> QED
    BY <2>1, <2>2
<1>12. Later(more, "turn") = {}
  BY <1>6, <1>8 DEF Closes, Adds
<1>13. \A n \in Later(more, "end") : more[n].turn \notin {None, turn}
  <2> TAKE n \in Later(more, "end")
  <2>1. CASE n \in Later(lines, "end")
    BY <1>2, <1>6, <1>9, <2>1
  <2>2. CASE n \notin Later(lines, "end")
    <3>1. n = m + 1 /\ line.kind = "end" /\ line.own
      BY <1>2, <1>8, <2>2 DEF Adds
    <3> QED
      BY <1>2, <3>1 DEF Closes, turn
  <2> QED
    BY <2>1, <2>2
<1>14. ASSUME NEW n \in Later(more, "compacted"), NEW k \in Later(more, "count"),
              k > n, more[k].id = None, more[k].fault = None
       PROVE  FALSE
  <2>1. n \in Later(lines, "compacted") \/ (n = m + 1 /\ line.kind = "compacted")
    BY <1>2, <1>8 DEF Adds
  <2>2. k \in Later(lines, "count") \/ (k = m + 1 /\ line.kind = "count" /\ line.own)
    BY <1>2, <1>8 DEF Adds
  <2>3. CASE k \in Later(lines, "count")
    <3>1. k \in 1 .. m /\ more[k] = lines[k]
      BY <1>2, <1>9, <2>3
    <3>2. n \in Later(lines, "compacted")
      BY <1>14, <2>1, <3>1
    <3> QED
      BY <1>6, <1>14, <2>3, <3>1, <3>2
  <2>4. CASE k = m + 1 /\ line.kind = "count" /\ line.own
    <3>1. n \in Later(lines, "compacted")
      BY <2>1, <2>4
    <3>2. n \in OwnOf(lines, "compacted") /\ n > FirstOf(lines, id)
      BY <3>1 DEF Later, first
    <3> QED
      BY <1>2, <1>14, <2>4, <3>2 DEF Closes
  <2> QED
    BY <2>2, <2>3, <2>4
<1>15. SUFFICES ~IsSettled(more, id)
  BY DEF more
<1>16. IsSettled(more, id) =>
          \/ id \in Counted(more)
          \/ \E n \in Later(more, "record") : more[n].id # id
          \/ Later(more, "turn") # {}
          \/ \E n \in Later(more, "end") : more[n].turn \in {None, turn}
          \/ \E n \in Later(more, "compacted"), k \in Later(more, "count") :
                 k > n /\ more[k].id = None /\ more[k].fault = None
  BY <1>3 DEF IsSettled, OwnOf, Later
<1> QED
  BY <1>10, <1>11, <1>12, <1>13, <1>14, <1>16

-----------------------------------------------------------------------------
(* What the operations of the parser change in its state.                    *)

\* All fields but some are what they were.
Keeps(t, s, F) == StateOK(t) /\ \A f \in StateFields \ F : t[f] = s[f]

\* One field or one list is set, and the others are kept.
LEMMA SetField ==
    ASSUME NEW s, StateOK(s), NEW f \in Looked, NEW v
    PROVE  LET t == [s EXCEPT ![f] = v] IN Keeps(t, s, {f}) /\ t[f] = v
<1>1. f \in StateFields /\ f \notin {"messages", "unmodelled", "rejected"}
      /\ {"messages", "unmodelled", "rejected"} \subseteq StateFields
  BY Fields DEF Looked
<1> QED
  BY <1>1 DEF StateOK, Keeps

LEMMA SetList ==
    ASSUME NEW s, StateOK(s), NEW f \in {"messages", "unmodelled"}, NEW v, IsSeq(v)
    PROVE  LET t == [s EXCEPT ![f] = v] IN Keeps(t, s, {f}) /\ t[f] = v
<1>1. {"messages", "unmodelled", "rejected"} \subseteq StateFields
  BY Fields
<1> QED
  BY <1>1 DEF StateOK, Keeps

\* A rejection changes nothing else; an interruption interrupts.
LEMMA RejectedEffect ==
    ASSUME NEW s, StateOK(s)
    PROVE  Keeps(Rejected(s), s, {"rejected"}) /\ Interrupted(s).interrupted
<1>1. {"messages", "unmodelled", "rejected", "interrupted"} \subseteq StateFields
  BY Fields
<1>2. Keeps(Rejected(s), s, {"rejected"})
  BY <1>1 DEF StateOK, Keeps, Rejected
<1>3. Interrupted(s).interrupted
  BY <1>1, <1>2 DEF Interrupted, Keeps, StateOK
<1> QED
  BY <1>2, <1>3

\* Settlement appends to the messages and to what is settled.
LEMMA SettledEffect ==
    ASSUME NEW s, StateOK(s), s.pending # None
    PROVE  LET p == s.pending
               start == p.start /\ s.started
               t == Settled(s)
           IN  /\ Keeps(t, s, {"pending", "started", "messages", "settled"})
               /\ t.pending = None /\ t.started = (s.started /\ ~start)
               /\ t.messages = Append(s.messages, Message(p.usage, p.model, start))
               /\ t.settled = Append(s.settled, [usage |-> p.usage, turn |-> p.turn,
                                                 model |-> p.model])
<1> DEFINE p == s.pending
           start == p.start /\ s.started
           left == s.started /\ ~start
           messages == Append(s.messages, Message(p.usage, p.model, start))
           settled == Append(s.settled, [usage |-> p.usage, turn |-> p.turn,
                                         model |-> p.model])
           a == [s EXCEPT !.messages = messages]
           b == [a EXCEPT !.pending = None]
           c == [b EXCEPT !.started = left]
           d == [c EXCEPT !.settled = settled]
<1>1. Settled(s) = d
  BY Fields DEF Settled, StateOK
<1>2. IsSeq(messages)
  BY SeqAppend DEF StateOK
<1> HIDE DEF messages, settled, left
<1>3. /\ {"pending", "started", "settled"} \subseteq Looked
      /\ \A x, y, F : Keeps(x, y, F) => StateOK(x)
  BY Fields DEF Keeps
<1>4. Keeps(a, s, {"messages"}) /\ a.messages = messages
  BY <1>2, SetList
<1> HIDE DEF a
<1>5. Keeps(b, a, {"pending"}) /\ b.pending = None
  BY <1>3, <1>4, SetField
<1> HIDE DEF b
<1>6. Keeps(c, b, {"started"}) /\ c.started = left
  BY <1>3, <1>5, SetField
<1> HIDE DEF c
<1>7. Keeps(d, c, {"settled"}) /\ d.settled = settled
  BY <1>3, <1>6, SetField
<1> HIDE DEF d
<1>8. /\ Keeps(d, s, {"pending", "started", "messages", "settled"})
      /\ d.pending = None /\ d.started = left /\ d.messages = messages /\ d.settled = settled
  BY <1>4, <1>5, <1>6, <1>7, Fields DEF Keeps
<1> QED
  BY <1>1, <1>8 DEF messages, settled, left

\* The messages of a list that is given its model.
Given(w, model) == [n \in DOMAIN w |-> [w[n] EXCEPT !.model = model]]

\* Those that wait for a model join the others.
LEMMA ModelledEffect ==
    ASSUME NEW s, StateOK(s), NEW model, model # None
    PROVE  LET t == Modelled(s, model)
           IN  /\ Keeps(t, s, {"model", "unmodelled", "messages"})
               /\ t.model = model /\ t.unmodelled = <<>>
               /\ IsSeq(Given(s.unmodelled, model))
               /\ t.messages = s.messages \o Given(s.unmodelled, model)
<1> DEFINE w == s.unmodelled
           x == Given(w, model)
           a == [s EXCEPT !.messages = s.messages \o x]
           b == [a EXCEPT !.model = model]
           c == [b EXCEPT !.unmodelled = <<>>]
<1>1. IsSeq(x)
  <2>1. IsSeq(w)
    BY DEF StateOK
  <2> HIDE DEF w
  <2>2. Len(w) \in Nat /\ DOMAIN w = 1 .. Len(w)
    BY <2>1, SeqLength
  <2> DEFINE S == {[w[n] EXCEPT !.model = model] : n \in DOMAIN w}
  <2>3. x \in [1 .. Len(w) -> S]
    BY <2>2 DEF Given
  <2>4. x \in Seq(S)
    BY <2>2, <2>3, SeqDef
  <2> QED
    BY <2>4 DEF IsSeq
<1>2. Modelled(s, model) = c
  BY Fields DEF Modelled, StateOK, Given
<1> HIDE DEF x
<1>3. IsSeq(s.messages \o x)
  BY <1>1, SeqConcat DEF StateOK
<1>4. "model" \in Looked /\ \A y, z, F : Keeps(y, z, F) => StateOK(y)
  BY Fields DEF Keeps
<1>5. Keeps(a, s, {"messages"}) /\ a.messages = s.messages \o x
  BY <1>3, SetList
<1> HIDE DEF a
<1>6. Keeps(b, a, {"model"}) /\ b.model = model
  BY <1>4, <1>5, SetField
<1> HIDE DEF b
<1>7. Keeps(c, b, {"unmodelled"}) /\ c.unmodelled = <<>>
  BY <1>4, <1>6, SetList, NoSeq
<1> HIDE DEF c
<1>8. /\ Keeps(c, s, {"model", "unmodelled", "messages"})
      /\ c.model = model /\ c.unmodelled = <<>> /\ c.messages = s.messages \o x
  BY <1>5, <1>6, <1>7, Fields DEF Keeps
<1> QED
  BY <1>1, <1>2, <1>8 DEF x

\* A message joins those with a model or those that wait for one.
LEMMA EmittedEffect ==
    ASSUME NEW s, StateOK(s), NEW line, NEW model
    PROVE  LET t == Emitted(s, line, model)
               message == Message(line.usage, model, s.started)
           IN  /\ Keeps(t, s, {"started", "messages", "unmodelled"}) /\ t.started = FALSE
               /\ model # None => /\ t.messages = Append(s.messages, message)
                                  /\ t.unmodelled = s.unmodelled
               /\ model = None => /\ t.unmodelled = Append(s.unmodelled, message)
                                  /\ t.messages = s.messages
<1> DEFINE message == Message(line.usage, model, s.started)
           a == [s EXCEPT !.started = FALSE]
           b == [a EXCEPT !.messages = Append(s.messages, message)]
           c == [a EXCEPT !.unmodelled = Append(s.unmodelled, message)]
<1>1. Keeps(a, s, {"started"}) /\ a.started = FALSE
  BY SetField, Fields
<1>2. a.messages = s.messages /\ a.unmodelled = s.unmodelled
  BY <1>1, Fields DEF Keeps
<1>3. Emitted(s, line, model) = IF model # None THEN b ELSE c
  <2>1. Emitted(s, line, model) = IF model # None
                                  THEN [a EXCEPT !.messages = Append(a.messages, message)]
                                  ELSE [a EXCEPT !.unmodelled = Append(a.unmodelled, message)]
    BY DEF Emitted
  <2> QED
    BY <1>2, <2>1
<1>4. IsSeq(Append(s.messages, message)) /\ IsSeq(Append(s.unmodelled, message))
  BY SeqAppend DEF StateOK
<1>5. StateOK(a)
  BY <1>1 DEF Keeps
<1> HIDE DEF message, a
<1>6. Keeps(b, a, {"messages"}) /\ b.messages = Append(s.messages, message)
  BY <1>5, <1>4, SetList
<1>7. Keeps(c, a, {"unmodelled"}) /\ c.unmodelled = Append(s.unmodelled, message)
  BY <1>5, <1>4, SetList
<1> HIDE DEF b, c
<1>8. CASE model # None
  BY <1>1, <1>2, <1>3, <1>6, <1>8, Fields DEF Keeps, message
<1>9. CASE model = None
  BY <1>1, <1>2, <1>3, <1>7, <1>9, Fields DEF Keeps, message
<1> QED
  BY <1>8, <1>9

-----------------------------------------------------------------------------
(* What the parser has made of the lines of a session.                       *)

\* Messages and signatures: those of a usage, those that start a turn, and those of
\* some turns.
Messages == [usage : Usages, model : STRING \cup {None}, start : BOOLEAN]
Signatures == [usage : Usages, turn : Nat, model : STRING]
Using(u) == {m \in Messages : m.usage = u}
Starting == {m \in Messages : m.start}
Owing(u, T) == {q \in Signatures : q.usage = u /\ q.turn \in T}

\* The types of what the parser keeps.
Typed(s) ==
    /\ StateOK(s) /\ s.started \in BOOLEAN /\ s.settled \in Seq(Signatures)
    /\ s.messages \in Seq(Messages) /\ s.unmodelled \in Seq(Messages)
    /\ s.model \in STRING \cup {None}
    /\ s.pending # None =>
         s.pending \in Held /\ s.pending.usage \in Usages /\ s.pending.turn # None

\* What a record that is held back stands for.
Holds(s, u) == IF s.pending # None /\ s.pending.usage = u THEN 1 ELSE 0
HoldsIn(s, u, T) ==
    IF s.pending # None /\ s.pending.usage = u /\ s.pending.turn \in T THEN 1 ELSE 0

\* Per usage, the messages and what is held back; the records a count can still
\* find; the turn starts, given and due.
Tally(s, u) == Number(s.messages, Using(u)) + Number(s.unmodelled, Using(u)) + Holds(s, u)
Debt(s, u, T) == Number(s.settled, Owing(u, T)) + HoldsIn(s, u, T)
Marks(s) == Number(s.messages, Starting) + Number(s.unmodelled, Starting)
Due(s) == IF s.started THEN 1 ELSE 0

\* The human inputs.
Humans(lines) == OwnOf(lines, "human")

\* The recorded responses whose count is still to come, of a usage in some turns;
\* the turns a count can name.
Awaited(lines, u, T) ==
    {id \in Recorded(lines) \ Counted(lines) : UsageOf(lines, id) = u /\ TurnIn(lines, id) \in T}

Scopes(lines) ==
    UNION {IF named THEN {{t} : t \in Nat} ELSE {Nat} : named \in Naming(lines)}

\* The counts of a session name their turns or do not.
Uniform(lines) ==
    /\ \A n \in Told(lines), m \in Told(lines) :
           lines[n].turn = None <=> lines[m].turn = None
    /\ Recorded(lines) = {} => \A n \in Told(lines) : lines[n].turn = None

\* Every response is a message or is held back.
Tallied(lines, s) == \A u \in Usages : Tally(s, u) = Cardinality(With(lines, u))

\* A count that is still to come finds the record it reports.
Expected(lines, s) ==
    \A u \in Usages : \A T \in Scopes(lines) : Debt(s, u, T) >= Cardinality(Awaited(lines, u, T))

\* The first response that is counted after a human input is marked.
Marked(lines, s) ==
    /\ Marks(s) + Due(s) <= Cardinality(Humans(lines))
    /\ Marks(s) = 0 =>
         /\ Humans(lines) # {} => s.started
         /\ \A id \in Responses(lines) : \A n \in Humans(lines) :
                n < FirstOf(lines, id) => s.pending # None /\ id = Latest(lines) /\ s.pending.start

\* The books the parser keeps of the session.
Books(lines, s) == Tallied(lines, s) /\ Expected(lines, s) /\ Marked(lines, s)

\* What is held back is the record of the last response, which may go on.
HoldingLatest(lines, s) ==
    s.pending # None =>
        LET id == Latest(lines)
        IN  /\ id \in Recorded(lines) /\ UsageOf(lines, id) = s.pending.usage
            /\ s.pending.turn = TurnOf(lines) /\ TurnIn(lines, id) = TurnOf(lines)
            /\ ~IsSettled(lines, id)
            /\ (\E n \in OwnOf(lines, "compacted") : n > FirstOf(lines, id)) => s.pending.compacted

\* Where the parser is.
Context(lines, s) ==
    /\ s.waiting <=> Waits(lines)
    /\ s.waiting /\ Of(lines, "parent") # {} => s.replaying
    /\ TurnOf(lines) > 0 => s.model # None /\ s.turn = TurnOf(lines) /\ s.unmodelled = <<>>
    /\ s.seen = Recorded(lines)
    /\ Recorded(lines) = {} => s.pending = None /\ s.settled = <<>>
    /\ s.previous = Total(lines)
    /\ s.baseline = IF Told(lines) = {} THEN Total(lines) ELSE 0

\* The invariant of the parser along the lines of a session.
Follows(lines, s) ==
    /\ Typed(s) /\ Context(lines, s) /\ Books(lines, s) /\ HoldingLatest(lines, s)

-----------------------------------------------------------------------------
(* Settlement and models.                                                    *)

\* The numbers are natural.
LEMMA TypedNumbers ==
    ASSUME NEW s, Typed(s)
    PROVE  /\ IsSeq(s.messages) /\ IsSeq(s.unmodelled) /\ IsSeq(s.settled)
           /\ Marks(s) \in Nat /\ Due(s) \in 0 .. 1
           /\ \A u : Tally(s, u) \in Nat /\ \A T : Debt(s, u, T) \in Nat
<1>1. IsSeq(s.messages) /\ IsSeq(s.unmodelled) /\ IsSeq(s.settled)
  BY DEF Typed, IsSeq
<1>2. \A S : /\ Number(s.messages, S) \in Nat /\ Number(s.unmodelled, S) \in Nat
             /\ Number(s.settled, S) \in Nat
  BY <1>1, NumberNat
<1>3. \A u : Holds(s, u) \in Nat /\ \A T : HoldsIn(s, u, T) \in Nat
  BY DEF Holds, HoldsIn
<1>4. Marks(s) \in Nat /\ Due(s) \in 0 .. 1
  BY <1>2 DEF Marks, Due
<1>5. \A u : Tally(s, u) \in Nat
  BY <1>2, <1>3 DEF Tally
<1>6. \A u : \A T : Debt(s, u, T) \in Nat
  BY <1>2, <1>3 DEF Debt
<1> QED
  BY <1>1, <1>4, <1>5, <1>6

\* Only these fields are looked at.
LEMMA SameBooks ==
    ASSUME NEW s, NEW t, t.messages = s.messages, t.unmodelled = s.unmodelled,
           t.settled = s.settled, t.pending = s.pending, t.started = s.started
    PROVE  /\ \A u : Tally(t, u) = Tally(s, u) /\ \A T : Debt(t, u, T) = Debt(s, u, T)
           /\ Marks(t) = Marks(s) /\ Due(t) = Due(s)
           /\ \A lines : /\ Books(lines, t) <=> Books(lines, s)
                         /\ HoldingLatest(lines, t) <=> HoldingLatest(lines, s)
           /\ Typed(s) /\ StateOK(t) /\ t.model \in STRING \cup {None} => Typed(t)
<1>1. /\ \A u : Tally(t, u) = Tally(s, u) /\ \A T : Debt(t, u, T) = Debt(s, u, T)
      /\ Marks(t) = Marks(s) /\ Due(t) = Due(s)
  BY DEF Tally, Debt, Marks, Due, Holds, HoldsIn
<1>2. \A lines : Tallied(lines, t) <=> Tallied(lines, s)
  BY <1>1 DEF Tallied
<1>3. \A lines : Expected(lines, t) <=> Expected(lines, s)
  BY <1>1 DEF Expected
<1>4. \A lines : Marked(lines, t) <=> Marked(lines, s)
  BY <1>1 DEF Marked
<1>5. \A lines : HoldingLatest(lines, t) <=> HoldingLatest(lines, s)
  BY DEF HoldingLatest
<1>6. Typed(s) /\ StateOK(t) /\ t.model \in STRING \cup {None} => Typed(t)
  BY DEF Typed
<1> QED
  BY <1>1, <1>2, <1>3, <1>4, <1>5, <1>6 DEF Books

\* Settling turns what is held back into a message and keeps the balance.
LEMMA SettledCounts ==
    ASSUME NEW s, Typed(s), s.pending # None
    PROVE  LET t == Settled(s)
               marks == IF s.pending.start /\ s.started THEN 1 ELSE 0
           IN  /\ Typed(t) /\ t.pending = None
               /\ \A u : Tally(t, u) = Tally(s, u) /\ \A T : Debt(t, u, T) = Debt(s, u, T)
               /\ Marks(t) = Marks(s) + marks /\ Due(t) = Due(s) - marks
               /\ t.started <=> s.started /\ ~s.pending.start
<1> DEFINE p == s.pending
           start == p.start /\ s.started
           message == Message(p.usage, p.model, start)
           signature == [usage |-> p.usage, turn |-> p.turn, model |-> p.model]
           t == Settled(s)
<1>1. /\ StateOK(s) /\ s.started \in BOOLEAN /\ p \in Held /\ p.usage \in Usages /\ p.turn # None
      /\ s.settled \in Seq(Signatures) /\ s.messages \in Seq(Messages)
      /\ s.unmodelled \in Seq(Messages) /\ s.model \in STRING \cup {None}
  BY DEF Typed
<1>2. /\ Keeps(t, s, {"pending", "started", "messages", "settled"})
      /\ t.pending = None /\ t.started = (s.started /\ ~start)
      /\ t.messages = Append(s.messages, message)
      /\ t.settled = Append(s.settled, signature)
  BY <1>1, SettledEffect
<1>3. /\ message \in Messages /\ message.usage = p.usage /\ (message.start <=> start)
      /\ signature \in Signatures /\ signature.usage = p.usage /\ signature.turn = p.turn
  BY <1>1 DEF Held, Message, Messages, Signatures
<1>4. t.unmodelled = s.unmodelled /\ t.model = s.model /\ StateOK(t)
  BY <1>2, Fields DEF Keeps
<1>5. t.started \in BOOLEAN /\ (t.started <=> s.started /\ ~p.start)
  BY <1>1, <1>2
<1> HIDE DEF message, signature, t
<1>6. t.messages \in Seq(Messages) /\ t.settled \in Seq(Signatures)
  BY <1>1, <1>2, <1>3, AppendProperties
<1>7. Typed(t)
  BY <1>1, <1>2, <1>4, <1>5, <1>6 DEF Typed
<1>8. IsSeq(s.messages) /\ IsSeq(s.settled) /\ IsSeq(s.unmodelled)
  BY <1>1 DEF IsSeq
<1>9. \A S : /\ Number(t.messages, S) = Number(s.messages, S) + (IF message \in S THEN 1 ELSE 0)
             /\ Number(t.settled, S) = Number(s.settled, S) + (IF signature \in S THEN 1 ELSE 0)
             /\ Number(s.messages, S) \in Nat /\ Number(s.settled, S) \in Nat
             /\ Number(s.unmodelled, S) \in Nat
  <2> TAKE S
  <2>1. Number(Append(s.messages, message), S)
            = Number(s.messages, S) + (IF message \in S THEN 1 ELSE 0)
    BY <1>8, NumberMore
  <2>2. Number(Append(s.settled, signature), S)
            = Number(s.settled, S) + (IF signature \in S THEN 1 ELSE 0)
    BY <1>8, NumberMore
  <2> QED
    BY <1>2, <1>8, <2>1, <2>2, NumberNat
<1>10. ASSUME NEW u PROVE Tally(t, u) = Tally(s, u)
  <2>1. message \in Using(u) <=> p.usage = u
    BY <1>3 DEF Using
  <2>2. Holds(t, u) = 0 /\ Holds(s, u) = IF p.usage = u THEN 1 ELSE 0
    BY <1>2 DEF Holds
  <2> QED
    BY <1>4, <1>9, <2>1, <2>2 DEF Tally
<1>11. ASSUME NEW u, NEW T PROVE Debt(t, u, T) = Debt(s, u, T)
  <2>1. signature \in Owing(u, T) <=> p.usage = u /\ p.turn \in T
    BY <1>3 DEF Owing
  <2>2. HoldsIn(t, u, T) = 0 /\ HoldsIn(s, u, T) = IF p.usage = u /\ p.turn \in T THEN 1 ELSE 0
    BY <1>2 DEF HoldsIn
  <2> QED
    BY <1>9, <2>1, <2>2 DEF Debt
<1>12. Marks(t) = Marks(s) + (IF start THEN 1 ELSE 0)
  <2>1. message \in Starting <=> start
    BY <1>3 DEF Starting
  <2> QED
    BY <1>4, <1>9, <2>1 DEF Marks
<1>13. Due(t) = Due(s) - (IF start THEN 1 ELSE 0)
  BY <1>5 DEF Due
<1> QED
  BY <1>2, <1>5, <1>7, <1>10, <1>11, <1>12, <1>13 DEF t

\* So the books are those of before.
LEMMA SettledKeeps ==
    ASSUME NEW s, Typed(s), NEW lines, Books(lines, s)
    PROVE  Typed(Settled(s)) /\ Books(lines, Settled(s)) /\ Settled(s).pending = None
<1>1. CASE s.pending = None
  BY <1>1 DEF Settled
<1>2. CASE s.pending # None
  <2> DEFINE t == Settled(s)
             marks == IF s.pending.start /\ s.started THEN 1 ELSE 0
  <2>1. /\ Typed(t) /\ t.pending = None
        /\ \A u : Tally(t, u) = Tally(s, u) /\ \A T : Debt(t, u, T) = Debt(s, u, T)
        /\ Marks(t) = Marks(s) + marks /\ Due(t) = Due(s) - marks
        /\ t.started <=> s.started /\ ~s.pending.start
    BY <1>2, SettledCounts
  <2> HIDE DEF t
  <2>2. Tallied(lines, t) /\ Expected(lines, t)
    BY <2>1 DEF Books, Tallied, Expected
  <2>3. Marks(s) \in Nat /\ Due(s) \in 0 .. 1
    BY TypedNumbers
  <2>4. Marks(t) + Due(t) = Marks(s) + Due(s)
    BY <2>1, <2>3
  <2>5. Marks(t) = 0 => Marks(s) = 0 /\ ~(s.pending.start /\ s.started)
    BY <2>1, <2>3
  <2>6. Marked(lines, t)
    BY <2>1, <2>4, <2>5 DEF Books, Marked
  <2> QED
    BY <2>1, <2>2, <2>6 DEF Books, t
<1> QED
  BY <1>1, <1>2

\* Giving the messages that wait their model changes no count.
LEMMA GivenCounts ==
    ASSUME NEW w \in Seq(Messages), NEW model \in STRING
    PROVE  /\ Given(w, model) \in Seq(Messages)
           /\ \A u : Number(Given(w, model), Using(u)) = Number(w, Using(u))
           /\ Number(Given(w, model), Starting) = Number(w, Starting)
<1> DEFINE g == Given(w, model)
<1>1. Len(w) \in Nat /\ DOMAIN w = 1 .. Len(w) /\ \A n \in 1 .. Len(w) : w[n] \in Messages
  BY LenProperties, ElementOfSeq
<1>2. \A n \in 1 .. Len(w) : /\ g[n] \in Messages /\ g[n].usage = w[n].usage
                             /\ g[n].start = w[n].start
  BY <1>1 DEF Given, Messages
<1>3. DOMAIN g = 1 .. Len(w) /\ g = [n \in 1 .. Len(w) |-> g[n]]
  BY <1>1 DEF Given
<1> HIDE DEF g
<1>4. g \in [1 .. Len(w) -> Messages]
  BY <1>2, <1>3
<1>5. g \in Seq(Messages)
  BY <1>1, <1>4, SeqDef
<1>6. ASSUME NEW u PROVE Number(g, Using(u)) = Number(w, Using(u))
  <2>1. \A n \in DOMAIN g : g[n] \in Using(u) <=> w[n] \in Using(u)
    BY <1>1, <1>2, <1>3 DEF Using
  <2> QED
    BY <1>1, <1>3, <2>1, NumberSame
<1>7. Number(g, Starting) = Number(w, Starting)
  <2>1. \A n \in DOMAIN g : g[n] \in Starting <=> w[n] \in Starting
    BY <1>1, <1>2, <1>3 DEF Starting
  <2> QED
    BY <1>1, <1>3, <2>1, NumberSame
<1> QED
  BY <1>5, <1>6, <1>7 DEF g

\* Those that wait for their model are counted once they have it.
LEMMA ModelledCounts ==
    ASSUME NEW s, Typed(s), NEW model \in STRING
    PROVE  LET t == Modelled(s, model)
           IN  /\ Typed(t) /\ Keeps(t, s, {"model", "unmodelled", "messages"})
               /\ t.model = model /\ t.unmodelled = <<>>
               /\ \A u : Tally(t, u) = Tally(s, u) /\ \A T : Debt(t, u, T) = Debt(s, u, T)
               /\ Marks(t) = Marks(s) /\ Due(t) = Due(s)
<1> DEFINE t == Modelled(s, model)
           w == s.unmodelled
           g == Given(w, model)
<1>1. model # None /\ StateOK(s)
  BY NoneAssumption DEF Typed
<1>2. /\ Keeps(t, s, {"model", "unmodelled", "messages"})
      /\ t.model = model /\ t.unmodelled = <<>> /\ t.messages = s.messages \o g
  BY <1>1, ModelledEffect
<1>3. w \in Seq(Messages) /\ s.messages \in Seq(Messages)
  BY DEF Typed
<1>4. /\ g \in Seq(Messages) /\ Number(g, Starting) = Number(w, Starting)
      /\ \A u : Number(g, Using(u)) = Number(w, Using(u))
  BY <1>3, GivenCounts
<1>5. /\ StateOK(t) /\ t.pending = s.pending /\ t.settled = s.settled /\ t.started = s.started
  BY <1>2, Fields DEF Keeps
<1> HIDE DEF t, g
<1>6. t.messages \in Seq(Messages) /\ <<>> \in Seq(Messages)
  BY <1>2, <1>3, <1>4, ConcatProperties
<1>7. Typed(t)
  BY <1>2, <1>5, <1>6 DEF Typed
<1>8. IsSeq(s.messages) /\ IsSeq(g)
  BY <1>3, <1>4 DEF IsSeq
<1>9. \A S : /\ Number(t.messages, S) = Number(s.messages, S) + Number(g, S)
             /\ Number(t.unmodelled, S) = 0
             /\ Number(s.messages, S) \in Nat /\ Number(g, S) \in Nat
  <2> TAKE S
  <2>1. Number(s.messages \o g, S) = Number(s.messages, S) + Number(g, S)
    BY <1>8, NumberJoined
  <2>2. Number(<<>>, S) = 0
    BY NumberNone
  <2> QED
    BY <1>2, <1>8, <2>1, <2>2, NumberNat
<1>10. \A u : Tally(t, u) = Tally(s, u)
  <2> TAKE u
  <2>1. Holds(t, u) = Holds(s, u)
    BY <1>5 DEF Holds
  <2> QED
    BY <1>4, <1>9, <2>1 DEF Tally
<1>11. \A u : \A T : Debt(t, u, T) = Debt(s, u, T)
  BY <1>5 DEF Debt, HoldsIn
<1>12. Marks(t) = Marks(s)
  BY <1>4, <1>9 DEF Marks
<1>13. Due(t) = Due(s)
  BY <1>5 DEF Due
<1> QED
  BY <1>2, <1>7, <1>10, <1>11, <1>12, <1>13 DEF t

\* And the books are kept.
LEMMA ModelledKeeps ==
    ASSUME NEW s, NEW lines, NEW model \in STRING \cup {None}
    PROVE  /\ Typed(s) /\ Books(lines, s) =>
                  Typed(Modelled(s, model)) /\ Books(lines, Modelled(s, model))
           /\ Follows(lines, s) => Follows(lines, Modelled(s, model))
           /\ Typed(s) => Keeps(Modelled(s, model), s, {"model", "unmodelled", "messages"})
<1>1. CASE model = None
  BY <1>1 DEF Modelled, Keeps, Typed
<1>2. CASE model # None
  <2> DEFINE t == Modelled(s, model)
  <2> SUFFICES ASSUME Typed(s)
               PROVE  /\ Typed(t) /\ Keeps(t, s, {"model", "unmodelled", "messages"})
                      /\ Books(lines, s) => Books(lines, t)
                      /\ Follows(lines, s) => Follows(lines, t)
    BY DEF Follows
  <2>1. /\ Typed(t) /\ Keeps(t, s, {"model", "unmodelled", "messages"})
        /\ t.model = model /\ t.unmodelled = <<>>
        /\ \A u : Tally(t, u) = Tally(s, u) /\ \A T : Debt(t, u, T) = Debt(s, u, T)
        /\ Marks(t) = Marks(s) /\ Due(t) = Due(s)
    BY <1>2, ModelledCounts
  <2>2. /\ t.pending = s.pending /\ t.settled = s.settled /\ t.started = s.started
        /\ t.waiting = s.waiting /\ t.replaying = s.replaying /\ t.turn = s.turn
        /\ t.seen = s.seen /\ t.previous = s.previous /\ t.baseline = s.baseline
    BY <2>1, Fields DEF Keeps
  <2> HIDE DEF t
  <2>3. Tallied(lines, s) /\ Expected(lines, s) => Tallied(lines, t) /\ Expected(lines, t)
    BY <2>1 DEF Tallied, Expected
  <2>4. Marked(lines, s) => Marked(lines, t)
    BY <2>1, <2>2 DEF Marked
  <2>5. Books(lines, s) => Books(lines, t)
    BY <2>3, <2>4 DEF Books
  <2>6. HoldingLatest(lines, s) => HoldingLatest(lines, t)
    BY <2>2 DEF HoldingLatest
  <2>7. Context(lines, s) => Context(lines, t)
    BY <1>2, <2>1, <2>2 DEF Context
  <2> QED
    BY <2>1, <2>5, <2>6, <2>7 DEF Follows
<1> QED
  BY <1>1, <1>2

-----------------------------------------------------------------------------
(* What one more line changes in the books.                                  *)

\* A response keeps its usage and its turn.
LEMMA KeptResponse ==
    ASSUME NEW lines, History(lines), NEW line, LineOK(line), NEW id \in Responses(lines)
    PROVE  LET more == Append(lines, line)
           IN  /\ FirstOf(more, id) = FirstOf(lines, id) /\ FirstOf(lines, id) \in 1 .. Len(lines)
               /\ UsageOf(more, id) = UsageOf(lines, id) /\ UsageOf(lines, id) \in Usages
               /\ TurnIn(more, id) = TurnIn(lines, id) /\ TurnIn(lines, id) \in Nat
BY ResponseIn, FirstMore DEF History, LineOK, Line

\* Sets of responses are finite.
LEMMA Finite ==
    ASSUME NEW lines, History(lines)
    PROVE  /\ IsFiniteSet(Responses(lines))
           /\ \A u : IsFiniteSet(With(lines, u)) /\ Cardinality(With(lines, u)) \in Nat
           /\ \A u : \A T : /\ IsFiniteSet(Awaited(lines, u, T))
                            /\ Cardinality(Awaited(lines, u, T)) \in Nat
           /\ IsFiniteSet(Humans(lines)) /\ Cardinality(Humans(lines)) \in Nat
           /\ Humans(lines) \subseteq 1 .. Len(lines) /\ None \notin Responses(lines)
<1>1. Latest(lines) \in Nat /\ Responses(lines) = 1 .. Latest(lines)
  BY DEF History, Numbered
<1>2. IsFiniteSet(Responses(lines))
  BY <1>1, FS_Interval
<1>3. \A u : IsFiniteSet(With(lines, u)) /\ Cardinality(With(lines, u)) \in Nat
  <2> TAKE u
  <2>1. With(lines, u) \subseteq Responses(lines)
    BY DEF With
  <2> QED
    BY <1>2, <2>1, FS_Subset, FS_CardinalityType
<1>4. \A u : \A T : /\ IsFiniteSet(Awaited(lines, u, T))
                    /\ Cardinality(Awaited(lines, u, T)) \in Nat
  <2> TAKE u
  <2> TAKE T
  <2>1. Awaited(lines, u, T) \subseteq Responses(lines)
    BY RecordedIn DEF Awaited
  <2> QED
    BY <1>2, <2>1, FS_Subset, FS_CardinalityType
<1>5. IsSeq(lines)
  BY DEF History
<1>6. PICK line : line = Plain("blank")
  OBVIOUS
<1>7. line.own \in BOOLEAN
  BY <1>6 DEF Plain
<1>8. IsFiniteSet(Humans(lines)) /\ Humans(lines) \subseteq 1 .. Len(lines)
  BY <1>5, <1>7, OwnOfMore DEF Humans
<1>9. None \notin Responses(lines)
  BY DEF Responses
<1> QED
  BY <1>2, <1>3, <1>4, <1>8, <1>9, FS_CardinalityType

\* The turns that can be named depend on the counts only.
LEMMA ScopesMore ==
    ASSUME NEW lines, History(lines), NEW line, LineOK(line), Uniform(lines), Sort(lines, line)
    PROVE  LET more == Append(lines, line)
           IN  /\ Uniform(more) /\ Scopes(more) \subseteq Scopes(lines)
               /\ line.kind = "count" /\ line.own /\ line.id # None =>
                      Naming(more) = {line.turn # None}
<1> DEFINE more == Append(lines, line)
           m == Len(lines)
<1>1. IsSeq(lines) /\ line.own \in BOOLEAN
  BY DEF History, LineOK, Line
<1>2. /\ m \in Nat /\ more[m + 1] = line /\ \A i \in 1 .. m : more[i] = lines[i]
  BY <1>1, LinesMore DEF Place
<1>3. Told(lines) \subseteq 1 .. m
  BY ToldIn
<1>4. \A n \in Told(lines) : more[n] = lines[n]
  BY <1>2, <1>3
<1> HIDE DEF m
<1>5. CASE Quiet(lines, line) \/ NewRecord(lines, line)
  <2>1. /\ Told(more) = Told(lines) /\ (Recorded(more) = {} => Recorded(lines) = {})
        /\ ~(line.kind = "count" /\ line.own /\ line.id # None)
    <3>1. CASE Quiet(lines, line)
      BY <3>1, QuietMore DEF Quiet, Foreign, NewTurn, Simple, Fork, OldRecord, Again, Broken
    <3>2. CASE NewRecord(lines, line)
      <4>1. Told(more) = Told(lines)
        BY <3>2, RecordMore
      <4>2. Recorded(lines) \subseteq Recorded(more)
        BY <1>1, CountsMore
      <4> QED
        BY <3>2, <4>1, <4>2 DEF NewRecord
    <3> QED
      BY <1>5, <3>1, <3>2
  <2> HIDE DEF more
  <2>2. Uniform(more)
    BY <1>4, <2>1 DEF Uniform
  <2>3. {more[n].turn # None : n \in Told(more)} = {lines[n].turn # None : n \in Told(lines)}
    BY <1>4, <2>1
  <2>4. Naming(more) = Naming(lines)
    BY <2>1, <2>3 DEF Naming
  <2>5. Scopes(more) = Scopes(lines)
    BY <2>4 DEF Scopes
  <2> QED
    BY <2>1, <2>2, <2>5 DEF more
<1>6. CASE Reports(lines, line) \/ Unrecorded(lines, line)
  <2>1. Told(more) = Told(lines) \cup {m + 1} /\ Recorded(more) = Recorded(lines)
    BY <1>6, CountMore DEF Place, m
  <2>2. ASSUME NEW n \in Told(lines) PROVE lines[n].turn = None <=> line.turn = None
    <3>1. CASE Unrecorded(lines, line)
      BY <3>1, <2>2 DEF Unrecorded, Uniform
    <3>2. CASE Reports(lines, line)
      <4>1. PICK named \in Naming(lines) :
              line.turn = IF named THEN TurnIn(lines, line.id) ELSE None
        BY <3>2 DEF Reports
      <4>2. TurnIn(lines, line.id) \in Nat
        BY <3>2, RecordedIn, ResponseIn DEF Reports
      <4>3. TurnIn(lines, line.id) # None
        BY <4>2, NoneAssumption
      <4>4. PICK k \in Told(lines) : named = (lines[k].turn # None)
        BY <2>2, <4>1 DEF Naming
      <4> QED
        BY <2>2, <4>1, <4>3, <4>4 DEF Uniform
    <3> QED
      BY <1>6, <3>1, <3>2
  <2>3. Recorded(lines) = {} => line.turn = None
    BY <1>6 DEF Unrecorded, Reports
  <2> HIDE DEF more
  <2>4. \A n \in Told(more) : more[n].turn = None <=> line.turn = None
    BY <1>2, <1>4, <2>1, <2>2
  <2>5. Uniform(more)
    BY <2>1, <2>3, <2>4 DEF Uniform
  <2>6. Naming(more) = {line.turn # None}
    BY <2>1, <2>4 DEF Naming
  <2>7. (line.turn # None) \in Naming(lines)
    <3>1. CASE Told(lines) = {}
      BY <3>1 DEF Naming
    <3>2. CASE Told(lines) # {}
      <4>1. PICK n \in Told(lines) : TRUE
        BY <3>2
      <4>2. (lines[n].turn # None) = (line.turn # None)
        BY <2>2
      <4>3. (lines[n].turn # None) \in Naming(lines)
        BY <3>2, <4>1 DEF Naming
      <4> QED
        BY <4>2, <4>3
    <3> QED
      BY <3>1, <3>2
  <2>8. Scopes(more) \subseteq Scopes(lines)
    BY <2>6, <2>7 DEF Scopes
  <2> QED
    BY <2>5, <2>6, <2>8 DEF more
<1> QED
  BY <1>5, <1>6 DEF Sort

\* A human input is one more.
LEMMA HumansMore ==
    ASSUME NEW lines, History(lines), NEW line, LineOK(line)
    PROVE  LET more == Append(lines, line)
           IN  /\ Humans(more) = Humans(lines) \cup Adds(lines, line.kind = "human" /\ line.own)
               /\ line.kind = "human" /\ line.own =>
                      Cardinality(Humans(more)) = Cardinality(Humans(lines)) + 1
<1>1. IsSeq(lines) /\ line.own \in BOOLEAN
  BY DEF History, LineOK, Line
<1>2. Humans(Append(lines, line)) = Humans(lines) \cup Adds(lines, line.kind = "human" /\ line.own)
  BY <1>1, OwnOfMore DEF Humans
<1>3. Place(lines) \notin Humans(lines) /\ IsFiniteSet(Humans(lines))
  BY <1>1, OwnOfMore DEF Humans
<1>4. Cardinality(Humans(lines) \cup {Place(lines)}) = Cardinality(Humans(lines)) + 1
  BY <1>3, FS_AddElement
<1> QED
  BY <1>2, <1>4 DEF Adds

\* Lines that tell of no response leave the books as they are.
LEMMA QuietBooks ==
    ASSUME NEW lines, History(lines), NEW line, LineOK(line), Uniform(lines),
           Quiet(lines, line), NEW s, Books(lines, s)
    PROVE  LET more == Append(lines, line)
           IN  /\ Tallied(more, s) /\ Expected(more, s)
               /\ ~(line.kind = "human" /\ line.own) => Books(more, s)
<1> DEFINE more == Append(lines, line)
<1>1. /\ Responses(more) = Responses(lines) /\ Recorded(more) = Recorded(lines)
      /\ Counted(lines) \subseteq Counted(more) /\ Latest(more) = Latest(lines)
      /\ Counted(more) \subseteq Counted(lines) \cup {None}
  BY QuietMore
<1>2. \A id \in Responses(lines) :
          /\ FirstOf(more, id) = FirstOf(lines, id) /\ UsageOf(more, id) = UsageOf(lines, id)
          /\ TurnIn(more, id) = TurnIn(lines, id)
  BY KeptResponse
<1>3. Recorded(lines) \subseteq Responses(lines) /\ None \notin Responses(lines)
  BY RecordedIn, Finite
<1>4. Scopes(more) \subseteq Scopes(lines)
  BY ScopesMore DEF Sort
<1>5. ~(line.kind = "human" /\ line.own) => Humans(more) = Humans(lines)
  BY HumansMore DEF Adds
<1> HIDE DEF more
<1>6. \A u : With(more, u) = With(lines, u)
  BY <1>1, <1>2 DEF With
<1>7. \A u : \A T : Awaited(more, u, T) = Awaited(lines, u, T)
  <2> TAKE u
  <2> TAKE T
  <2>1. \A id : id \in Recorded(more) \ Counted(more) <=> id \in Recorded(lines) \ Counted(lines)
    BY <1>1, <1>3
  <2> QED
    BY <1>2, <1>3, <2>1 DEF Awaited
<1>8. Tallied(more, s)
  BY <1>6 DEF Books, Tallied
<1>9. Expected(more, s)
  BY <1>4, <1>7 DEF Books, Expected
<1>10. ~(line.kind = "human" /\ line.own) => Marked(more, s)
  BY <1>1, <1>2, <1>5 DEF Books, Marked
<1> QED
  BY <1>8, <1>9, <1>10 DEF Books, more

\* A human input is to be marked.
LEMMA HumanBooks ==
    ASSUME NEW lines, History(lines), NEW line, LineOK(line), Uniform(lines),
           Quiet(lines, line), line.kind = "human", line.own, NEW s, Typed(s), Books(lines, s),
           NEW t, Typed(t), t.started, t.messages = s.messages, t.unmodelled = s.unmodelled,
           t.settled = s.settled, t.pending = s.pending
    PROVE  Books(Append(lines, line), t)
<1> DEFINE more == Append(lines, line)
<1>1. Tallied(more, s) /\ Expected(more, s)
  BY QuietBooks
<1>2. Responses(more) = Responses(lines) /\ Latest(more) = Latest(lines)
  BY QuietMore
<1>3. \A id \in Responses(lines) :
          FirstOf(more, id) = FirstOf(lines, id) /\ FirstOf(lines, id) \in 1 .. Len(lines)
  BY KeptResponse
<1>4. /\ Humans(more) = Humans(lines) \cup {Place(lines)}
      /\ Cardinality(Humans(more)) = Cardinality(Humans(lines)) + 1
      /\ Cardinality(Humans(lines)) \in Nat /\ Len(lines) \in Nat
  BY HumansMore, Finite, SeqLength DEF Adds, History
<1> HIDE DEF more
<1>5. Tallied(more, t) /\ Expected(more, t) /\ Marks(t) = Marks(s)
  <2>1. /\ \A u : Tally(t, u) = Tally(s, u) /\ \A T : Debt(t, u, T) = Debt(s, u, T)
        /\ Marks(t) = Marks(s)
    BY DEF Tally, Debt, Marks, Holds, HoldsIn
  <2> QED
    BY <1>1, <2>1 DEF Tallied, Expected
<1>6. Marks(s) \in Nat /\ Due(s) \in 0 .. 1 /\ Due(t) = 1
  BY TypedNumbers DEF Due
<1>7. Marks(t) + Due(t) <= Cardinality(Humans(more))
  BY <1>4, <1>5, <1>6 DEF Books, Marked
<1>8. ASSUME Marks(t) = 0, NEW id \in Responses(more), NEW n \in Humans(more),
             n < FirstOf(more, id)
      PROVE  t.pending # None /\ id = Latest(more) /\ t.pending.start
  <2>1. n < FirstOf(lines, id) /\ FirstOf(lines, id) \in 1 .. Len(lines) /\ id \in Responses(lines)
    BY <1>2, <1>3, <1>8
  <2>2. n # Place(lines)
    BY <1>4, <2>1 DEF Place
  <2> QED
    BY <1>2, <1>4, <1>5, <1>8, <2>1, <2>2 DEF Books, Marked
<1>9. Marked(more, t)
  BY <1>7, <1>8 DEF Marked
<1> QED
  BY <1>5, <1>9 DEF Books, more

\* What is held back stays the last response while no line closes it.
LEMMA HoldingMore ==
    ASSUME NEW lines, History(lines), NEW line, LineOK(line), NEW s, HoldingLatest(lines, s),
           s.pending # None, ~Closes(lines, line, Latest(lines)),
           Latest(Append(lines, line)) = Latest(lines),
           line.kind = "compacted" /\ line.own => s.pending.compacted
    PROVE  HoldingLatest(Append(lines, line), s)
<1> DEFINE more == Append(lines, line)
           id == Latest(lines)
<1>1. /\ id \in Recorded(lines) /\ UsageOf(lines, id) = s.pending.usage
      /\ s.pending.turn = TurnOf(lines) /\ TurnIn(lines, id) = TurnOf(lines)
      /\ ~IsSettled(lines, id)
      /\ (\E n \in OwnOf(lines, "compacted") : n > FirstOf(lines, id)) => s.pending.compacted
  BY DEF HoldingLatest
<1>2. id \in Responses(lines)
  BY <1>1, RecordedIn
<1>3. /\ FirstOf(more, id) = FirstOf(lines, id) /\ UsageOf(more, id) = UsageOf(lines, id)
      /\ TurnIn(more, id) = TurnIn(lines, id)
  BY <1>2, KeptResponse
<1>4. IsSeq(lines) /\ line.own \in BOOLEAN
  BY DEF History, LineOK, Line
<1>5. TurnOf(more) = TurnOf(lines)
  <2>1. ~(line.kind = "turn" /\ line.own)
    BY DEF Closes
  <2> QED
    BY <1>4, <2>1, TurnMore
<1>6. id \in Recorded(more)
  BY <1>1, <1>4, CountsMore
<1>7. ~IsSettled(more, id)
  BY <1>1, <1>2, ClosedMore
<1>8. OwnOf(more, "compacted")
          = OwnOf(lines, "compacted") \cup Adds(lines, line.kind = "compacted" /\ line.own)
  BY <1>4, OwnOfMore
<1> HIDE DEF more
<1>9. (\E n \in OwnOf(more, "compacted") : n > FirstOf(more, id)) => s.pending.compacted
  BY <1>1, <1>3, <1>8 DEF Adds
<1>10. Latest(more) = id
  BY DEF more
<1> QED
  BY <1>1, <1>3, <1>5, <1>6, <1>7, <1>9, <1>10 DEF HoldingLatest, more

\* A new record: the response is held back.
LEMMA RecordBooks ==
    ASSUME NEW lines, History(lines), NEW line, LineOK(line), Uniform(lines),
           NewRecord(lines, line), NEW s, Typed(s), Books(lines, s), s.pending = None,
           NEW t, t.messages = s.messages, t.unmodelled = s.unmodelled,
           t.settled = s.settled, t.started = s.started, t.pending # None,
           t.pending.usage = line.usage, t.pending.turn = TurnOf(lines),
           s.started => t.pending.start
    PROVE  Books(Append(lines, line), t)
<1> DEFINE more == Append(lines, line)
           id == line.id
<1>1. /\ Responses(more) = Responses(lines) \cup {id} /\ Recorded(more) = Responses(more)
      /\ Latest(more) = Latest(lines) + 1 /\ id \notin Responses(lines)
      /\ Counted(more) = Counted(lines) /\ id = Latest(lines) + 1
  <2>1. /\ Responses(more) = 1 .. (Latest(lines) + 1) /\ Responses(lines) = 1 .. Latest(lines)
        /\ Latest(lines) \in Nat /\ id = Latest(lines) + 1
    BY RecordMore DEF History, Numbered, NewRecord
  <2>2. Responses(more) = Responses(lines) \cup {id}
    BY <2>1, IntervalMore
  <2> QED
    BY <2>1, <2>2, RecordMore
<1>2. \A i \in Responses(lines) :
          /\ FirstOf(more, i) = FirstOf(lines, i) /\ UsageOf(more, i) = UsageOf(lines, i)
          /\ TurnIn(more, i) = TurnIn(lines, i)
  BY KeptResponse
<1>3. IsSeq(lines) /\ line.own \in BOOLEAN /\ line.own /\ id # None /\ line.kind = "record" /\ line.usage \in Usages
  BY <1>1, NoneAssumption DEF History, NewRecord, Numbered, LineOK, Line
<1>4. ~IdIn(lines, id)
  BY <1>1, <1>3 DEF IdIn, History, LineOK, Responses, Own
<1>5. UsageOf(more, id) = line.usage /\ TurnIn(more, id) = TurnOf(lines)
  <2>1. UsageOf(more, id) = line.usage /\ TurnIn(more, id) = TurnOf(more)
    BY <1>3, <1>4, FirstNew
  <2>2. TurnOf(more) = TurnOf(lines)
    <3>1. ~(line.kind = "turn" /\ line.own) /\ TurnOf(lines) \in Nat
      BY <1>3, TurnNat
    <3>2. IsSeq(lines) /\ line.own \in BOOLEAN
      BY <1>3
    <3>3. TurnOf(more) = TurnOf(lines) + (IF line.kind = "turn" /\ line.own THEN 1 ELSE 0)
      BY <3>2, TurnMore
    <3> HIDE DEF more
    <3> QED
      BY <3>1, <3>3
  <2> QED
    BY <2>1, <2>2
<1>6. id \notin Counted(lines) /\ Recorded(lines) = Responses(lines)
  <2>1. Counted(lines) \subseteq Responses(lines) \cup {None}
    BY DEF Counted, Responses, OwnCounts
  <2> QED
    BY <1>1, <1>3, <2>1 DEF NewRecord
<1>7. Scopes(more) \subseteq Scopes(lines)
  BY ScopesMore DEF Sort
<1>8. Humans(more) = Humans(lines)
  BY <1>3, HumansMore DEF Adds
<1> HIDE DEF more, id
<1>9. Tallied(more, t)
  <2> SUFFICES ASSUME NEW u \in Usages PROVE Tally(t, u) = Cardinality(With(more, u))
    BY DEF Tallied
  <2>1. With(more, u) = With(lines, u) \cup (IF line.usage = u THEN {id} ELSE {})
    BY <1>1, <1>2, <1>5 DEF With
  <2>2. id \notin With(lines, u)
    BY <1>1 DEF With
  <2>3. Cardinality(With(more, u)) = Cardinality(With(lines, u)) + (IF line.usage = u THEN 1 ELSE 0)
    <3>1. Cardinality(With(lines, u) \cup {id}) = Cardinality(With(lines, u)) + 1
      BY <2>2, Finite, FS_AddElement
    <3>2. Cardinality(With(lines, u)) \in Nat
      BY Finite
    <3>3. CASE line.usage = u
      <4>1. With(more, u) = With(lines, u) \cup {id}
        BY <2>1, <3>3
      <4> QED
        BY <3>1, <3>3, <4>1
    <3>4. CASE line.usage # u
      <4>1. With(more, u) = With(lines, u)
        BY <2>1, <3>4
      <4> QED
        BY <3>2, <3>4, <4>1
    <3> QED
      BY <3>3, <3>4
  <2>4. Tally(s, u) = Cardinality(With(lines, u)) /\ Tally(s, u) \in Nat
    BY TypedNumbers DEF Books, Tallied
  <2>5. Tally(t, u) = Tally(s, u) + (IF line.usage = u THEN 1 ELSE 0)
    <3>1. Holds(s, u) = 0 /\ Holds(t, u) = IF line.usage = u THEN 1 ELSE 0
      BY DEF Holds
    <3>2. Number(s.messages, Using(u)) \in Nat /\ Number(s.unmodelled, Using(u)) \in Nat
      BY TypedNumbers, NumberNat
    <3> QED
      BY <3>1, <3>2 DEF Tally
  <2> QED
    BY <2>3, <2>4, <2>5
<1>10. Expected(more, t)
  <2> SUFFICES ASSUME NEW u \in Usages, NEW T \in Scopes(lines)
               PROVE  Debt(t, u, T) >= Cardinality(Awaited(more, u, T))
    BY <1>7 DEF Expected
  <2> DEFINE here == line.usage = u /\ TurnOf(lines) \in T
  <2>1. Awaited(more, u, T) = Awaited(lines, u, T) \cup (IF here THEN {id} ELSE {})
    BY <1>1, <1>2, <1>5, <1>6 DEF Awaited
  <2>2. id \notin Awaited(lines, u, T)
    BY <1>1, <1>6 DEF Awaited
  <2>3. Cardinality(Awaited(more, u, T)) = Cardinality(Awaited(lines, u, T)) + (IF here THEN 1 ELSE 0)
    <3>1. Cardinality(Awaited(lines, u, T) \cup {id}) = Cardinality(Awaited(lines, u, T)) + 1
      BY <2>2, Finite, FS_AddElement
    <3>2. Cardinality(Awaited(lines, u, T)) \in Nat
      BY Finite
    <3>3. ~here => Awaited(more, u, T) = Awaited(lines, u, T)
      BY <2>1
    <3> QED
      BY <2>1, <3>1, <3>2, <3>3
  <2>4. Debt(s, u, T) >= Cardinality(Awaited(lines, u, T)) /\ Debt(s, u, T) \in Nat
    BY TypedNumbers DEF Books, Expected
  <2>5. Debt(t, u, T) = Debt(s, u, T) + (IF here THEN 1 ELSE 0)
    <3>1. HoldsIn(s, u, T) = 0 /\ HoldsIn(t, u, T) = IF here THEN 1 ELSE 0
      BY DEF HoldsIn
    <3>2. Number(s.settled, Owing(u, T)) \in Nat
      BY TypedNumbers, NumberNat
    <3> QED
      BY <3>1, <3>2 DEF Debt
  <2>6. Cardinality(Awaited(lines, u, T)) \in Nat
    BY Finite
  <2> QED
    BY <2>3, <2>4, <2>5, <2>6
<1>11. Marked(more, t)
  <2>1. Marks(t) = Marks(s) /\ Due(t) = Due(s)
    BY DEF Marks, Due
  <2>2. \A i \in Responses(lines) : \A n \in Humans(lines) :
          Marks(s) = 0 => ~(n < FirstOf(lines, i))
    BY DEF Books, Marked
  <2>3. Marks(s) = 0 /\ Humans(lines) # {} => s.started
    BY DEF Books, Marked
  <2>4. ASSUME Marks(s) = 0, NEW i \in Responses(more), NEW n \in Humans(lines),
               n < FirstOf(more, i)
        PROVE  i = Latest(more) /\ t.pending.start
    <3>1. i = id
      BY <1>1, <1>2, <2>2, <2>4
    <3> QED
      BY <1>1, <2>3, <2>4, <3>1
  <2> QED
    BY <1>8, <2>1, <2>4 DEF Books, Marked
<1> QED
  BY <1>9, <1>10, <1>11 DEF Books, more

\* Nothing has closed a response that has just ended.
LEMMA OpenNew ==
    ASSUME NEW lines, History(lines), NEW line, LineOK(line), NewRecord(lines, line)
    PROVE  LET more == Append(lines, line)
           IN  /\ ~IsSettled(more, line.id)
               /\ \A n \in OwnOf(more, "compacted") : ~(n > FirstOf(more, line.id))
<1> DEFINE more == Append(lines, line)
           id == line.id
<1>1. /\ id \notin Responses(lines) /\ Counted(more) = Counted(lines) /\ id = Latest(lines) + 1
      /\ Latest(lines) \in Nat
  BY RecordMore DEF History, Numbered, NewRecord
<1>2. IsSeq(lines) /\ id # None
  BY <1>1, NoneAssumption DEF History
<1>3. ~IdIn(lines, id)
  BY <1>1, <1>2 DEF IdIn, History, LineOK, Responses, Own
<1>4. FirstOf(more, id) = Place(lines)
  BY <1>2, <1>3, FirstNew
<1>5. \A kind : Of(more, kind) \subseteq 1 .. Place(lines)
  BY <1>2, LinesMore DEF Of
<1>6. \A kind : \A n \in Of(more, kind) : ~(n > FirstOf(more, id))
  BY <1>2, <1>4, <1>5, LinesMore
<1>7. id \notin Counted(more)
  <2>1. Counted(lines) \subseteq Responses(lines) \cup {None}
    BY DEF Counted, Responses, OwnCounts
  <2> QED
    BY <1>1, <1>2, <2>1
<1> HIDE DEF more, id
<1>8. ~IsSettled(more, id)
  BY <1>6, <1>7 DEF IsSettled
<1>9. \A n \in OwnOf(more, "compacted") : ~(n > FirstOf(more, id))
  BY <1>6 DEF OwnOf
<1> QED
  BY <1>8, <1>9 DEF more, id

\* The place of the settled response a count reports, 0 if there is none.
LEMMA LateIs ==
    ASSUME NEW s, IsSeq(s.settled), NEW line
    PROVE  LET late == LateFor(s, line)
               Fits(q) == Matches(q, line.usage, line.turn, line.model)
           IN  /\ late # 0 => late \in DOMAIN s.settled /\ Fits(s.settled[late])
               /\ late = 0 => \A n \in DOMAIN s.settled : ~Fits(s.settled[n])
<1> DEFINE Fits(q) == Matches(q, line.usage, line.turn, line.model)
           I == {i \in 1 .. Len(s.settled) : Fits(s.settled[i])}
<1>1. PICK m \in Nat : m = Len(s.settled) /\ DOMAIN s.settled = 1 .. m
  BY SeqLength
<1>2. LateFor(s, line) = IF I # {} THEN Min(I) ELSE 0
  BY DEF LateFor, SelectInSeq
<1>3. CASE I = {}
  BY <1>1, <1>2, <1>3
<1>4. CASE I # {}
  <2>1. I \in SUBSET Nat /\ I \in SUBSET Int
    BY <1>1
  <2>2. PICK k \in I : \A n \in I : k <= n
    BY <1>4, <2>1, Least
  <2>3. Min(I) = k
    BY <2>1, <2>2, MinIs
  <2>4. k \in 1 .. m /\ Fits(s.settled[k])
    BY <1>1
  <2>5. LateFor(s, line) = k
    BY <1>2, <1>4, <2>3
  <2> HIDE DEF I
  <2>6. k # 0 /\ k \in DOMAIN s.settled /\ Fits(s.settled[k])
    BY <1>1, <2>4
  <2> QED
    BY <2>5, <2>6
<1> QED
  BY <1>3, <1>4

\* The turns a count can name hold that of its response, and only those it fits.
LEMMA ReportScopes ==
    ASSUME NEW lines, History(lines), NEW line, LineOK(line), Uniform(lines),
           Reports(lines, line)
    PROVE  LET here == TurnIn(lines, line.id)
           IN  /\ here \in Nat
               /\ \E T \in Scopes(lines) :
                      here \in T /\ \A t \in T : line.turn = None \/ t = line.turn
               /\ \A T \in Scopes(Append(lines, line)) : \A t \in Nat :
                      (line.turn = None \/ t = line.turn) => (t \in T <=> here \in T)
<1> DEFINE here == TurnIn(lines, line.id)
           more == Append(lines, line)
<1>1. here \in Nat
  BY RecordedIn, ResponseIn DEF Reports
<1>2. PICK named \in Naming(lines) : line.turn = IF named THEN here ELSE None
  BY DEF Reports
<1>3. named \in BOOLEAN
  BY <1>2 DEF Naming
<1>4. here # None /\ line.id # None
  BY <1>1, CountMore, NoneAssumption
<1>5. Naming(more) = {line.turn # None}
  BY <1>4, ScopesMore DEF Sort, Reports, NewCount
<1> HIDE DEF here, more
<1>6. \E T \in Scopes(lines) : here \in T /\ \A t \in T : line.turn = None \/ t = line.turn
  <2>1. CASE named
    <3>1. {here} \in Scopes(lines)
      BY <1>1, <1>2, <2>1 DEF Scopes
    <3> QED
      BY <1>2, <2>1, <3>1
  <2>2. CASE ~named
    <3>1. Nat \in Scopes(lines)
      BY <1>2, <2>2 DEF Scopes
    <3> QED
      BY <1>1, <1>2, <2>2, <3>1
  <2> QED
    BY <1>3, <2>1, <2>2
<1>7. ASSUME NEW T \in Scopes(more), NEW t \in Nat, line.turn = None \/ t = line.turn
      PROVE  t \in T <=> here \in T
  <2>1. CASE line.turn = None
    <3>1. T = Nat
      BY <1>5, <2>1 DEF Scopes
    <3> QED
      BY <1>1, <3>1
  <2>2. CASE line.turn # None
    <3>1. line.turn = here
      BY <1>2, <1>3, <2>2
    <3> QED
      BY <1>7, <2>2, <3>1
  <2> QED
    BY <2>1, <2>2
<1> QED
  BY <1>1, <1>6, <1>7 DEF here, more

\* The count of a recorded response reports what is held back or what was settled.
LEMMA ReportFinds ==
    ASSUME NEW lines, History(lines), NEW line, LineOK(line), Uniform(lines),
           Reports(lines, line), NEW s, Typed(s), Books(lines, s),
           NEW model, s.pending # None => model = s.pending.model
    PROVE  Confirms(s, line, model) \/ LateFor(s, line) # 0
<1> DEFINE here == TurnIn(lines, line.id)
           u == line.usage
<1>1. PICK T \in Scopes(lines) : here \in T /\ \A t \in T : line.turn = None \/ t = line.turn
  BY ReportScopes
<1>2. u \in Usages /\ line.model = None /\ u = UsageOf(lines, line.id)
  BY DEF Reports, NewCount
<1>3. line.id \in Awaited(lines, u, T)
  BY <1>1, <1>2 DEF Awaited, Reports
<1>4. Cardinality(Awaited(lines, u, T)) # 0 /\ Cardinality(Awaited(lines, u, T)) \in Nat
  BY <1>3, Finite, FS_EmptySet
<1>5. Debt(s, u, T) >= Cardinality(Awaited(lines, u, T)) /\ Debt(s, u, T) \in Nat
  BY <1>2, TypedNumbers DEF Books, Expected
<1>6. Debt(s, u, T) # 0
  BY <1>4, <1>5
<1>7. CASE HoldsIn(s, u, T) # 0
  <2>1. s.pending # None /\ s.pending.usage = u /\ s.pending.turn \in T
    BY <1>7 DEF HoldsIn
  <2>2. Confirms(s, line, model)
    BY <1>1, <2>1 DEF Confirms, Matches, SameContext
  <2> QED
    BY <2>2
<1>8. CASE HoldsIn(s, u, T) = 0
  <2>1. IsSeq(s.settled) /\ Number(s.settled, Owing(u, T)) \in Nat
    BY TypedNumbers, NumberNat
  <2>2. Number(s.settled, Owing(u, T)) # 0
    BY <1>6, <1>8, <2>1 DEF Debt
  <2>3. PICK n \in DOMAIN s.settled : s.settled[n] \in Owing(u, T)
    BY <2>1, <2>2, NumberNat
  <2>4. s.settled[n].usage = u /\ s.settled[n].turn \in T
    BY <2>3 DEF Owing
  <2>5. Matches(s.settled[n], line.usage, line.turn, line.model)
    BY <1>1, <1>2, <2>4 DEF Matches, SameContext
  <2> QED
    BY <2>1, <2>5, LateIs
<1> QED
  BY <1>7, <1>8

\* The count of a recorded response settles what the parser owed for it.
LEMMA ReportBooks ==
    ASSUME NEW lines, History(lines), NEW line, LineOK(line), Uniform(lines),
           Reports(lines, line), NEW s, Books(lines, s), Typed(s), NEW t, Typed(t),
           Marked(lines, t), \A u \in Usages : Tally(t, u) = Tally(s, u),
           \A u \in Usages : \A T \in Scopes(Append(lines, line)) :
               Debt(t, u, T) >= Debt(s, u, T) -
                   (IF u = line.usage /\ TurnIn(lines, line.id) \in T THEN 1 ELSE 0)
    PROVE  Books(Append(lines, line), t)
<1> DEFINE more == Append(lines, line)
           id == line.id
<1>1. /\ Responses(more) = Responses(lines) /\ Recorded(more) = Recorded(lines)
      /\ Latest(more) = Latest(lines) /\ Counted(more) = Counted(lines) \cup {id}
      /\ id \in Recorded(lines) \ Counted(lines) /\ line.usage = UsageOf(lines, id)
      /\ line.kind = "count"
  BY CountMore DEF Reports, NewCount
<1>2. \A i \in Responses(lines) :
          /\ FirstOf(more, i) = FirstOf(lines, i) /\ UsageOf(more, i) = UsageOf(lines, i)
          /\ TurnIn(more, i) = TurnIn(lines, i)
  BY KeptResponse
<1>3. Recorded(lines) \subseteq Responses(lines)
  BY RecordedIn
<1>4. Humans(more) = Humans(lines)
  BY <1>1, HumansMore DEF Adds
<1>5. Scopes(more) \subseteq Scopes(lines)
  BY ScopesMore DEF Sort
<1>6. \A u \in Usages : \A T \in Scopes(more) :
          Debt(t, u, T) >= Debt(s, u, T) - (IF u = line.usage /\ TurnIn(lines, id) \in T THEN 1 ELSE 0)
  OBVIOUS
<1> HIDE DEF more, id
<1>7. \A u : With(more, u) = With(lines, u)
  BY <1>1, <1>2 DEF With
<1>8. Tallied(more, t)
  BY <1>7 DEF Books, Tallied
<1>9. Marked(more, t)
  BY <1>1, <1>2, <1>4 DEF Marked
<1>10. Expected(more, t)
  <2> SUFFICES ASSUME NEW u \in Usages, NEW T \in Scopes(more)
               PROVE  Debt(t, u, T) >= Cardinality(Awaited(more, u, T))
    BY DEF Expected
  <2> DEFINE here == u = line.usage /\ TurnIn(lines, id) \in T
  <2>1. Awaited(more, u, T) = Awaited(lines, u, T) \ {id}
    BY <1>1, <1>2, <1>3 DEF Awaited
  <2>2. id \in Awaited(lines, u, T) <=> here
    BY <1>1 DEF Awaited
  <2>3. PICK k \in Nat : k = Cardinality(Awaited(lines, u, T))
    BY Finite
  <2>4. Cardinality(Awaited(more, u, T)) = k - (IF here THEN 1 ELSE 0)
    <3>1. CASE here
      <4>1. Cardinality(Awaited(lines, u, T) \ {id}) = Cardinality(Awaited(lines, u, T)) - 1
        BY <2>2, <3>1, Finite, FS_RemoveElement
      <4> QED
        BY <2>1, <2>3, <3>1, <4>1
    <3>2. CASE ~here
      <4>1. Awaited(more, u, T) = Awaited(lines, u, T)
        BY <2>1, <2>2, <3>2
      <4> QED
        BY <2>3, <3>2, <4>1
    <3> QED
      BY <3>1, <3>2
  <2>5. Debt(s, u, T) >= k /\ Debt(s, u, T) \in Nat /\ Debt(t, u, T) \in Nat
    BY <1>5, <2>3, TypedNumbers DEF Books, Expected
  <2>6. Debt(t, u, T) >= Debt(s, u, T) - (IF here THEN 1 ELSE 0)
    BY <1>6
  <2> HIDE DEF here
  <2> QED
    BY <2>4, <2>5, <2>6
<1> QED
  BY <1>8, <1>9, <1>10 DEF Books, more

\* A message that is emitted: a turn start goes to it.
LEMMA EmittedCounts ==
    ASSUME NEW s, Typed(s), s.pending = None, NEW line, line.usage \in Usages,
           NEW model \in STRING \cup {None}
    PROVE  LET t == Emitted(s, line, model)
           IN  /\ Typed(t) /\ Keeps(t, s, {"started", "messages", "unmodelled"})
               /\ model # None => t.unmodelled = s.unmodelled
               /\ \A u : /\ Tally(t, u) = Tally(s, u) + (IF u = line.usage THEN 1 ELSE 0)
                         /\ \A T : Debt(t, u, T) = Debt(s, u, T)
               /\ Marks(t) = Marks(s) + Due(s) /\ Due(t) = 0
<1> DEFINE t == Emitted(s, line, model)
           message == Message(line.usage, model, s.started)
<1>1. /\ StateOK(s) /\ s.started \in BOOLEAN /\ s.settled \in Seq(Signatures)
      /\ s.messages \in Seq(Messages) /\ s.unmodelled \in Seq(Messages)
      /\ s.model \in STRING \cup {None}
  BY DEF Typed
<1>2. /\ Keeps(t, s, {"started", "messages", "unmodelled"}) /\ t.started = FALSE
      /\ model # None => /\ t.messages = Append(s.messages, message)
                         /\ t.unmodelled = s.unmodelled
      /\ model = None => /\ t.unmodelled = Append(s.unmodelled, message)
                         /\ t.messages = s.messages
  BY <1>1, EmittedEffect
<1>3. message \in Messages /\ message.usage = line.usage /\ (message.start <=> s.started)
  BY <1>1 DEF Message, Messages
<1>4. /\ StateOK(t) /\ t.pending = s.pending /\ t.settled = s.settled /\ t.model = s.model
  BY <1>2, Fields DEF Keeps
<1> HIDE DEF t, message
<1>5. Append(s.messages, message) \in Seq(Messages) /\ Append(s.unmodelled, message) \in Seq(Messages)
  BY <1>1, <1>3, AppendProperties
<1>6. t.messages \in Seq(Messages) /\ t.unmodelled \in Seq(Messages)
  BY <1>1, <1>2, <1>5
<1>7. Typed(t)
  BY <1>1, <1>2, <1>4, <1>6 DEF Typed
<1>8. IsSeq(s.messages) /\ IsSeq(s.unmodelled)
  BY <1>1 DEF IsSeq
<1> DEFINE Numbers(r, S) == Number(r.messages, S) + Number(r.unmodelled, S)
<1>9. \A S : /\ Numbers(t, S) = Numbers(s, S) + (IF message \in S THEN 1 ELSE 0)
             /\ Numbers(s, S) \in Nat
  <2> TAKE S
  <2>1. /\ Number(Append(s.messages, message), S)
               = Number(s.messages, S) + (IF message \in S THEN 1 ELSE 0)
        /\ Number(Append(s.unmodelled, message), S)
               = Number(s.unmodelled, S) + (IF message \in S THEN 1 ELSE 0)
    BY <1>8, NumberMore
  <2>2. Number(s.messages, S) \in Nat /\ Number(s.unmodelled, S) \in Nat
    BY <1>8, NumberNat
  <2>3. CASE model # None
    <3>1. /\ Number(t.messages, S) = Number(s.messages, S) + (IF message \in S THEN 1 ELSE 0)
          /\ Number(t.unmodelled, S) = Number(s.unmodelled, S)
      BY <1>2, <2>1, <2>3
    <3> QED
      BY <2>2, <3>1
  <2>4. CASE model = None
    <3>1. /\ Number(t.unmodelled, S) = Number(s.unmodelled, S) + (IF message \in S THEN 1 ELSE 0)
          /\ Number(t.messages, S) = Number(s.messages, S)
      BY <1>2, <2>1, <2>4
    <3> QED
      BY <2>2, <3>1
  <2> QED
    BY <2>3, <2>4
<1>10. \A u : Tally(s, u) = Numbers(s, Using(u)) /\ Tally(t, u) = Numbers(t, Using(u))
  <2> TAKE u
  <2>1. Holds(s, u) = 0 /\ Holds(t, u) = 0
    BY <1>4 DEF Holds
  <2>2. /\ Number(s.messages, Using(u)) \in Nat /\ Number(s.unmodelled, Using(u)) \in Nat
        /\ Number(t.messages, Using(u)) \in Nat /\ Number(t.unmodelled, Using(u)) \in Nat
    BY <1>7, TypedNumbers, NumberNat
  <2> QED
    BY <2>1, <2>2 DEF Tally
<1>11. Marks(s) = Numbers(s, Starting) /\ Marks(t) = Numbers(t, Starting)
  BY DEF Marks
<1> HIDE DEF Numbers
<1>12. \A u : Tally(t, u) = Tally(s, u) + (IF u = line.usage THEN 1 ELSE 0)
  <2> TAKE u
  <2>1. message \in Using(u) <=> u = line.usage
    BY <1>3 DEF Using
  <2> QED
    BY <1>9, <1>10, <2>1
<1>13. Marks(t) = Marks(s) + Due(s)
  <2>1. message \in Starting <=> s.started
    BY <1>3 DEF Starting
  <2> QED
    BY <1>9, <1>11, <2>1 DEF Due
<1>14. Due(t) = 0
  BY <1>2 DEF Due
<1>15. \A u : \A T : Debt(t, u, T) = Debt(s, u, T)
  BY <1>4 DEF Debt, HoldsIn
<1> QED
  BY <1>2, <1>7, <1>12, <1>13, <1>14, <1>15 DEF t

\* A message takes the turn start that is due.
LEMMA EmittedMarked ==
    ASSUME NEW s, Typed(s), NEW t, Typed(t), NEW lines,
           Marks(s) + Due(s) <= Cardinality(Humans(lines)),
           Marks(s) = 0 /\ Humans(lines) # {} => s.started,
           Marks(t) = Marks(s) + Due(s), Due(t) = 0
    PROVE  Marked(lines, t)
<1>1. Marks(s) \in Nat /\ Due(s) \in 0 .. 1
  BY TypedNumbers
<1>2. Marks(t) = 0 => Humans(lines) = {}
  BY <1>1 DEF Due
<1>3. Marks(t) + Due(t) <= Cardinality(Humans(lines))
  BY <1>1
<1> QED
  BY <1>2, <1>3 DEF Marked

\* The model of a count, and the count of a line that is well formed.
ModelFor(s, line) == Or(line.model, Or(IF s.pending = None THEN None ELSE s.pending.model, s.model))

\* The parse of a sound count, once it is known which model it has.
LEMMA CountIs ==
    ASSUME NEW s, Typed(s), NEW line, LineOK(line), line.fault = None, NEW lines, Context(lines, s)
    PROVE  LET model == ModelFor(s, line)
           IN  /\ ParsedCount(s, line) = Reported(Modelled(s, model), line, model)
               /\ model \in STRING \cup {None}
               /\ line.model = None /\ s.pending # None => model = s.pending.model
               /\ TurnOf(lines) > 0 => model # None
<1> DEFINE model == ModelFor(s, line)
<1>1. line.model \in STRING \cup {None} /\ s.model \in STRING \cup {None}
  BY DEF LineOK, Line, Typed
<1>2. s.pending # None => s.pending.model \in STRING /\ s.pending.model # None
  BY NoneAssumption DEF Typed, Held
<1>3. model \in STRING \cup {None} /\ (line.model = None /\ s.pending # None => model = s.pending.model)
  BY <1>1, <1>2 DEF ModelFor, Or
<1>4. TurnOf(lines) > 0 => model # None
  BY <1>2 DEF ModelFor, Or, Context
<1>5. None # "unshaped" /\ None # "invalid" /\ None # "undated"
  BY NoneAssumption
<1>6. ParsedCount(s, line) = Reported(Modelled(s, model), line, model)
  BY <1>5 DEF ParsedCount, ModelFor
<1> QED
  BY <1>3, <1>4, <1>6

\* A count of its own total is news.
Advanced(s, line) == [s EXCEPT !.baseline = 0, !.previous = line.total]

\* What is reported of a count whose total is news.
LEMMA NewCountIs ==
    ASSUME NEW lines, History(lines), NEW line, LineOK(line), NewCount(lines, line),
           NEW s, Typed(s), Context(lines, s), NEW model
    PROVE  LET t == Advanced(s, line)
           IN  /\ Reported(s, line, model) =
                      IF Confirms(s, line, model)
                      THEN Emitted([t EXCEPT !.pending = None], line, model)
                      ELSE IF LateFor(s, line) # 0
                      THEN [t EXCEPT !.settled = RemoveAt(s.settled, LateFor(s, line))]
                      ELSE Emitted(Superseded(t, line), line, model)
               /\ Keeps(t, s, {"baseline", "previous"})
               /\ t.baseline = 0 /\ t.previous = line.total
<1> DEFINE t == Advanced(s, line)
<1>1. StateOK(s)
  BY DEF Typed
<1>2. line.usage \in Nat \ {0} /\ line.total = Total(lines) + line.usage /\ Total(lines) \in Nat
  BY SessionAssumption DEF NewCount, History, IsTotal
<1>3. s.previous = Total(lines) /\ s.baseline \in {0, Total(lines)}
  BY DEF Context
<1>4. ~(s.baseline # 0 /\ line.total <= s.baseline)
  BY <1>2, <1>3
<1>5. ~Repeats(s, line)
  BY <1>2, <1>3 DEF Repeats, Stale
<1>6. Keeps(t, s, {"baseline", "previous"}) /\ t.baseline = 0 /\ t.previous = line.total
  <2> DEFINE a == [s EXCEPT !.baseline = 0]
             b == [a EXCEPT !.previous = line.total]
  <2>1. Keeps(a, s, {"baseline"}) /\ a.baseline = 0
    BY <1>1, Fields, SetField
  <2>2. t = b
    BY DEF Advanced
  <2>3. StateOK(a)
    BY <2>1 DEF Keeps
  <2> HIDE DEF a
  <2>4. Keeps(b, a, {"previous"}) /\ b.previous = line.total
    BY <2>3, Fields, SetField
  <2> HIDE DEF b, t
  <2> QED
    BY <2>1, <2>2, <2>4, Fields DEF Keeps
<1>7. t.settled = s.settled
  BY <1>6, Fields DEF Keeps
<1>8. Reported(s, line, model) =
          IF Confirms(s, line, model)
          THEN Emitted([t EXCEPT !.pending = None], line, model)
          ELSE IF LateFor(s, line) # 0
          THEN [t EXCEPT !.settled = RemoveAt(t.settled, LateFor(s, line))]
          ELSE Emitted(Superseded(t, line), line, model)
  BY <1>4, <1>5 DEF Reported, Advanced
<1> HIDE DEF t
<1> QED
  BY <1>6, <1>7, <1>8 DEF t

\* The books look at nothing else.
Elsewhere == {"previous", "baseline", "waiting", "replaying", "turn", "seen", "rejected"}

\* Changes elsewhere keep the books.
LEMMA MovedBooks ==
    ASSUME NEW s, Typed(s), NEW t, NEW F \in SUBSET Elsewhere, Keeps(t, s, F)
    PROVE  /\ Typed(t) /\ Marks(t) = Marks(s) /\ Due(t) = Due(s)
           /\ t.pending = s.pending /\ t.settled = s.settled /\ t.started = s.started
           /\ t.model = s.model /\ t.unmodelled = s.unmodelled /\ t.messages = s.messages
           /\ \A u : Tally(t, u) = Tally(s, u) /\ \A T : Debt(t, u, T) = Debt(s, u, T)
           /\ \A lines : /\ Books(lines, t) <=> Books(lines, s)
                         /\ HoldingLatest(lines, t) <=> HoldingLatest(lines, s)
<1>1. /\ t.pending = s.pending /\ t.settled = s.settled /\ t.started = s.started
      /\ t.model = s.model /\ t.unmodelled = s.unmodelled /\ t.messages = s.messages
      /\ StateOK(t)
  BY Fields DEF Keeps, Elsewhere
<1>2. t.model \in STRING \cup {None}
  BY <1>1 DEF Typed
<1> QED
  BY <1>1, <1>2, SameBooks

\* A sequence without one of its elements.
LEMMA RemovedIn ==
    ASSUME NEW S, NEW seq \in Seq(S), NEW i \in DOMAIN seq
    PROVE  RemoveAt(seq, i) \in Seq(S)
<1>1. PICK m \in Nat : m = Len(seq) /\ DOMAIN seq = 1 .. m
  BY LenProperties
<1>2. SubSeq(seq, 1, i - 1) \in Seq(S) /\ SubSeq(seq, i + 1, m) \in Seq(S)
  <2>1. i \in 1 .. m
    BY <1>1
  <2> QED
    BY <1>1, <2>1, SubSeqProperties
<1> QED
  BY <1>1, <1>2, ConcatProperties DEF RemoveAt

\* After a count of a total of its own.
LEMMA CountContext ==
    ASSUME NEW lines, History(lines), NEW line, LineOK(line),
           Reports(lines, line) \/ Unrecorded(lines, line), NEW s, Context(lines, s),
           NEW t, t.waiting = s.waiting, t.replaying = s.replaying, t.turn = s.turn,
           t.seen = s.seen, t.previous = line.total, t.baseline = 0,
           TurnOf(lines) > 0 => t.model # None /\ t.unmodelled = <<>>,
           Recorded(lines) = {} => t.pending = None /\ t.settled = <<>>
    PROVE  Context(Append(lines, line), t)
<1> DEFINE more == Append(lines, line)
<1>1. line.kind = "count" /\ line.own /\ IsSeq(lines) /\ line.own \in BOOLEAN
  BY DEF Reports, Unrecorded, NewCount, History, LineOK, Line
<1>2. /\ Recorded(more) = Recorded(lines) /\ Total(more) = line.total
      /\ Told(more) = Told(lines) \cup {Place(lines)}
  BY CountMore
<1>3. Waits(more) <=> Waits(lines)
  BY <1>1, WaitsMore DEF Sort
<1>4. TurnOf(more) = TurnOf(lines)
  <2>1. ~(line.kind = "turn" /\ line.own) /\ TurnOf(lines) \in Nat
    BY <1>1, TurnNat
  <2>2. TurnOf(more) = TurnOf(lines) + (IF line.kind = "turn" /\ line.own THEN 1 ELSE 0)
    <3>1. IsSeq(lines) /\ line.own \in BOOLEAN
      BY <1>1
    <3> QED
      BY <3>1, TurnMore
  <2> HIDE DEF more
  <2> QED
    BY <2>1, <2>2
<1>5. Of(more, "parent") = Of(lines, "parent")
  <2>1. IsSeq(lines)
    BY <1>1
  <2>2. Of(more, "parent") = Of(lines, "parent") \cup Adds(lines, line.kind = "parent")
    BY <2>1, OfMore
  <2> HIDE DEF more
  <2> QED
    BY <1>1, <2>2 DEF Adds
<1> HIDE DEF more
<1>6. Context(more, t)
  BY <1>2, <1>3, <1>4, <1>5 DEF Context
<1> QED
  BY <1>6 DEF more

\* A count that reports a record confirms it, or settles what was counted early.
LEMMA ReportStep ==
    ASSUME NEW lines, History(lines), NEW line, LineOK(line), Uniform(lines),
           Reports(lines, line), NEW s, Follows(lines, s)
    PROVE  Follows(Append(lines, line), ParsedCount(s, line))
<1> DEFINE more == Append(lines, line)
           model == ModelFor(s, line)
           u == Modelled(s, model)
           t == Advanced(u, line)
           here == TurnIn(lines, line.id)
<1>1. Typed(s) /\ Context(lines, s) /\ NewCount(lines, line) /\ line.fault = None /\ line.model = None
  BY DEF Follows, Reports, NewCount
<1>2. /\ ParsedCount(s, line) = Reported(u, line, model) /\ model \in STRING \cup {None}
      /\ s.pending # None => model = s.pending.model
      /\ TurnOf(lines) > 0 => model # None
  BY <1>1, CountIs
<1>3. Follows(lines, u) /\ Keeps(u, s, {"model", "unmodelled", "messages"})
  BY <1>1, <1>2, ModelledKeeps
<1>4. u.pending # None => model = u.pending.model
  BY <1>2, <1>3, Fields DEF Keeps
<1>5. Typed(u) /\ Context(lines, u) /\ Books(lines, u) /\ HoldingLatest(lines, u)
  BY <1>3 DEF Follows
<1> HIDE DEF u, model
<1>6. /\ Reported(u, line, model) =
             IF Confirms(u, line, model)
             THEN Emitted([t EXCEPT !.pending = None], line, model)
             ELSE IF LateFor(u, line) # 0
             THEN [t EXCEPT !.settled = RemoveAt(u.settled, LateFor(u, line))]
             ELSE Emitted(Superseded(t, line), line, model)
      /\ Keeps(t, u, {"baseline", "previous"}) /\ t.baseline = 0 /\ t.previous = line.total
  BY <1>1, <1>5, NewCountIs
<1> HIDE DEF t
<1>7. Confirms(u, line, model) \/ LateFor(u, line) # 0
  BY <1>4, <1>5, ReportFinds
<1>8. /\ Typed(t) /\ Marks(t) = Marks(u) /\ Due(t) = Due(u)
      /\ t.pending = u.pending /\ t.settled = u.settled /\ t.started = u.started
      /\ t.model = u.model /\ t.unmodelled = u.unmodelled /\ t.messages = u.messages
      /\ \A w : Tally(t, w) = Tally(u, w) /\ \A T : Debt(t, w, T) = Debt(u, w, T)
      /\ HoldingLatest(lines, t) <=> HoldingLatest(lines, u)
      /\ Books(lines, t) <=> Books(lines, u)
  <2>1. {"baseline", "previous"} \in SUBSET Elsewhere
    BY DEF Elsewhere
  <2> QED
    BY <1>5, <1>6, <2>1, MovedBooks
<1>9. /\ t.waiting = u.waiting /\ t.replaying = u.replaying /\ t.turn = u.turn /\ t.seen = u.seen
      /\ StateOK(t)
  BY <1>6, Fields DEF Keeps
<1>10. Recorded(lines) # {} /\ line.usage \in Usages /\ here \in Nat
  BY ReportScopes DEF Reports, NewCount
<1>11. \A T \in Scopes(more) : \A n \in Nat :
          (line.turn = None \/ n = line.turn) => (n \in T <=> here \in T)
  BY ReportScopes
<1> HIDE DEF more, here
<1>12. CASE Confirms(u, line, model)
  <2> DEFINE c == [t EXCEPT !.pending = None]
             e == Emitted(c, line, model)
             p == u.pending
  <2>1. Keeps(c, t, {"pending"}) /\ c.pending = None
    BY <1>9, Fields, SetField
  <2>2. /\ c.settled = u.settled /\ c.started = u.started /\ c.model = u.model
        /\ c.unmodelled = u.unmodelled /\ c.messages = u.messages /\ c.waiting = u.waiting
        /\ c.replaying = u.replaying /\ c.turn = u.turn /\ c.seen = u.seen
        /\ c.baseline = 0 /\ c.previous = line.total /\ StateOK(c)
    BY <1>6, <1>8, <1>9, <2>1, Fields DEF Keeps
  <2> HIDE DEF c
  <2>3. Typed(c)
    BY <1>5, <2>1, <2>2 DEF Typed
  <2>4. /\ p # None /\ p.usage = line.usage /\ p.turn \in Nat
        /\ line.turn = None \/ p.turn = line.turn
    BY <1>5, <1>12 DEF Confirms, Matches, SameContext, Typed, Held
  <2>5. /\ Typed(e) /\ Keeps(e, c, {"started", "messages", "unmodelled"})
        /\ model # None => e.unmodelled = c.unmodelled
        /\ \A w : /\ Tally(e, w) = Tally(c, w) + (IF w = line.usage THEN 1 ELSE 0)
                  /\ \A T : Debt(e, w, T) = Debt(c, w, T)
        /\ Marks(e) = Marks(c) + Due(c) /\ Due(e) = 0
    BY <1>2, <1>10, <2>1, <2>3, EmittedCounts
  <2> HIDE DEF e
  <2>6. /\ e.pending = None /\ e.settled = u.settled /\ e.model = u.model /\ e.waiting = u.waiting
        /\ e.replaying = u.replaying /\ e.turn = u.turn /\ e.seen = u.seen
        /\ e.baseline = 0 /\ e.previous = line.total
    BY <2>1, <2>2, <2>5, Fields DEF Keeps
  <2>7. \A w \in Usages : Tally(e, w) = Tally(u, w)
    <3> TAKE w \in Usages
    <3>1. Holds(c, w) = 0 /\ Holds(u, w) = IF w = line.usage THEN 1 ELSE 0
      BY <2>1, <2>4 DEF Holds
    <3>2. Number(u.messages, Using(w)) \in Nat /\ Number(u.unmodelled, Using(w)) \in Nat
      BY <1>5, TypedNumbers, NumberNat
    <3>3. Tally(u, w) = Tally(c, w) + (IF w = line.usage THEN 1 ELSE 0)
      BY <2>2, <3>1, <3>2 DEF Tally
    <3> QED
      BY <2>5, <3>3
  <2>8. \A w \in Usages : \A T \in Scopes(more) :
            Debt(e, w, T) >= Debt(u, w, T) - (IF w = line.usage /\ here \in T THEN 1 ELSE 0)
    <3> TAKE w \in Usages
    <3> TAKE T \in Scopes(more)
    <3>1. p.turn \in T <=> here \in T
      BY <1>11, <2>4
    <3>2. HoldsIn(c, w, T) = 0 /\ HoldsIn(u, w, T) = IF w = line.usage /\ here \in T THEN 1 ELSE 0
      BY <2>1, <2>4, <3>1 DEF HoldsIn
    <3>3. Number(u.settled, Owing(w, T)) \in Nat
      BY <1>5, TypedNumbers, NumberNat
    <3>4. Debt(c, w, T) = Debt(u, w, T) - (IF w = line.usage /\ here \in T THEN 1 ELSE 0)
      BY <2>2, <3>2, <3>3 DEF Debt
    <3>5. Debt(e, w, T) = Debt(c, w, T) /\ Debt(e, w, T) \in Nat
      BY <2>5, TypedNumbers
    <3> QED
      BY <3>4, <3>5
  <2>9. Marks(c) = Marks(u) /\ Due(c) = Due(u)
    BY <2>2 DEF Marks, Due
  <2>10. Marked(lines, e)
    <3>1. /\ Marks(c) + Due(c) <= Cardinality(Humans(lines))
          /\ Marks(c) = 0 /\ Humans(lines) # {} => c.started
      BY <1>5, <2>2, <2>9 DEF Books, Marked
    <3> QED
      BY <2>3, <2>5, <3>1, EmittedMarked
  <2>11. Books(more, e)
    BY <1>5, <2>5, <2>7, <2>8, <2>10, ReportBooks DEF more, here
  <2>12. HoldingLatest(more, e)
    BY <2>6 DEF HoldingLatest
  <2>13. TurnOf(lines) > 0 => e.model # None /\ e.unmodelled = <<>>
    BY <1>2, <1>5, <2>2, <2>5, <2>6 DEF Context
  <2>14. Context(more, e)
    BY <1>5, <1>10, <2>6, <2>13, CountContext DEF more
  <2>15. ParsedCount(s, line) = e
    BY <1>2, <1>6, <1>12 DEF e, c
  <2> QED
    BY <2>5, <2>11, <2>12, <2>14, <2>15 DEF Follows, more
<1>13. CASE ~Confirms(u, line, model)
  <2> DEFINE late == LateFor(u, line)
             q == u.settled[late]
             left == RemoveAt(u.settled, late)
             d == [t EXCEPT !.settled = left]
  <2>1. u.settled \in Seq(Signatures) /\ IsSeq(u.settled)
    BY <1>5 DEF Typed, IsSeq
  <2>2. late \in DOMAIN u.settled /\ Matches(q, line.usage, line.turn, line.model)
    BY <1>7, <1>13, <2>1, LateIs
  <2>3. q \in Signatures
    BY <2>1, <2>2, LenProperties, ElementOfSeq
  <2>4. /\ q.usage = line.usage /\ q.turn \in Nat
        /\ line.turn = None \/ q.turn = line.turn
    BY <2>2, <2>3, NoneAssumption DEF Signatures, Matches, SameContext
  <2>5. left \in Seq(Signatures) /\ IsSeq(left)
    BY <2>1, <2>2, RemovedIn DEF IsSeq
  <2>6. \A S : Number(u.settled, S) = Number(left, S) + (IF q \in S THEN 1 ELSE 0)
    BY <2>1, <2>2, NumberRemoved
  <2>7. ParsedCount(s, line) = d
    BY <1>2, <1>6, <1>7, <1>13
  <2> HIDE DEF left
  <2>8. Keeps(d, t, {"settled"}) /\ d.settled = left
    BY <1>9, Fields, SetField
  <2> HIDE DEF d, late, q
  <2>9. /\ d.pending = u.pending /\ d.started = u.started /\ d.model = u.model
        /\ d.unmodelled = u.unmodelled /\ d.messages = u.messages /\ d.waiting = u.waiting
        /\ d.replaying = u.replaying /\ d.turn = u.turn /\ d.seen = u.seen
        /\ d.baseline = 0 /\ d.previous = line.total /\ StateOK(d)
    BY <1>6, <1>8, <1>9, <2>8, Fields DEF Keeps
  <2>10. Typed(d)
    BY <1>5, <2>5, <2>8, <2>9 DEF Typed
  <2>11. \A w \in Usages : Tally(d, w) = Tally(u, w)
    BY <2>9 DEF Tally, Holds
  <2>12. \A w \in Usages : \A T \in Scopes(more) :
            Debt(d, w, T) >= Debt(u, w, T) - (IF w = line.usage /\ here \in T THEN 1 ELSE 0)
    <3> TAKE w \in Usages
    <3> TAKE T \in Scopes(more)
    <3>1. q.turn \in T <=> here \in T
      BY <1>11, <2>4
    <3>2. q \in Owing(w, T) <=> w = line.usage /\ here \in T
      BY <2>3, <2>4, <3>1 DEF Owing
    <3>3. HoldsIn(d, w, T) = HoldsIn(u, w, T) /\ HoldsIn(u, w, T) \in Nat
      BY <2>9 DEF HoldsIn
    <3>4. Number(left, Owing(w, T)) \in Nat
      BY <2>5, NumberNat
    <3>5. Number(u.settled, Owing(w, T))
              = Number(left, Owing(w, T)) + (IF w = line.usage /\ here \in T THEN 1 ELSE 0)
      BY <2>6, <3>2
    <3>6. Debt(d, w, T) = Number(left, Owing(w, T)) + HoldsIn(u, w, T)
      BY <2>8, <3>3 DEF Debt
    <3>7. Debt(u, w, T) = Number(u.settled, Owing(w, T)) + HoldsIn(u, w, T)
      BY DEF Debt
    <3> QED
      BY <3>3, <3>4, <3>5, <3>6, <3>7
  <2>13. Marked(lines, d)
    <3>1. Marks(d) = Marks(u) /\ Due(d) = Due(u)
      BY <2>9 DEF Marks, Due
    <3> QED
      BY <1>5, <2>9, <3>1 DEF Books, Marked
  <2>14. Books(more, d)
    BY <1>5, <2>10, <2>11, <2>12, <2>13, ReportBooks DEF more, here
  <2>15. HoldingLatest(more, d)
    <3> SUFFICES ASSUME d.pending # None PROVE HoldingLatest(more, d)
      BY DEF HoldingLatest
    <3>1. HoldingLatest(lines, d)
      BY <1>5, <2>9 DEF HoldingLatest
    <3>2. line.id # Latest(lines)
      <4> SUFFICES ASSUME line.id = Latest(lines) PROVE FALSE
        OBVIOUS
      <4>1. UsageOf(lines, line.id) = u.pending.usage /\ u.pending.turn = here
        BY <2>9, <3>1 DEF HoldingLatest, here
      <4>2. line.usage = UsageOf(lines, line.id) /\ (line.turn = None \/ line.turn = here)
        BY DEF Reports, here
      <4>3. Matches(u.pending, line.usage, line.turn, model)
        BY <1>4, <2>9, <4>1, <4>2 DEF Matches, SameContext
      <4> QED
        BY <1>13, <2>9, <4>3 DEF Confirms
    <3>3. line.kind = "count" /\ line.id # None
      BY CountMore DEF Reports, NewCount
    <3>4. ~Closes(lines, line, Latest(lines))
      BY <3>2, <3>3 DEF Closes
    <3>5. Latest(more) = Latest(lines)
      BY CountMore DEF more
    <3> QED
      BY <3>1, <3>3, <3>4, <3>5, HoldingMore DEF more
  <2>16. TurnOf(lines) > 0 => d.model # None /\ d.unmodelled = <<>>
    BY <1>5, <2>9 DEF Context
  <2>17. Context(more, d)
    BY <1>5, <1>10, <2>9, <2>16, CountContext DEF more
  <2> QED
    BY <2>7, <2>10, <2>14, <2>15, <2>17 DEF Follows, more
<1> QED
  BY <1>12, <1>13

\* An older client's count: a response that no record tells of.
LEMMA AloneStep ==
    ASSUME NEW lines, History(lines), NEW line, LineOK(line), Uniform(lines),
           Unrecorded(lines, line), NEW s, Follows(lines, s)
    PROVE  Follows(Append(lines, line), ParsedCount(s, line))
<1> DEFINE more == Append(lines, line)
           model == ModelFor(s, line)
           u == Modelled(s, model)
           t == Advanced(u, line)
           c == [t EXCEPT !.pending = None]
           e == Emitted(c, line, model)
           id == line.id
<1>1. /\ Typed(s) /\ Context(lines, s) /\ NewCount(lines, line) /\ line.fault = None
      /\ Recorded(lines) = {} /\ line.usage \in Usages
  BY DEF Follows, Unrecorded, NewCount
<1>2. /\ ParsedCount(s, line) = Reported(u, line, model) /\ model \in STRING \cup {None}
      /\ TurnOf(lines) > 0 => model # None
  BY <1>1, CountIs
<1>3. Follows(lines, u)
  BY <1>1, <1>2, ModelledKeeps
<1>4. Typed(u) /\ Context(lines, u) /\ Books(lines, u) /\ u.pending = None /\ u.settled = <<>>
  BY <1>1, <1>3 DEF Follows, Context
<1> HIDE DEF u, model
<1>5. /\ Reported(u, line, model) =
             IF Confirms(u, line, model)
             THEN Emitted([t EXCEPT !.pending = None], line, model)
             ELSE IF LateFor(u, line) # 0
             THEN [t EXCEPT !.settled = RemoveAt(u.settled, LateFor(u, line))]
             ELSE Emitted(Superseded(t, line), line, model)
      /\ Keeps(t, u, {"baseline", "previous"}) /\ t.baseline = 0 /\ t.previous = line.total
  BY <1>1, <1>4, NewCountIs
<1> HIDE DEF t
<1>6. ~Confirms(u, line, model) /\ LateFor(u, line) = 0
  <2>1. DOMAIN u.settled = {} /\ IsSeq(u.settled)
    BY <1>4, NoSeq, SeqLength
  <2> QED
    BY <1>4, <2>1, LateIs DEF Confirms
<1>7. /\ Typed(t) /\ Marks(t) = Marks(u) /\ Due(t) = Due(u)
      /\ t.pending = u.pending /\ t.settled = u.settled /\ t.started = u.started
      /\ t.model = u.model /\ t.unmodelled = u.unmodelled /\ t.messages = u.messages
      /\ \A w : Tally(t, w) = Tally(u, w) /\ \A T : Debt(t, w, T) = Debt(u, w, T)
  <2>1. {"baseline", "previous"} \in SUBSET Elsewhere
    BY DEF Elsewhere
  <2> QED
    BY <1>4, <1>5, <2>1, MovedBooks
<1>8. Superseded(t, line) = c
  BY <1>4, <1>7 DEF Superseded, AfterCompacted
<1>9. ParsedCount(s, line) = e
  BY <1>2, <1>5, <1>6, <1>8
<1>10. Keeps(c, t, {"pending"}) /\ c.pending = None
  <2>1. StateOK(t) /\ "pending" \in Looked
    BY <1>7, Fields DEF Typed
  <2> QED
    BY <2>1, SetField
<1> HIDE DEF c
<1>11. /\ c.settled = u.settled /\ c.started = u.started /\ c.model = u.model
       /\ c.unmodelled = u.unmodelled /\ c.messages = u.messages /\ c.waiting = u.waiting
       /\ c.replaying = u.replaying /\ c.turn = u.turn /\ c.seen = u.seen
       /\ c.baseline = 0 /\ c.previous = line.total /\ StateOK(c)
  BY <1>5, <1>7, <1>10, Fields DEF Keeps
<1>12. Typed(c) /\ Marks(c) = Marks(u) /\ Due(c) = Due(u) /\ \A w : Tally(c, w) = Tally(u, w)
  <2>1. c.pending = u.pending /\ c.model \in STRING \cup {None}
    BY <1>4, <1>10, <1>11 DEF Typed
  <2> QED
    BY <1>4, <1>11, <2>1, SameBooks
<1>13. /\ Typed(e) /\ Keeps(e, c, {"started", "messages", "unmodelled"})
       /\ model # None => e.unmodelled = c.unmodelled
       /\ \A w : /\ Tally(e, w) = Tally(c, w) + (IF w = line.usage THEN 1 ELSE 0)
                 /\ \A T : Debt(e, w, T) = Debt(c, w, T)
       /\ Marks(e) = Marks(c) + Due(c) /\ Due(e) = 0
  BY <1>1, <1>2, <1>10, <1>12, EmittedCounts
<1> HIDE DEF e
<1>14. /\ e.pending = None /\ e.settled = <<>> /\ e.model = u.model /\ e.waiting = u.waiting
       /\ e.replaying = u.replaying /\ e.turn = u.turn /\ e.seen = u.seen
       /\ e.baseline = 0 /\ e.previous = line.total
  BY <1>4, <1>10, <1>11, <1>13, Fields DEF Keeps
<1>15. TurnOf(lines) > 0 => e.model # None /\ e.unmodelled = <<>>
  BY <1>2, <1>4, <1>11, <1>13, <1>14 DEF Context
<1>16. Context(more, e)
  BY <1>4, <1>14, <1>15, CountContext
<1>17. /\ id # None /\ id \notin Responses(lines) /\ Recorded(more) = {}
       /\ Responses(more) = Responses(lines) \cup {id}
  <2>1. /\ Responses(more) = 1 .. (Latest(lines) + 1) /\ Responses(lines) = 1 .. Latest(lines)
        /\ Latest(lines) \in Nat /\ id = Latest(lines) + 1 /\ id # None
        /\ Recorded(more) = Recorded(lines)
    BY CountMore DEF History, Numbered
  <2>2. Responses(more) = Responses(lines) \cup {id}
    BY <2>1, IntervalMore
  <2> QED
    BY <1>1, <2>1, <2>2, CountMore
<1>18. \A i \in Responses(lines) : UsageOf(more, i) = UsageOf(lines, i)
  BY KeptResponse
<1>19. UsageOf(more, id) = line.usage
  <2>1. ~IdIn(lines, id)
    BY <1>17 DEF IdIn, History, LineOK, Responses, Own
  <2>2. IsSeq(lines)
    BY DEF History
  <2> QED
    BY <2>1, <2>2, FirstNew
<1>20. Humans(more) = Humans(lines)
  BY <1>1, HumansMore DEF Adds, NewCount
<1> HIDE DEF more, id
<1>21. Tallied(more, e)
  <2> SUFFICES ASSUME NEW w \in Usages PROVE Tally(e, w) = Cardinality(With(more, w))
    BY DEF Tallied
  <2>1. Tally(u, w) = Cardinality(With(lines, w)) /\ Cardinality(With(lines, w)) \in Nat
    BY <1>4, Finite DEF Books, Tallied
  <2>2. Tally(e, w) = Tally(u, w) + (IF w = line.usage THEN 1 ELSE 0)
    BY <1>12, <1>13
  <2>3. CASE w = line.usage
    <3>1. With(more, w) = With(lines, w) \cup {id} /\ id \notin With(lines, w)
      BY <1>17, <1>18, <1>19, <2>3 DEF With
    <3>2. Cardinality(With(lines, w) \cup {id}) = Cardinality(With(lines, w)) + 1
      BY <3>1, Finite, FS_AddElement
    <3> QED
      BY <2>1, <2>2, <2>3, <3>1, <3>2
  <2>4. CASE w # line.usage
    <3>1. With(more, w) = With(lines, w)
      BY <1>17, <1>18, <1>19, <2>4 DEF With
    <3> QED
      BY <2>1, <2>2, <2>4, <3>1
  <2> QED
    BY <2>3, <2>4
<1>22. Expected(more, e)
  <2>1. \A w : \A T : Awaited(more, w, T) = {}
    BY <1>17 DEF Awaited
  <2>2. \A w : \A T : Debt(e, w, T) \in Nat
    BY <1>13, TypedNumbers
  <2> QED
    BY <2>1, <2>2, FS_EmptySet DEF Expected
<1>23. Marked(more, e)
  <2>1. /\ Marks(c) + Due(c) <= Cardinality(Humans(more))
        /\ Marks(c) = 0 /\ Humans(more) # {} => c.started
    BY <1>4, <1>11, <1>12, <1>20 DEF Books, Marked
  <2> QED
    BY <1>12, <1>13, <2>1, EmittedMarked
<1>24. HoldingLatest(more, e)
  BY <1>14 DEF HoldingLatest
<1>25. Follows(more, e)
  BY <1>13, <1>16, <1>21, <1>22, <1>23, <1>24 DEF Follows, Books, more
<1> QED
  BY <1>9, <1>25 DEF more

-----------------------------------------------------------------------------
(* Lines that tell of no response.                                           *)

\* A rejection changes nothing.
LEMMA FollowsAlike ==
    ASSUME NEW s, NEW t, NEW F \in SUBSET {"rejected"}, Keeps(t, s, F), NEW lines
    PROVE  /\ Follows(lines, s) => Follows(lines, t)
           /\ Typed(s) /\ Context(lines, s) => Context(lines, t)
<1> SUFFICES ASSUME Typed(s)
             PROVE  /\ Follows(lines, s) => Follows(lines, t)
                    /\ Context(lines, s) => Context(lines, t)
  BY DEF Follows
<1>1. F \in SUBSET Elsewhere
  BY DEF Elsewhere
<1>2. /\ Typed(t) /\ (Books(lines, t) <=> Books(lines, s))
      /\ HoldingLatest(lines, t) <=> HoldingLatest(lines, s)
      /\ t.pending = s.pending /\ t.settled = s.settled
      /\ t.model = s.model /\ t.unmodelled = s.unmodelled
  BY <1>1, MovedBooks
<1>3. /\ t.waiting = s.waiting /\ t.replaying = s.replaying /\ t.turn = s.turn /\ t.seen = s.seen
      /\ t.previous = s.previous /\ t.baseline = s.baseline
  BY Fields DEF Keeps
<1>4. Context(lines, s) => Context(lines, t)
  BY <1>2, <1>3 DEF Context
<1> QED
  BY <1>2, <1>4 DEF Follows

\* Settlement does not move the parser.
LEMMA SettledContext ==
    ASSUME NEW s, Typed(s), NEW lines, Context(lines, s)
    PROVE  Context(lines, Settled(s))
<1>1. CASE s.pending = None
  BY <1>1 DEF Settled
<1>2. CASE s.pending # None
  <2> DEFINE t == Settled(s)
  <2>1. Keeps(t, s, {"pending", "started", "messages", "settled"})
    BY <1>2, SettledEffect DEF Typed
  <2> HIDE DEF t
  <2>2. /\ t.model = s.model /\ t.turn = s.turn /\ t.unmodelled = s.unmodelled
        /\ t.waiting = s.waiting /\ t.replaying = s.replaying /\ t.seen = s.seen
        /\ t.previous = s.previous /\ t.baseline = s.baseline
    BY <2>1, Fields DEF Keeps
  <2>3. Context(lines, t)
    BY <1>2, <2>2 DEF Context
  <2> QED
    BY <2>3 DEF t
<1> QED
  BY <1>1, <1>2

\* A line that is no response leaves the context as it is.
LEMMA QuietContext ==
    ASSUME NEW lines, History(lines), NEW line, LineOK(line), Quiet(lines, line),
           line.kind # "fork", ~(line.kind = "turn" /\ line.own),
           ~Waits(lines) \/ line.kind # "parent",
           Total(Append(lines, line)) = Total(lines), NEW s, Context(lines, s)
    PROVE  Context(Append(lines, line), s)
<1> DEFINE more == Append(lines, line)
<1>1. IsSeq(lines) /\ line.own \in BOOLEAN
  BY DEF History, LineOK, Line
<1>2. Recorded(more) = Recorded(lines) /\ Told(more) = Told(lines)
  BY QuietMore
<1>3. Waits(more) <=> Waits(lines)
  BY WaitsMore DEF Sort
<1>4. TurnOf(more) = TurnOf(lines)
  <2>1. TurnOf(more) = TurnOf(lines) + (IF line.kind = "turn" /\ line.own THEN 1 ELSE 0)
    BY <1>1, TurnMore
  <2>2. TurnOf(lines) \in Nat
    BY <1>1, TurnNat
  <2> HIDE DEF more
  <2> QED
    BY <2>1, <2>2
<1>5. Of(more, "parent") = Of(lines, "parent") \cup Adds(lines, line.kind = "parent")
  BY <1>1, OfMore
<1>6. Total(more) = Total(lines)
  OBVIOUS
<1> HIDE DEF more
<1>7. Waits(lines) => Of(more, "parent") = Of(lines, "parent")
  BY <1>5 DEF Adds
<1>8. Context(more, s)
  BY <1>2, <1>3, <1>4, <1>6, <1>7 DEF Context
<1> QED
  BY <1>8 DEF more

\* What is held back stays so while such a line closes nothing.
LEMMA QuietFollows ==
    ASSUME NEW lines, History(lines), NEW line, LineOK(line), Uniform(lines),
           Quiet(lines, line), line.kind # "fork", ~(line.kind = "turn" /\ line.own),
           ~(line.kind = "human" /\ line.own), ~Waits(lines) \/ line.kind # "parent",
           Total(Append(lines, line)) = Total(lines), NEW s, Follows(lines, s),
           s.pending # None => /\ ~Closes(lines, line, Latest(lines))
                               /\ line.kind = "compacted" /\ line.own => s.pending.compacted
    PROVE  Follows(Append(lines, line), s)
<1>1. Books(Append(lines, line), s)
  BY QuietBooks DEF Follows
<1>2. Context(Append(lines, line), s)
  BY QuietContext DEF Follows
<1>3. HoldingLatest(Append(lines, line), s)
  <2>1. CASE s.pending = None
    BY <2>1 DEF HoldingLatest
  <2>2. CASE s.pending # None
    <3>1. Latest(Append(lines, line)) = Latest(lines)
      BY QuietMore
    <3> QED
      BY <2>2, <3>1, HoldingMore DEF Follows
  <2> QED
    BY <2>1, <2>2
<1> QED
  BY <1>1, <1>2, <1>3 DEF Follows

\* A repeated count is a replay of the parent's while the session has told none of
\* its own; else it advances nothing.
LEMMA Repeating ==
    ASSUME NEW lines, History(lines), NEW line, LineOK(line), line.total <= Total(lines),
           line.kind = "count", line.id = None, line.fault = None, ~Waits(lines),
           ~Misread(lines, line), NEW s, Context(lines, s), HoldingLatest(lines, s)
    PROVE  \/ s.baseline # 0 /\ line.total <= s.baseline /\ s.pending = None
           \/ s.baseline = 0 /\ Repeats(s, line)
<1>1. s.previous = Total(lines) /\ s.baseline = IF Told(lines) = {} THEN Total(lines) ELSE 0
  BY DEF Context
<1>2. PICK t \in Nat : t = Total(lines)
  BY DEF History, IsTotal
<1>3. CASE Told(lines) = {} /\ t > 0
  <2>1. \A id \in Recorded(lines) : IsSettled(lines, id)
    BY <1>2, <1>3 DEF Misread
  <2>2. s.pending = None
    BY <2>1 DEF HoldingLatest
  <2> QED
    BY <1>1, <1>2, <1>3, <2>2
<1>4. CASE ~(Told(lines) = {} /\ t > 0)
  <2>1. s.baseline = 0
    BY <1>1, <1>2, <1>4
  <2>2. line.usage = 0 \/ line.total = t \/ Stale(line.total, t, line.usage)
    BY <1>2, <1>4 DEF Misread
  <2>3. line.total \in Nat /\ (line.total = 0 => line.usage = 0)
    BY DEF LineOK, Line
  <2>4. Stale(line.total, t, line.usage) => t # 0
    BY <1>2, <2>3 DEF Stale
  <2> QED
    BY <1>1, <1>2, <2>1, <2>2, <2>3, <2>4 DEF Repeats
<1> QED
  BY <1>3, <1>4

\* A repeated count is not counted; it settles a compacted response, unless it is
\* taken for a replay of the parent's.
LEMMA RepeatStep ==
    ASSUME NEW lines, History(lines), NEW line, LineOK(line), Uniform(lines),
           Again(lines, line) \/ Foreign(lines, line), ~Waits(lines),
           ~Misread(lines, line), NEW s, Follows(lines, s)
    PROVE  /\ line.kind = "count"
           /\ Follows(Append(lines, line), ParsedCount(s, line))
<1> DEFINE more == Append(lines, line)
           model == ModelFor(s, line)
           u == Modelled(s, model)
           a == [u EXCEPT !.baseline = 0]
           t == [u EXCEPT !.pending = None]
<1>1. /\ line.fault = None /\ line.kind = "count" /\ line.id = None
      /\ line.total <= Total(lines)
      /\ Quiet(lines, line) /\ Typed(s) /\ Context(lines, s)
  <2>1. TurnOf(lines) = 0 => ~Foreign(lines, line)
    BY DEF Foreign, Waits
  <2> QED
    BY <2>1 DEF Again, Foreign, Quiet, Follows
<1>2. ParsedCount(s, line) = Reported(u, line, model) /\ model \in STRING \cup {None}
  BY <1>1, CountIs
<1>3. Follows(lines, u)
  BY <1>2, ModelledKeeps
<1>4. Typed(u) /\ Context(lines, u) /\ StateOK(u)
  BY <1>3 DEF Follows, Typed
<1> HIDE DEF u, model
<1>5. \/ u.baseline # 0 /\ line.total <= u.baseline /\ u.pending = None
      \/ u.baseline = 0 /\ Repeats(u, line)
  BY <1>1, <1>3, <1>4, Repeating DEF Follows
<1>6. Total(more) = Total(lines)
  BY <1>1, QuietMore
<1>7. CASE u.baseline # 0
  <2>1. ParsedCount(s, line) = t
    BY <1>2, <1>5, <1>7 DEF Reported
  <2>2. Keeps(t, u, {"pending"}) /\ t.pending = None
    <3>1. "pending" \in Looked
      BY Fields
    <3> QED
      BY <1>4, <3>1, SetField
  <2> HIDE DEF t
  <2>3. Keeps(t, u, {})
    BY <1>5, <1>7, <2>2 DEF Keeps
  <2>4. Follows(lines, t)
    BY <1>3, <2>3, FollowsAlike
  <2>5. Follows(more, t)
    BY <1>1, <1>6, <2>2, <2>4, QuietFollows
  <2> QED
    BY <1>1, <2>1, <2>5
<1> SUFFICES ASSUME u.baseline = 0
             PROVE  Follows(more, ParsedCount(s, line))
  BY <1>1, <1>7
<1> HIDE DEF t
<1>8. ParsedCount(s, line) = Unadvanced(a)
  BY <1>2, <1>5 DEF Reported
<1>9. Keeps(a, u, {"baseline"}) /\ a.baseline = 0
  <2>1. "baseline" \in Looked
    BY Fields
  <2> QED
    BY <1>4, <2>1, SetField
<1> HIDE DEF a
<1>10. Keeps(a, u, {})
  BY <1>9 DEF Keeps
<1>11. Follows(lines, a)
  BY <1>3, <1>10, FollowsAlike
<1>12. CASE ~AfterCompacted(a)
  <2>1. ASSUME a.pending # None PROVE ~Closes(lines, line, Latest(lines))
    <3>1. ~a.pending.compacted
      BY <1>12, <2>1 DEF AfterCompacted
    <3>2. /\ ~(\E n \in OwnOf(lines, "compacted") : n > FirstOf(lines, Latest(lines)))
          /\ Latest(lines) \in Recorded(lines)
      BY <1>11, <2>1, <3>1 DEF Follows, HoldingLatest
    <3>3. Latest(lines) # None
      BY <3>2, RecordedIn, Finite
    <3> QED
      BY <1>1, <3>2, <3>3 DEF Closes
  <2>2. Follows(more, a)
    BY <1>1, <1>11, <1>6, <2>1, QuietFollows
  <2> QED
    BY <1>8, <1>12, <2>2 DEF Unadvanced
<1>13. CASE AfterCompacted(a)
  <2>1. Typed(a) /\ Books(more, a)
    BY <1>1, <1>11, QuietBooks DEF Follows
  <2>2. Context(more, a)
    BY <1>1, <1>11, <1>6, QuietContext DEF Follows
  <2>3. /\ Typed(Settled(a)) /\ Books(more, Settled(a)) /\ Settled(a).pending = None
    BY <2>1, SettledKeeps
  <2>4. Context(more, Settled(a))
    BY <2>1, <2>2, SettledContext
  <2>5. HoldingLatest(more, Settled(a))
    BY <2>3 DEF HoldingLatest
  <2> QED
    BY <1>8, <1>13, <2>3, <2>4, <2>5 DEF Unadvanced, Follows
<1> QED
  BY <1>12, <1>13

\* A rejected line, and a record that is written again.
LEMMA BrokenStep ==
    ASSUME NEW lines, History(lines), NEW line, LineOK(line), Uniform(lines),
           Broken(lines, line) \/ OldRecord(lines, line), ~Waits(lines),
           NEW s, Follows(lines, s)
    PROVE  /\ Follows(Append(lines, line), s)
           /\ Follows(Append(lines, line), Rejected(s))
           /\ line.kind = "count" => ParsedCount(s, line) = Rejected(s)
           /\ line.kind = "record" => ParsedRecord(s, line) \in {s, Rejected(s)}
<1> DEFINE more == Append(lines, line)
           id == Latest(lines)
<1>1. /\ Quiet(lines, line) /\ line.own /\ line.kind \in {"odd", "count", "record"}
      /\ line.kind = "count" => line.fault = "invalid" /\ line.id = None
      /\ line.kind = "record" => OldRecord(lines, line)
  BY DEF Broken, OldRecord, Quiet
<1>2. Total(more) = Total(lines)
  BY <1>1, QuietMore
<1>3. StateOK(s)
  BY DEF Follows, Typed
<1>4. ASSUME s.pending # None PROVE ~Closes(lines, line, id)
  <2>1. id \in Recorded(lines) /\ ~IsSettled(lines, id)
    BY <1>4 DEF Follows, HoldingLatest
  <2>2. id \in Responses(lines) /\ id # None
    BY <2>1, RecordedIn, Finite
  <2>3. CASE line.kind = "record"
    <3>1. line.id = lines[Len(lines)].id /\ Len(lines) \in OwnOf(lines, "record")
      BY <1>1, <2>3 DEF OldRecord
    <3>2. FirstOf(lines, id) \in 1 .. Len(lines) /\ lines[FirstOf(lines, id)].id = id
      BY <2>2, ResponseIn, FirstIs DEF History
    <3>3. line.id = id
      <4> SUFFICES ASSUME line.id # id PROVE FALSE
        OBVIOUS
      <4>1. FirstOf(lines, id) < Len(lines)
        <5>1. FirstOf(lines, id) # Len(lines)
          BY <3>1, <3>2
        <5>2. Len(lines) \in Nat
          BY SeqLength DEF History
        <5> QED
          BY <3>2, <5>1, <5>2
      <4>2. \E n \in OwnOf(lines, "record") : n > FirstOf(lines, id) /\ lines[n].id # id
        BY <3>1, <4>1
      <4> QED
        BY <2>1, <4>2 DEF IsSettled, OwnOf
    <3> QED
      BY <2>3, <3>3 DEF Closes
  <2>4. CASE line.kind = "count"
    <3>1. line.fault # None
      BY <1>1, <2>4, NoneAssumption
    <3> QED
      BY <1>1, <2>2, <2>4, <3>1 DEF Closes
  <2>5. CASE line.kind = "odd"
    BY <2>5 DEF Closes
  <2> QED
    BY <1>1, <2>3, <2>4, <2>5
<1>5. Follows(more, s)
  BY <1>1, <1>2, <1>4, QuietFollows
<1>6. Follows(more, Rejected(s))
  BY <1>3, <1>5, RejectedEffect, FollowsAlike
<1>7. line.kind = "count" => ParsedCount(s, line) = Rejected(s)
  BY <1>1 DEF ParsedCount
<1>8. line.kind = "record" => ParsedRecord(s, line) \in {s, Rejected(s)}
  <2> SUFFICES ASSUME line.kind = "record" PROVE ParsedRecord(s, line) \in {s, Rejected(s)}
    OBVIOUS
  <2>1. line.id \in s.seen
    BY <1>1 DEF OldRecord, Follows, Context
  <2> QED
    BY <2>1 DEF ParsedRecord
<1> QED
  BY <1>5, <1>6, <1>7, <1>8

\* A record of a new response settles the one before it and is held back.
LEMMA RecordStep ==
    ASSUME NEW lines, History(lines), NEW line, LineOK(line), Uniform(lines),
           NewRecord(lines, line), NEW s, Follows(lines, s)
    PROVE  Follows(Append(lines, line), ParsedRecord(s, line))
<1> DEFINE more == Append(lines, line)
           p == [usage |-> line.usage, turn |-> s.turn, model |-> s.model,
                 start |-> s.started, compacted |-> FALSE]
           a == Settled(s)
           b == [a EXCEPT !.seen = s.seen \cup {line.id}]
           c == [b EXCEPT !.pending = p]
<1>1. /\ line.kind = "record" /\ line.own /\ line.fault = None /\ line.model = None
      /\ line.turn = None /\ line.usage \in Usages /\ TurnOf(lines) > 0
      /\ IsSeq(lines) /\ line.own \in BOOLEAN
  BY DEF NewRecord, History, LineOK, Line
<1>2. Typed(s) /\ Context(lines, s) /\ Books(lines, s)
  BY DEF Follows
<1>3. /\ s.model # None /\ s.turn = TurnOf(lines) /\ s.unmodelled = <<>> /\ s.seen = Recorded(lines)
      /\ TurnOf(lines) \in Nat /\ s.turn # None
  <2>1. TurnOf(lines) \in Nat
    BY <1>1, TurnNat
  <2> QED
    BY <1>1, <1>2, <2>1, NoneAssumption DEF Context
<1>4. /\ line.id \notin s.seen /\ line.usage # 0 /\ line.usage \in Nat
      /\ line.id = Latest(lines) + 1
  <2>1. line.id \notin Responses(lines)
    BY RecordMore
  <2>2. line.id \notin s.seen
    BY <1>3, <2>1, RecordedIn
  <2> QED
    BY <1>1, <2>2, SessionAssumption DEF NewRecord
<1>5. ParsedRecord(s, line) = [a EXCEPT !.seen = a.seen \cup {line.id}, !.pending = p]
  BY <1>1, <1>3, <1>4 DEF ParsedRecord, Or
<1>6. /\ p \in Held /\ p # None /\ p.usage = line.usage /\ p.turn = TurnOf(lines)
      /\ p.start = s.started /\ ~p.compacted
  <2>1. p \in Held
    BY <1>1, <1>2, <1>3, <1>4 DEF Held, Typed
  <2>2. p # None
    BY <2>1, NoneAssumption
  <2> QED
    BY <1>3, <2>1, <2>2
<1>7. /\ Typed(a) /\ Books(lines, a) /\ a.pending = None /\ Context(lines, a)
  BY <1>2, SettledKeeps, SettledContext
<1>8. /\ a.seen = s.seen /\ a.turn = s.turn /\ a.model = s.model /\ a.unmodelled = s.unmodelled
      /\ a.started => s.started
  <2>1. CASE s.pending = None
    BY <2>1 DEF Settled
  <2>2. CASE s.pending # None
    <3>1. Keeps(a, s, {"pending", "started", "messages", "settled"})
      BY <1>2, <2>2, SettledEffect DEF Typed
    <3>2. a.started => s.started
      BY <1>2, <2>2, SettledCounts
    <3> HIDE DEF a
    <3> QED
      BY <3>1, <3>2, Fields DEF Keeps
  <2> QED
    BY <2>1, <2>2
<1>9. ParsedRecord(s, line) = c
  BY <1>5, <1>8
<1> HIDE DEF p, a
<1>10. Keeps(b, a, {"seen"}) /\ b.seen = s.seen \cup {line.id}
  <2>1. StateOK(a) /\ "seen" \in Looked
    BY <1>7, Fields DEF Typed
  <2> QED
    BY <2>1, SetField
<1> HIDE DEF b
<1>11. Keeps(c, b, {"pending"}) /\ c.pending = p
  <2>1. StateOK(b) /\ "pending" \in Looked
    BY <1>10, Fields DEF Keeps
  <2> QED
    BY <2>1, SetField
<1> HIDE DEF c
<1>12. /\ c.messages = a.messages /\ c.unmodelled = a.unmodelled /\ c.settled = a.settled
       /\ c.started = a.started /\ c.model = a.model /\ c.turn = a.turn /\ c.waiting = a.waiting
       /\ c.replaying = a.replaying /\ c.previous = a.previous /\ c.baseline = a.baseline
       /\ c.seen = Recorded(lines) \cup {line.id} /\ StateOK(c)
  BY <1>3, <1>10, <1>11, Fields DEF Keeps
<1>13. Typed(c)
  BY <1>1, <1>6, <1>7, <1>11, <1>12, <1>3, NoneAssumption DEF Typed
<1>14. Books(more, c)
  BY <1>6, <1>7, <1>8, <1>11, <1>12, RecordBooks
<1>15. /\ Latest(more) = line.id /\ Told(more) = Told(lines) /\ Total(more) = Total(lines)
       /\ line.id # None
  <2>1. Latest(lines) \in Nat
    BY DEF History, Numbered
  <2> QED
    BY <1>4, <2>1, RecordMore, NoneAssumption
<1>16. Recorded(more) = Recorded(lines) \cup {line.id}
  <2>1. IsSeq(lines) /\ line.own \in BOOLEAN
    BY <1>1
  <2>2. Recorded(more) = Recorded(lines) \cup
            (IF line.kind = "record" /\ line.own THEN {line.id} ELSE {})
    BY <2>1, CountsMore
  <2> HIDE DEF more
  <2> QED
    BY <1>1, <2>2
<1>17. TurnOf(more) = TurnOf(lines)
  <2>1. ~(line.kind = "turn" /\ line.own)
    BY <1>1
  <2>2. IsSeq(lines) /\ line.own \in BOOLEAN
    BY <1>1
  <2>3. TurnOf(more) = TurnOf(lines) + (IF line.kind = "turn" /\ line.own THEN 1 ELSE 0)
    BY <2>2, TurnMore
  <2> HIDE DEF more
  <2> QED
    BY <1>3, <2>1, <2>3
<1>18. UsageOf(more, line.id) = line.usage /\ TurnIn(more, line.id) = TurnOf(more)
  <2>1. ~IdIn(lines, line.id)
    <3>1. line.id \notin Responses(lines)
      BY RecordMore
    <3> QED
      BY <1>15, <3>1 DEF IdIn, History, LineOK, Responses, Own
  <2>2. IsSeq(lines)
    BY <1>1
  <2> QED
    BY <2>1, <2>2, FirstNew
<1>19. /\ ~IsSettled(more, line.id)
       /\ \A n \in OwnOf(more, "compacted") : ~(n > FirstOf(more, line.id))
  BY OpenNew
<1>20. Waits(more) <=> Waits(lines)
  BY <1>1, WaitsMore DEF Sort
<1>21. ~Waits(lines)
  BY <1>1 DEF Waits
<1> HIDE DEF more
<1>22. HoldingLatest(more, c)
  BY <1>6, <1>11, <1>15, <1>16, <1>17, <1>18, <1>19 DEF HoldingLatest
<1>23. Context(more, c)
  BY <1>3, <1>7, <1>8, <1>12, <1>15, <1>16, <1>17, <1>20, <1>21 DEF Context
<1> QED
  BY <1>9, <1>13, <1>14, <1>22, <1>23 DEF Follows, more

-----------------------------------------------------------------------------
(* The other entries.                                                        *)

\* A human input makes a turn start due.
LEMMA HumanStep ==
    ASSUME NEW lines, History(lines), NEW line, LineOK(line), Uniform(lines),
           Simple(lines, line, "human"), ~Waits(lines), NEW s, Follows(lines, s)
    PROVE  ParsedEntry(s, line).interrupted \/ Follows(Append(lines, line), ParsedEntry(s, line))
<1> DEFINE more == Append(lines, line)
           t == [s EXCEPT !.started = TRUE]
<1>1. line.kind = "human" /\ line.own /\ line.id = None /\ line.fault = None /\ Quiet(lines, line)
  BY DEF Simple, Quiet
<1>2. Typed(s) /\ StateOK(s) /\ Context(lines, s) /\ Books(lines, s)
  BY DEF Follows, Typed
<1>3. Closed(s, line) = s
  BY <1>1 DEF Closed, ClosesPending
<1>4. CASE Undecided(s, line)
  BY <1>2, <1>4, RejectedEffect DEF ParsedEntry
<1>5. CASE ~Undecided(s, line)
  <2>1. ParsedEntry(s, line) = t
    BY <1>1, <1>3, <1>5, NoneAssumption DEF ParsedEntry
  <2>2. Keeps(t, s, {"started"}) /\ t.started = TRUE
    <3>1. "started" \in Looked
      BY Fields
    <3> QED
      BY <1>2, <3>1, SetField
  <2> HIDE DEF t
  <2>3. /\ t.pending = s.pending /\ t.settled = s.settled /\ t.model = s.model /\ t.turn = s.turn
        /\ t.unmodelled = s.unmodelled /\ t.messages = s.messages /\ t.seen = s.seen
        /\ t.waiting = s.waiting /\ t.replaying = s.replaying /\ t.previous = s.previous
        /\ t.baseline = s.baseline /\ StateOK(t)
    BY <2>2, Fields DEF Keeps
  <2>4. Typed(t)
    BY <1>2, <2>2, <2>3 DEF Typed
  <2>5. Books(more, t)
    BY <1>1, <1>2, <2>2, <2>3, <2>4, HumanBooks
  <2>6. Total(more) = Total(lines) /\ Latest(more) = Latest(lines)
    BY <1>1, QuietMore
  <2>7. Context(lines, t)
    BY <1>2, <2>3 DEF Context
  <2>8. Context(more, t)
    BY <1>1, <2>6, <2>7, QuietContext
  <2>9. HoldingLatest(more, t)
    <3>1. CASE t.pending = None
      BY <3>1 DEF HoldingLatest
    <3>2. CASE t.pending # None
      <4>1. HoldingLatest(lines, t)
        BY <2>3 DEF HoldingLatest, Follows
      <4>2. ~Closes(lines, line, Latest(lines))
        BY <1>1 DEF Closes
      <4> QED
        BY <1>1, <2>6, <3>2, <4>1, <4>2, HoldingMore
    <3> QED
      BY <3>1, <3>2
  <2> QED
    BY <2>1, <2>4, <2>5, <2>8, <2>9 DEF Follows
<1> QED
  BY <1>4, <1>5

\* The end of a turn settles the response of that turn.
LEMMA EndStep ==
    ASSUME NEW lines, History(lines), NEW line, LineOK(line), Uniform(lines),
           Simple(lines, line, "end"), line.turn \in {None, TurnOf(lines)}, ~Waits(lines),
           NEW s, Follows(lines, s)
    PROVE  ParsedEntry(s, line).interrupted \/ Follows(Append(lines, line), ParsedEntry(s, line))
<1> DEFINE more == Append(lines, line)
           t == Settled(s)
<1>1. line.kind = "end" /\ line.own /\ line.id = None /\ line.fault = None /\ Quiet(lines, line)
  BY DEF Simple, Quiet
<1>2. Typed(s) /\ StateOK(s) /\ Context(lines, s) /\ Books(lines, s)
  BY DEF Follows, Typed
<1>3. Closed(s, line) = t
  <2>1. CASE s.pending = None
    BY <1>1, <2>1 DEF Closed, ClosesPending, Settled
  <2>2. CASE s.pending # None
    <3>1. s.pending.turn = TurnOf(lines)
      BY <2>2 DEF Follows, HoldingLatest
    <3>2. ClosesPending(s, line)
      BY <1>1, <2>2, <3>1 DEF ClosesPending
    <3> QED
      BY <1>1, <3>2 DEF Closed
  <2> QED
    BY <2>1, <2>2
<1>4. CASE Undecided(s, line)
  BY <1>2, <1>4, RejectedEffect DEF ParsedEntry
<1>5. CASE ~Undecided(s, line)
  <2>1. ParsedEntry(s, line) = t
    BY <1>1, <1>3, <1>5 DEF ParsedEntry
  <2>2. Typed(t) /\ Books(lines, t) /\ t.pending = None /\ Context(lines, t)
    BY <1>2, SettledKeeps, SettledContext
  <2>3. HoldingLatest(lines, t)
    BY <2>2 DEF HoldingLatest
  <2>4. Follows(lines, t)
    BY <2>2, <2>3 DEF Follows
  <2>5. Total(more) = Total(lines)
    BY <1>1, QuietMore
  <2>6. Follows(more, t)
    BY <1>1, <2>2, <2>4, <2>5, QuietFollows
  <2> QED
    BY <2>1, <2>6
<1> QED
  BY <1>4, <1>5

\* A compaction marks what is held back.
LEMMA CompactedStep ==
    ASSUME NEW lines, History(lines), NEW line, LineOK(line), Uniform(lines),
           Simple(lines, line, "compacted"), ~Waits(lines), NEW s, Follows(lines, s)
    PROVE  ParsedEntry(s, line).interrupted \/ Follows(Append(lines, line), ParsedEntry(s, line))
<1> DEFINE more == Append(lines, line)
           p == [s.pending EXCEPT !.compacted = TRUE]
           t == [s EXCEPT !.pending = p]
<1>1. /\ line.kind = "compacted" /\ line.own /\ line.id = None /\ line.fault = None
      /\ Quiet(lines, line)
  BY DEF Simple, Quiet
<1>2. Typed(s) /\ StateOK(s) /\ Context(lines, s) /\ Books(lines, s) /\ HoldingLatest(lines, s)
  BY DEF Follows, Typed
<1>3. Closed(s, line) = s
  BY <1>1 DEF Closed, ClosesPending
<1>4. Total(more) = Total(lines)
  BY <1>1, QuietMore
<1>5. ~Closes(lines, line, Latest(lines))
  BY <1>1 DEF Closes
<1>6. CASE Undecided(s, line)
  BY <1>2, <1>6, RejectedEffect DEF ParsedEntry
<1>7. CASE ~Undecided(s, line) /\ s.pending = None
  <2>1. ParsedEntry(s, line) = s
    BY <1>1, <1>3, <1>7 DEF ParsedEntry
  <2>2. Follows(more, s)
    BY <1>1, <1>4, <1>7, QuietFollows
  <2> QED
    BY <2>1, <2>2
<1>8. CASE ~Undecided(s, line) /\ s.pending # None
  <2>1. /\ s.pending \in Held /\ s.pending.usage \in Usages /\ s.pending.turn # None
        /\ "pending" \in StateFields
    BY <1>2, <1>8, Fields DEF Typed
  <2>2. ParsedEntry(s, line) = t
    BY <1>1, <1>2, <1>3, <1>8, <2>1 DEF ParsedEntry, StateOK
  <2>3. /\ p \in Held /\ p.compacted = TRUE /\ p.usage = s.pending.usage /\ p.turn = s.pending.turn
        /\ p.start = s.pending.start
    BY <2>1 DEF Held
  <2>4. p # None
    BY <2>3, NoneAssumption
  <2> HIDE DEF p
  <2>5. Keeps(t, s, {"pending"}) /\ t.pending = p
    <3>1. "pending" \in Looked
      BY Fields
    <3> QED
      BY <1>2, <3>1, SetField
  <2> HIDE DEF t
  <2>6. /\ t.settled = s.settled /\ t.model = s.model /\ t.turn = s.turn /\ t.started = s.started
        /\ t.unmodelled = s.unmodelled /\ t.messages = s.messages /\ t.seen = s.seen
        /\ t.waiting = s.waiting /\ t.replaying = s.replaying /\ t.previous = s.previous
        /\ t.baseline = s.baseline /\ StateOK(t)
    BY <2>5, Fields DEF Keeps
  <2>7. Typed(t)
    BY <1>2, <2>1, <2>3, <2>4, <2>5, <2>6 DEF Typed
  <2>8. Context(lines, t)
    BY <1>2, <1>8, <2>6 DEF Context
  <2>9. Books(lines, t)
    <3>1. \A u : Tally(t, u) = Tally(s, u)
      BY <1>8, <2>3, <2>4, <2>5, <2>6 DEF Tally, Holds
    <3>2. \A u : \A T : Debt(t, u, T) = Debt(s, u, T)
      BY <1>8, <2>3, <2>4, <2>5, <2>6 DEF Debt, HoldsIn
    <3>3. Marks(t) = Marks(s) /\ Due(t) = Due(s)
      BY <2>6 DEF Marks, Due
    <3>4. Tallied(lines, t) /\ Expected(lines, t)
      BY <1>2, <3>1, <3>2 DEF Books, Tallied, Expected
    <3>5. Marked(lines, t)
      BY <1>2, <2>3, <2>4, <2>5, <2>6, <3>3 DEF Books, Marked
    <3> QED
      BY <3>4, <3>5 DEF Books
  <2>10. HoldingLatest(lines, t)
    BY <1>2, <1>8, <2>3, <2>5 DEF HoldingLatest
  <2>11. Follows(lines, t)
    BY <2>7, <2>8, <2>9, <2>10 DEF Follows
  <2>12. Follows(more, t)
    BY <1>1, <1>4, <1>5, <2>3, <2>5, <2>11, QuietFollows
  <2> QED
    BY <2>2, <2>12
<1> QED
  BY <1>6, <1>7, <1>8

\* A session that is a fork waits for its first turn.
LEMMA ForkStep ==
    ASSUME NEW lines, History(lines), NEW line, LineOK(line), Uniform(lines),
           Fork(lines, line), ~Waits(lines), NEW s, Follows(lines, s)
    PROVE  Follows(Append(lines, line), ParsedEntry(s, line))
<1> DEFINE more == Append(lines, line)
           a == [s EXCEPT !.waiting = TRUE]
           b == [a EXCEPT !.replaying = FALSE]
           t == [b EXCEPT !.baseline = 0]
<1>1. /\ line.kind = "fork" /\ line.own /\ line.id = None /\ line.fault = None
      /\ Quiet(lines, line) /\ lines = <<>>
  BY DEF Fork, Simple, Quiet
<1>2. Typed(s) /\ StateOK(s) /\ Context(lines, s) /\ Books(lines, s)
  BY DEF Follows, Typed
<1>3. ParsedEntry(s, line) = t
  <2>1. Closed(s, line) = s /\ ~Undecided(s, line)
    BY <1>1 DEF Closed, ClosesPending, Undecided
  <2>2. ParsedEntry(s, line) = [s EXCEPT !.waiting = TRUE, !.replaying = FALSE, !.baseline = 0]
    BY <1>1, <2>1 DEF ParsedEntry
  <2> QED
    BY <2>2
<1>4. {"waiting", "replaying", "baseline"} \subseteq Looked
  BY Fields
<1>5. Keeps(a, s, {"waiting"}) /\ a.waiting = TRUE
  BY <1>2, <1>4, SetField
<1> HIDE DEF a
<1>6. Keeps(b, a, {"replaying"}) /\ b.replaying = FALSE
  <2>1. StateOK(a)
    BY <1>5 DEF Keeps
  <2> QED
    BY <1>4, <2>1, SetField
<1> HIDE DEF b
<1>7. Keeps(t, b, {"baseline"}) /\ t.baseline = 0
  <2>1. StateOK(b)
    BY <1>6 DEF Keeps
  <2> QED
    BY <1>4, <2>1, SetField
<1> HIDE DEF t
<1>8. Keeps(t, s, {"waiting", "replaying", "baseline"}) /\ t.waiting = TRUE
  BY <1>5, <1>6, <1>7, Fields DEF Keeps
<1>9. /\ Typed(t) /\ t.pending = s.pending /\ t.settled = s.settled
      /\ \A x : Books(x, t) <=> Books(x, s)
  <2>1. {"waiting", "replaying", "baseline"} \in SUBSET Elsewhere
    BY DEF Elsewhere
  <2> QED
    BY <1>2, <1>8, <2>1, MovedBooks
<1>10. t.seen = s.seen /\ t.previous = s.previous
  BY <1>8, Fields DEF Keeps
<1>11. Books(more, t)
  BY <1>1, <1>2, <1>9, QuietBooks
<1>12. /\ Recorded(more) = Recorded(lines) /\ Told(more) = Told(lines)
       /\ Total(more) = Total(lines)
  BY <1>1, QuietMore
<1>13. Recorded(lines) = {} /\ Told(lines) = {} /\ Total(lines) = 0
  <2>1. DOMAIN lines = {}
    BY <1>1, NoSeq, SeqLength
  <2>2. \A kind : Of(lines, kind) = {}
    BY <2>1 DEF Of
  <2> QED
    BY <2>2 DEF Recorded, Told, OwnCounts, History, IsTotal
<1>14. Waits(more) /\ TurnOf(more) = 0
  BY WaitsMore DEF Sort, Quiet, Waits
<1>15. Of(more, "parent") = {}
  <2>1. IsSeq(lines)
    BY <1>1, NoSeq
  <2>2. Of(more, "parent") = Of(lines, "parent") \cup Adds(lines, line.kind = "parent")
    BY <2>1, OfMore
  <2> HIDE DEF more
  <2>3. DOMAIN lines = {}
    BY <1>1, NoSeq, SeqLength
  <2>4. Of(lines, "parent") = {}
    BY <2>3 DEF Of
  <2>5. Adds(lines, line.kind = "parent") = {}
    BY <1>1 DEF Adds
  <2> QED
    BY <2>2, <2>4, <2>5
<1> HIDE DEF more
<1>16. s.pending = None /\ s.settled = <<>> /\ s.seen = {} /\ s.previous = 0
  BY <1>2, <1>13 DEF Context
<1>17. Context(more, t)
  BY <1>7, <1>8, <1>9, <1>10, <1>12, <1>13, <1>14, <1>15, <1>16 DEF Context
<1>18. HoldingLatest(more, t)
  BY <1>9, <1>16 DEF HoldingLatest
<1> QED
  BY <1>3, <1>9, <1>11, <1>17, <1>18 DEF Follows, more

\* A new turn settles what is held back, and its model is that of what waits for one.
LEMMA TurnStep ==
    ASSUME NEW lines, History(lines), NEW line, LineOK(line), Uniform(lines),
           NewTurn(lines, line), NEW s, Typed(s), Books(lines, s), HoldingLatest(lines, s),
           s.seen = Recorded(lines), s.previous = Total(lines),
           s.baseline = IF Told(lines) = {} THEN Total(lines) ELSE 0,
           Recorded(lines) = {} => s.pending = None /\ s.settled = <<>>
    PROVE  ~s.waiting => Follows(Append(lines, line), ParsedEntry(s, line))
<1> DEFINE more == Append(lines, line)
           a == Settled(s)
           b == [a EXCEPT !.turn = line.turn]
           m == Modelled(b, line.model)
           t == [m EXCEPT !.model = line.model]
<1>1. /\ line.kind = "turn" /\ line.own /\ line.id = None /\ line.fault = None
      /\ line.turn = TurnOf(lines) + 1 /\ line.model \in STRING /\ line.model # None
      /\ Quiet(lines, line) /\ TurnOf(lines) \in Nat
  BY TurnNat, NoneAssumption DEF NewTurn, Simple, Quiet, History
<1>2. Closed(s, line) = b
  <2>1. s.pending # None => s.pending.turn # line.turn
    BY <1>1 DEF HoldingLatest
  <2>2. (IF ClosesPending(s, line) THEN Settled(s) ELSE s) = a
    BY <1>1, <2>1 DEF ClosesPending, Settled
  <2> QED
    BY <1>1, <2>2 DEF Closed
<1>3. ParsedEntry(s, line) = t
  <2>1. ~Undecided(s, line)
    BY <1>1 DEF Undecided
  <2> QED
    BY <1>1, <1>2, <2>1 DEF ParsedEntry
<1>4. /\ Typed(a) /\ Books(lines, a) /\ a.pending = None
      /\ a.waiting = s.waiting /\ a.seen = s.seen /\ a.previous = s.previous
      /\ a.baseline = s.baseline /\ StateOK(a)
      /\ Recorded(lines) = {} => a.settled = <<>>
  <2>1. Typed(a) /\ Books(lines, a) /\ a.pending = None
    BY SettledKeeps
  <2>2. CASE s.pending = None
    BY <2>1, <2>2 DEF Settled, Typed
  <2>3. CASE s.pending # None
    <3>1. Keeps(a, s, {"pending", "started", "messages", "settled"})
      BY <2>3, SettledEffect DEF Typed
    <3> HIDE DEF a
    <3> QED
      BY <2>1, <2>3, <3>1, Fields DEF Keeps, Typed
  <2> QED
    BY <2>2, <2>3
<1> HIDE DEF a
<1>5. Books(more, a)
  BY <1>1, <1>4, QuietBooks
<1>6. Keeps(b, a, {"turn"}) /\ b.turn = line.turn
  <2>1. "turn" \in Looked
    BY Fields
  <2>2. StateOK(a)
    BY <1>4
  <2> QED
    BY <2>1, <2>2, SetField
<1> HIDE DEF b
<1>7. Typed(b) /\ Books(more, b) /\ b.pending = None /\ b.settled = a.settled
  <2>1. {"turn"} \in SUBSET Elsewhere
    BY DEF Elsewhere
  <2>2. Typed(b) /\ (Books(more, b) <=> Books(more, a)) /\ b.pending = a.pending /\ b.settled = a.settled
    BY <1>4, <1>6, <2>1, MovedBooks
  <2> QED
    BY <1>4, <1>5, <2>2
<1>8. /\ Typed(m) /\ Books(more, m) /\ Keeps(m, b, {"model", "unmodelled", "messages"})
      /\ m.model = line.model /\ m.unmodelled = <<>>
  <2>1. Typed(m) /\ Books(more, m)
    BY <1>1, <1>7, ModelledKeeps
  <2>2. /\ Keeps(m, b, {"model", "unmodelled", "messages"})
        /\ m.model = line.model /\ m.unmodelled = <<>>
    BY <1>1, <1>7, ModelledCounts
  <2> QED
    BY <2>1, <2>2
<1> HIDE DEF m
<1>9. Keeps(t, m, {"model"}) /\ t.model = line.model
  <2>1. StateOK(m) /\ "model" \in Looked
    BY <1>8, Fields DEF Typed
  <2> QED
    BY <2>1, SetField
<1> HIDE DEF t
<1>10. /\ t.pending = None /\ t.settled = a.settled /\ t.started = m.started
       /\ t.unmodelled = <<>> /\ t.messages = m.messages /\ t.turn = line.turn
       /\ t.waiting = s.waiting /\ t.seen = Recorded(lines) /\ t.previous = Total(lines)
       /\ t.baseline = s.baseline /\ StateOK(t)
       /\ m.pending = None /\ m.settled = a.settled
  BY <1>4, <1>6, <1>7, <1>8, <1>9, Fields DEF Keeps
<1>11. Typed(t) /\ Books(more, t)
  <2>1. t.model \in STRING \cup {None}
    BY <1>1, <1>9
  <2> QED
    BY <1>8, <1>10, <2>1, SameBooks
<1>12. /\ Recorded(more) = Recorded(lines) /\ Told(more) = Told(lines)
       /\ Total(more) = Total(lines)
  BY <1>1, QuietMore
<1>13. ~Waits(more) /\ TurnOf(more) = TurnOf(lines) + 1
  <2>1. ~Waits(more)
    BY <1>1, WaitsMore DEF Sort
  <2>2. IsSeq(lines) /\ line.own \in BOOLEAN
    BY DEF History, LineOK, Line
  <2>3. TurnOf(more) = TurnOf(lines) + (IF line.kind = "turn" /\ line.own THEN 1 ELSE 0)
    BY <2>2, TurnMore
  <2> HIDE DEF more
  <2> QED
    BY <1>1, <2>1, <2>3
<1> HIDE DEF more
<1>14. ~s.waiting => Context(more, t)
  BY <1>1, <1>4, <1>9, <1>10, <1>12, <1>13 DEF Context
<1>15. HoldingLatest(more, t)
  BY <1>10 DEF HoldingLatest
<1> QED
  BY <1>3, <1>11, <1>14, <1>15 DEF Follows, more

\* The replay before the first turn leaves the total only.
LEMMA ReplayStep ==
    ASSUME NEW lines, History(lines), NEW line, LineOK(line), Uniform(lines),
           Foreign(lines, line), Waits(lines), NEW s, Follows(lines, s)
    PROVE  /\ ~StartsOwn(s, line) /\ Follows(Append(lines, line), Replayed(s, line))
           /\ line.kind \notin {"blank", "malformed", "odd"}
<1> DEFINE more == Append(lines, line)
           t == Replayed(s, line)
<1>1. /\ ~line.own /\ line.id = None /\ line.fault = None /\ Quiet(lines, line)
      /\ line.kind \in {"count", "parent", "human", "record", "turn"}
      /\ line.kind = "turn" => Of(lines, "parent") # {}
      /\ line.kind = "count" => line.total = 2
  BY DEF Foreign, Quiet
<1>2. Typed(s) /\ StateOK(s) /\ Context(lines, s) /\ Books(lines, s)
  BY DEF Follows, Typed
<1>3. ~StartsOwn(s, line)
  BY <1>1, <1>2 DEF StartsOwn, Context
<1>4. /\ Keeps(t, s, {"replaying", "previous", "baseline"})
      /\ t.replaying = IF line.kind = "parent" THEN TRUE ELSE s.replaying
      /\ t.previous = IF line.kind = "count" THEN 2 ELSE s.previous
      /\ t.baseline = IF line.kind = "count" THEN 2 ELSE s.baseline
  <2>1. {"replaying", "previous", "baseline"} \subseteq Looked
    BY Fields
  <2>2. CASE line.kind = "parent"
    <3> DEFINE a == [s EXCEPT !.replaying = TRUE]
    <3>1. t = a
      BY <2>2 DEF Replayed
    <3>2. Keeps(a, s, {"replaying"}) /\ a.replaying = TRUE
      BY <1>2, <2>1, SetField
    <3> HIDE DEF t, a
    <3> QED
      BY <2>2, <3>1, <3>2, Fields DEF Keeps
  <2>3. CASE line.kind = "count"
    <3> DEFINE a == [s EXCEPT !.previous = 2]
               b == [a EXCEPT !.baseline = 2]
    <3>1. t = b
      BY <1>1, <2>3, NoneAssumption DEF Replayed
    <3>2. Keeps(a, s, {"previous"}) /\ a.previous = 2
      BY <1>2, <2>1, SetField
    <3> HIDE DEF t, a
    <3>3. Keeps(b, a, {"baseline"}) /\ b.baseline = 2
      <4>1. StateOK(a)
        BY <3>2 DEF Keeps
      <4> QED
        BY <2>1, <4>1, SetField
    <3> HIDE DEF b
    <3> QED
      BY <2>3, <3>1, <3>2, <3>3, Fields DEF Keeps
  <2>4. CASE line.kind \notin {"parent", "count"}
    <3>1. t = s
      BY <2>4 DEF Replayed
    <3> QED
      BY <1>2, <2>4, <3>1 DEF Keeps
  <2> QED
    BY <2>2, <2>3, <2>4
<1> HIDE DEF t
<1>5. /\ Typed(t) /\ t.pending = s.pending /\ t.settled = s.settled
      /\ t.model = s.model /\ t.unmodelled = s.unmodelled
      /\ \A x : Books(x, t) <=> Books(x, s)
  <2>1. {"replaying", "previous", "baseline"} \in SUBSET Elsewhere
    BY DEF Elsewhere
  <2> QED
    BY <1>2, <1>4, <2>1, MovedBooks
<1>6. t.waiting = s.waiting /\ t.seen = s.seen /\ t.turn = s.turn
  BY <1>4, Fields DEF Keeps
<1>7. Books(more, t)
  <2>1. Books(more, s)
    BY <1>1, <1>2, QuietBooks
  <2> QED
    BY <1>5, <2>1
<1>8. /\ Recorded(more) = Recorded(lines) /\ Told(more) = Told(lines)
      /\ Total(more) = IF line.kind = "count" THEN 2 ELSE Total(lines)
  BY <1>1, QuietMore
<1>9. Recorded(lines) = {} /\ Told(lines) = {}
  BY RecordedIn DEF History, Origin
<1>10. Waits(more) /\ TurnOf(more) = 0
  <2>1. Waits(more)
    BY <1>1, WaitsMore DEF Sort
  <2> QED
    BY <2>1 DEF Waits
<1>11. Of(more, "parent") = Of(lines, "parent") \cup Adds(lines, line.kind = "parent")
  BY OfMore DEF History
<1> HIDE DEF more
<1>12. s.pending = None /\ s.settled = <<>>
  BY <1>2, <1>9 DEF Context
<1>13. Context(more, t)
  BY <1>2, <1>4, <1>5, <1>6, <1>8, <1>9, <1>10, <1>11, <1>12 DEF Context, Adds
<1>14. HoldingLatest(more, t)
  BY <1>5, <1>12 DEF HoldingLatest
<1>15. Follows(more, t)
  BY <1>5, <1>7, <1>13, <1>14 DEF Follows
<1> QED
  BY <1>1, <1>3, <1>15 DEF t, more

\* A turn ends the replay of a parent.
LEMMA FirstTurnStep ==
    ASSUME NEW lines, History(lines), NEW line, LineOK(line), Uniform(lines),
           NewTurn(lines, line), Waits(lines), NEW s, Follows(lines, s)
    PROVE  LET t == ParsedEntry([s EXCEPT !.waiting = FALSE, !.replaying = FALSE], line)
           IN  StartsOwn(s, line) /\ Follows(Append(lines, line), t)
<1> DEFINE a == [s EXCEPT !.waiting = FALSE]
           b == [a EXCEPT !.replaying = FALSE]
<1>1. Typed(s) /\ StateOK(s) /\ Context(lines, s) /\ Books(lines, s) /\ HoldingLatest(lines, s)
  BY DEF Follows, Typed
<1>2. "waiting" \in Looked /\ "replaying" \in Looked
  BY Fields
<1>3. StartsOwn(s, line)
  BY DEF NewTurn, Simple, StartsOwn
<1>4. [s EXCEPT !.waiting = FALSE, !.replaying = FALSE] = b
  OBVIOUS
<1>5. Keeps(a, s, {"waiting"}) /\ a.waiting = FALSE
  BY <1>1, <1>2, SetField
<1> HIDE DEF a
<1>6. Keeps(b, a, {"replaying"})
  <2>1. StateOK(a)
    BY <1>5 DEF Keeps
  <2> QED
    BY <1>2, <2>1, SetField
<1> HIDE DEF b
<1>7. Keeps(b, s, {"waiting", "replaying"}) /\ ~b.waiting
  BY <1>5, <1>6, Fields DEF Keeps
<1>8. /\ Typed(b) /\ b.pending = s.pending /\ b.settled = s.settled
      /\ \A x : (Books(x, b) <=> Books(x, s)) /\ (HoldingLatest(x, b) <=> HoldingLatest(x, s))
  <2>1. {"waiting", "replaying"} \in SUBSET Elsewhere
    BY DEF Elsewhere
  <2> QED
    BY <1>1, <1>7, <2>1, MovedBooks
<1>9. b.seen = s.seen /\ b.previous = s.previous /\ b.baseline = s.baseline
  BY <1>7, Fields DEF Keeps
<1>10. /\ b.seen = Recorded(lines) /\ b.previous = Total(lines)
       /\ b.baseline = IF Told(lines) = {} THEN Total(lines) ELSE 0
       /\ Recorded(lines) = {} => b.pending = None /\ b.settled = <<>>
  BY <1>1, <1>8, <1>9 DEF Context
<1>11. Books(lines, b) /\ HoldingLatest(lines, b)
  BY <1>1, <1>8
<1>12. Follows(Append(lines, line), ParsedEntry(b, line))
  BY <1>7, <1>8, <1>10, <1>11, TurnStep
<1> QED
  BY <1>3, <1>4, <1>12

\* One line takes the parser from what a session has written to what it has then,
\* or interrupts it.
LEMMA LineStep ==
    ASSUME NEW lines, History(lines), Uniform(lines), NEW line \in Written(lines),
           ~Misleads(Append(lines, line)), NEW s, StateOK(s), s.interrupted \/ Follows(lines, s)
    PROVE  LET t == ParsedLine(s, line)
           IN  t.interrupted \/ Follows(Append(lines, line), t)
<1> DEFINE more == Append(lines, line)
           t == ParsedLine(s, line)
<1> SUFFICES t.interrupted \/ Follows(more, t)
  OBVIOUS
<1>1. LineOK(line) /\ Sort(lines, line) /\ (Waits(lines) => Foreign(lines, line) \/ NewTurn(lines, line))
  BY SortsOf
<1>2. CASE s.interrupted
  BY <1>2, LineState
<1>3. ~Misread(lines, line)
  BY Misleading DEF History
<1>4. /\ line.kind \notin {"malformed", "blank"}
      /\ line.kind \notin {"odd", "record", "count"} => line.fault = None
  BY <1>1 DEF Sort, Quiet, Foreign, NewTurn, Simple, Fork, OldRecord, Again, Broken,
              NewRecord, Reports, Unrecorded, NewCount
<1>5. Unreadable(s, line) => line.kind = "odd" \/ (s.waiting /\ line.kind = "compacted")
  BY <1>4, NoneAssumption DEF Unreadable, Bare
<1>6. CASE ~s.interrupted /\ Waits(lines)
  <2>1. Follows(lines, s) /\ s.waiting
    BY <1>6 DEF Follows, Context
  <2>2. CASE Foreign(lines, line)
    <3>1. /\ ~StartsOwn(s, line) /\ Follows(more, Replayed(s, line))
          /\ line.kind \notin {"blank", "malformed", "odd"}
      BY <1>1, <1>6, <2>1, <2>2, ReplayStep
    <3>2. line.kind # "compacted"
      BY <2>2 DEF Foreign
    <3>3. t = Replayed(s, line)
      BY <1>6, <1>5, <2>1, <3>1, <3>2 DEF ParsedLine
    <3> QED
      BY <3>1, <3>3
  <2>3. CASE NewTurn(lines, line)
    <3> DEFINE b == [s EXCEPT !.waiting = FALSE, !.replaying = FALSE]
    <3>1. StartsOwn(s, line) /\ Follows(more, ParsedEntry(b, line))
      BY <1>1, <1>6, <2>1, <2>3, FirstTurnStep
    <3>2. line.kind = "turn"
      BY <2>3 DEF NewTurn, Simple
    <3>3. t = ParsedEntry(b, line)
      BY <1>6, <1>5, <2>1, <3>1, <3>2 DEF ParsedLine
    <3> QED
      BY <3>1, <3>3
  <2> QED
    BY <1>1, <1>6, <2>2, <2>3
<1>7. CASE ~s.interrupted /\ ~Waits(lines)
  <2>1. Follows(lines, s) /\ ~s.waiting /\ Typed(s) /\ Context(lines, s) /\ Books(lines, s)
        /\ HoldingLatest(lines, s)
    BY <1>7 DEF Follows, Context
  <2>2. /\ line.kind \in {"human", "end", "compacted", "fork", "turn"} => t = ParsedEntry(s, line)
        /\ line.kind = "record" => t = ParsedRecord(s, line)
        /\ line.kind = "count" => t = ParsedCount(s, line)
        /\ line.kind = "odd" => t = Interrupted(s) \/ t = Rejected(s)
    BY <1>7, <1>5, <2>1 DEF ParsedLine
  <2>3. CASE Foreign(lines, line)
    <3>1. line.kind = "count" /\ Follows(more, ParsedCount(s, line))
      BY <1>1, <1>7, <1>3, <2>1, <2>3, RepeatStep
    <3> QED
      BY <2>2, <3>1
  <2>4. CASE NewTurn(lines, line)
    <3>1. /\ s.seen = Recorded(lines) /\ s.previous = Total(lines)
          /\ s.baseline = IF Told(lines) = {} THEN Total(lines) ELSE 0
          /\ Recorded(lines) = {} => s.pending = None /\ s.settled = <<>>
      BY <2>1 DEF Context
    <3>2. Follows(more, ParsedEntry(s, line))
      BY <1>1, <2>1, <2>4, <3>1, TurnStep
    <3>3. line.kind = "turn"
      BY <2>4 DEF NewTurn, Simple
    <3> QED
      BY <2>2, <3>2, <3>3
  <2>5. CASE Simple(lines, line, "human")
    <3>1. ParsedEntry(s, line).interrupted \/ Follows(more, ParsedEntry(s, line))
      BY <1>1, <1>7, <2>1, <2>5, HumanStep
    <3> QED
      BY <2>2, <2>5, <3>1 DEF Simple
  <2>6. CASE Simple(lines, line, "end") /\ line.turn \in {None, TurnOf(lines)}
    <3>1. ParsedEntry(s, line).interrupted \/ Follows(more, ParsedEntry(s, line))
      BY <1>1, <1>7, <2>1, <2>6, EndStep
    <3> QED
      BY <2>2, <2>6, <3>1 DEF Simple
  <2>7. CASE Simple(lines, line, "compacted")
    <3>1. ParsedEntry(s, line).interrupted \/ Follows(more, ParsedEntry(s, line))
      BY <1>1, <1>7, <2>1, <2>7, CompactedStep
    <3> QED
      BY <2>2, <2>7, <3>1 DEF Simple
  <2>8. CASE Fork(lines, line)
    <3>1. Follows(more, ParsedEntry(s, line))
      BY <1>1, <1>7, <2>1, <2>8, ForkStep
    <3> QED
      BY <2>2, <2>8, <3>1 DEF Fork, Simple
  <2>9. CASE Again(lines, line)
    <3>1. line.kind = "count" /\ Follows(more, ParsedCount(s, line))
      BY <1>1, <1>7, <1>3, <2>1, <2>9, RepeatStep
    <3> QED
      BY <2>2, <3>1
  <2>10. CASE Broken(lines, line) \/ OldRecord(lines, line)
    <3>1. /\ Follows(more, s) /\ Follows(more, Rejected(s))
          /\ line.kind = "count" => ParsedCount(s, line) = Rejected(s)
          /\ line.kind = "record" => ParsedRecord(s, line) \in {s, Rejected(s)}
      BY <1>1, <1>7, <2>1, <2>10, BrokenStep
    <3>2. Interrupted(s).interrupted
      BY RejectedEffect
    <3>3. line.kind \in {"odd", "count", "record"}
      BY <2>10 DEF Broken, OldRecord
    <3>4. t \in {s, Rejected(s), Interrupted(s)}
      BY <2>2, <3>1, <3>3
    <3> HIDE DEF t, more
    <3> QED
      BY <3>1, <3>2, <3>4
  <2>11. CASE NewRecord(lines, line)
    <3>1. Follows(more, ParsedRecord(s, line))
      BY <1>1, <2>1, <2>11, RecordStep
    <3> QED
      BY <2>2, <2>11, <3>1 DEF NewRecord
  <2>12. CASE Reports(lines, line)
    <3>1. Follows(more, ParsedCount(s, line))
      BY <1>1, <2>1, <2>12, ReportStep
    <3> QED
      BY <2>2, <2>12, <3>1 DEF Reports, NewCount
  <2>13. CASE Unrecorded(lines, line)
    <3>1. Follows(more, ParsedCount(s, line))
      BY <1>1, <2>1, <2>13, AloneStep
    <3> QED
      BY <2>2, <2>13, <3>1 DEF Unrecorded, NewCount
  <2> QED
    BY <1>1, <2>3, <2>4, <2>5, <2>6, <2>7, <2>8, <2>9, <2>10, <2>11, <2>12, <2>13 DEF Sort, Quiet
<1> HIDE DEF t, more
<1> QED
  BY <1>2, <1>6, <1>7

\* An empty file.
LEMMA FollowsStart == Uniform(<<>>) /\ Follows(<<>>, StartState)
<1> DEFINE s == StartState
<1>1. /\ Told(<<>>) = {} /\ Recorded(<<>>) = {} /\ Responses(<<>>) = {} /\ ~Forked(<<>>)
      /\ \A kind : Of(<<>>, kind) = {} /\ Counted(<<>>) = {}
  BY DEF Told, Recorded, Responses, Forked, Of, OwnCounts, Own, Counted
<1>2. /\ s.model = None /\ s.previous = 0 /\ s.started = FALSE /\ s.pending = None
      /\ s.settled = <<>> /\ s.seen = {} /\ s.waiting = FALSE /\ s.replaying = FALSE
      /\ s.baseline = 0 /\ s.messages = <<>> /\ s.unmodelled = <<>>
  BY DEF StartState
<1>3. Typed(s)
  BY <1>2, StartOK, EmptySeq DEF Typed
<1>4. TurnOf(<<>>) = 0 /\ Total(<<>>) = 0 /\ Latest(<<>>) = 0
  <2>1. Of(<<>>, "turn") \cap Own(<<>>) = {}
    BY <1>1
  <2>2. TurnOf(<<>>) = 0 /\ Latest(<<>>) = 0
    BY <1>1, <2>1, FS_EmptySet DEF TurnOf, Latest
  <2>3. IsTotal(<<>>, Total(<<>>))
    BY HistoryStart DEF History
  <2> QED
    BY <1>1, <2>2, <2>3 DEF IsTotal
<1> HIDE DEF s
<1>5. Context(<<>>, s)
  BY <1>1, <1>2, <1>4 DEF Context, Waits
<1>6. Books(<<>>, s)
  <2>1. \A S : Number(<<>>, S) = 0
    BY NumberNone
  <2>2. /\ \A u : Tally(s, u) = 0 /\ \A T : Debt(s, u, T) = 0
        /\ Marks(s) = 0 /\ Due(s) = 0
    BY <1>2, <2>1 DEF Tally, Debt, Marks, Due, Holds, HoldsIn
  <2>3. /\ \A u : With(<<>>, u) = {} /\ \A T : Awaited(<<>>, u, T) = {}
        /\ Humans(<<>>) = {}
    BY <1>1 DEF With, Awaited, Humans, OwnOf
  <2>4. Cardinality({}) = 0
    BY FS_EmptySet
  <2>5. Tallied(<<>>, s)
    BY <2>2, <2>3, <2>4 DEF Tallied
  <2>6. Expected(<<>>, s)
    <3>1. ASSUME NEW u, NEW T
          PROVE  Debt(s, u, T) >= Cardinality(Awaited(<<>>, u, T))
      <4>1. Debt(s, u, T) = 0
        BY <2>2
      <4>2. Awaited(<<>>, u, T) = {}
        BY <2>3
      <4> QED
        BY <4>1, <4>2, <2>4
    <3> QED
      BY <3>1 DEF Expected
  <2>7. Marked(<<>>, s)
    BY <1>1, <2>2, <2>3, <2>4 DEF Marked
  <2> QED
    BY <2>5, <2>6, <2>7 DEF Books
<1>7. HoldingLatest(<<>>, s)
  BY <1>2 DEF HoldingLatest
<1> QED
  BY <1>1, <1>3, <1>5, <1>6, <1>7 DEF Follows, Uniform, s

\* What is true of every prefix of a session is true of the session.
LEMMA SessionHolds ==
    ASSUME NEW lines, IsSeq(lines), IsSession(lines), ~Misleads(lines)
    PROVE  /\ History(lines)
           /\ ParsedLines(lines).interrupted \/ Follows(lines, ParsedLines(lines))
<1> DEFINE Upto(n) == SubSeq(lines, 1, n)
           Good(x) == /\ History(x) /\ Uniform(x) /\ StateOK(ParsedLines(x))
                      /\ \/ ParsedLines(x).interrupted \/ Misleads(x)
                         \/ Follows(x, ParsedLines(x))
           T == {n \in Nat : n <= Len(lines) => Good(Upto(n))}
<1>1. Len(lines) \in Nat /\ DOMAIN lines = 1 .. Len(lines)
  BY SeqLength
<1>2. 0 \in T
  <2>1. Upto(0) = <<>>
    BY DEF IsSeq
  <2>2. StateOK(ParsedLines(<<>>)) /\ ParsedLines(<<>>) = StartState
    BY ParseNothing, StartOK
  <2> QED
    BY <2>1, <2>2, HistoryStart, FollowsStart
<1>3. ASSUME NEW n \in Nat, n \in T
      PROVE  n + 1 \in T
  <2> SUFFICES ASSUME n + 1 <= Len(lines)
               PROVE  Good(Upto(n + 1))
    BY <1>3
  <2> DEFINE x == Upto(n)
             line == lines[n + 1]
             s == ParsedLines(x)
  <2>1. n + 1 \in DOMAIN lines
    BY <1>1
  <2>2. line \in Written(x)
    <3>1. lines[n + 1] \in Written(SubSeq(lines, 1, (n + 1) - 1))
      BY <2>1 DEF IsSession
    <3>2. (n + 1) - 1 = n
      OBVIOUS
    <3> QED
      BY <3>1, <3>2
  <2>3. Upto(n + 1) = Append(x, line)
    <3>1. PICK S : lines \in Seq(S)
      BY DEF IsSeq
    <3> QED
      BY <1>1, <2>1, <3>1
  <2>4. Good(x)
    BY <1>1, <1>3
  <2> HIDE DEF Upto
  <2>5. IsSeq(x)
    BY <2>4 DEF History
  <2>6. ParsedLines(Append(x, line)) = ParsedLine(s, line)
    BY <2>5, ParseNext
  <2> HIDE DEF x, line
  <2>7. History(Append(x, line))
    BY <2>2, <2>4, HistoryMore
  <2>8. Uniform(Append(x, line))
    BY <2>2, <2>4, SortsOf, ScopesMore
  <2>9. StateOK(ParsedLine(s, line))
    BY <2>4, LineState
  <2>10. \/ ParsedLine(s, line).interrupted \/ Misleads(Append(x, line))
         \/ Follows(Append(x, line), ParsedLine(s, line))
    <3> SUFFICES ASSUME ~Misleads(Append(x, line))
                 PROVE  ParsedLine(s, line).interrupted \/ Follows(Append(x, line), ParsedLine(s, line))
      OBVIOUS
    <3>1. ~Misleads(x)
      BY <2>5, Misleading
    <3> QED
      BY <2>2, <2>4, <3>1, LineStep
  <2> QED
    BY <2>3, <2>6, <2>7, <2>8, <2>9, <2>10
<1> HIDE DEF T
<1>4. Nat \subseteq T
  BY <1>2, <1>3, Induction
<1> USE DEF T
<1>5. Good(Upto(Len(lines)))
  BY <1>1, <1>4
<1>6. Upto(Len(lines)) = lines
  <2>1. PICK S : lines \in Seq(S)
    BY DEF IsSeq
  <2> QED
    BY <1>1, <2>1
<1> QED
  BY <1>5, <1>6

\* What a parse that has not broken off has counted.
LEMMA SessionAgrees ==
    ASSUME NEW lines, IsSeq(lines), IsSession(lines), ~Misleads(lines),
           ~FullParse(lines).interrupted
    PROVE  /\ ResponsesAgree(lines, FullParse(lines).messages,
                             {id \in Responses(lines) : IsSettled(lines, id)})
           /\ InputsAgree(lines, FullParse(lines).messages)
<1> DEFINE s == ParsedLines(lines)
           messages == s.messages
           settled == {id \in Responses(lines) : IsSettled(lines, id)}
<1>1. FullParse(lines) = s /\ s.unmodelled = <<>> /\ ~s.interrupted
  <2>1. StateOK(s)
    BY ParseState
  <2>2. ~Ended(s).interrupted
    BY DEF FullParse
  <2>3. Ended(s) = s /\ s.unmodelled = <<>>
    BY <2>1, <2>2, EndedWell
  <2> QED
    BY <2>2, <2>3 DEF FullParse
<1>2. History(lines) /\ Follows(lines, s)
  BY <1>1, SessionHolds
<1> HIDE DEF s
<1>3. Typed(s) /\ Books(lines, s) /\ HoldingLatest(lines, s)
  BY <1>2 DEF Follows
<1>4. /\ \A n \in DOMAIN messages : messages[n] \in Messages
      /\ \A S : Number(messages, S) \in Nat /\ Number(s.unmodelled, S) = 0
  <2>1. messages \in Seq(Messages)
    BY <1>3 DEF Typed
  <2>2. IsSeq(messages)
    BY <2>1 DEF IsSeq
  <2>3. \A n \in DOMAIN messages : messages[n] \in Messages
    BY <2>1, ElementOfSeq, LenProperties
  <2>4. \A S : Number(messages, S) \in Nat
    BY <2>2, NumberNat
  <2>5. \A S : Number(s.unmodelled, S) = 0
    BY <1>1, NumberNone
  <2> QED
    BY <2>3, <2>4, <2>5
<1>5. Responses(lines) = 1 .. Latest(lines) /\ Latest(lines) \in Nat
      /\ IsFiniteSet(Responses(lines))
  BY <1>2, FS_Interval DEF History, Numbered
<1>6. ASSUME NEW u \in Usages
      PROVE  LET counted == Cardinality({n \in DOMAIN messages : messages[n].usage = u})
             IN  /\ counted <= Cardinality(With(lines, u))
                 /\ counted >= Cardinality(With(lines, u) \cap settled)
  <2> DEFINE counted == Cardinality({n \in DOMAIN messages : messages[n].usage = u})
             W == With(lines, u)
             C == W \cap settled
  <2>1. counted = Number(messages, Using(u))
    <3>1. {n \in DOMAIN messages : messages[n].usage = u}
             = {n \in DOMAIN messages : messages[n] \in Using(u)}
      BY <1>4 DEF Using
    <3> QED
      BY <3>1 DEF Number
  <2>2. counted \in Nat /\ counted + Holds(s, u) = Cardinality(W)
    BY <1>3, <1>4, <2>1 DEF Books, Tallied, Tally
  <2>3. IsFiniteSet(W) /\ C \subseteq W /\ Cardinality(W) \in Nat
    <3>1. W \subseteq Responses(lines)
      BY DEF With
    <3> QED
      BY <1>5, <3>1, FS_Subset, FS_CardinalityType
  <2> HIDE DEF counted, W, C
  <2>4. IsFiniteSet(C) /\ Cardinality(C) \in Nat /\ Cardinality(C) <= Cardinality(W)
    BY <2>3, FS_Subset, FS_CardinalityType
  <2>5. CASE Holds(s, u) = 0
    BY <2>2, <2>3, <2>4, <2>5 DEF counted, W, C
  <2>6. CASE Holds(s, u) # 0
    <3> DEFINE id == Latest(lines)
    <3>1. /\ Holds(s, u) = 1 /\ s.pending # None /\ s.pending.usage = u
      BY <2>6 DEF Holds
    <3>2. id \in Responses(lines) /\ UsageOf(lines, id) = u /\ ~IsSettled(lines, id)
      BY <1>2, <1>3, <3>1, RecordedIn DEF HoldingLatest
    <3>3. id \in W /\ id \notin C
      BY <3>2 DEF With, W, C
    <3>4. Cardinality(W \ {id}) = Cardinality(W) - 1 /\ IsFiniteSet(W \ {id})
      BY <2>3, <3>3, FS_RemoveElement
    <3>5. C \subseteq W \ {id}
      BY <2>3, <3>3
    <3>6. Cardinality(C) <= Cardinality(W \ {id})
      BY <3>4, <3>5, FS_Subset
    <3>7. counted <= Cardinality(W) /\ counted >= Cardinality(C)
      BY <2>2, <2>3, <2>4, <3>1, <3>4, <3>6
    <3> QED
      BY <3>7 DEF counted, W, C
  <2>7. Holds(s, u) = 0 \/ Holds(s, u) # 0
    OBVIOUS
  <2> QED
    BY <2>5, <2>6, <2>7
<1>7. ResponsesAgree(lines, messages, settled)
  <2>1. \A n \in DOMAIN messages : messages[n].usage \in Usages
    BY <1>4 DEF Messages
  <2> HIDE DEF messages, settled
  <2> QED
    BY <1>6, <2>1 DEF ResponsesAgree
<1>8. InputsAgree(lines, messages)
  <2> DEFINE marks == Cardinality({n \in DOMAIN messages : messages[n].start})
             inputs == Of(lines, "human") \cap Own(lines)
  <2>1. marks = Number(messages, Starting)
    <3>1. {n \in DOMAIN messages : messages[n].start}
             = {n \in DOMAIN messages : messages[n] \in Starting}
      BY <1>4 DEF Starting
    <3> QED
      BY <3>1 DEF Number
  <2>2. marks \in Nat /\ Marks(s) = marks /\ Due(s) \in 0 .. 1 /\ inputs = Humans(lines)
    BY <1>4, <2>1 DEF Marks, Due, Humans, OwnOf
  <2>3. Cardinality(inputs) \in Nat
    <3>1. IsFiniteSet(Of(lines, "human"))
      <4>1. IsSeq(Append(lines, 0)) /\ IsSeq(lines)
        BY SeqAppend
      <4> QED
        BY <4>1, OfMore
    <3> QED
      BY <3>1, FS_Intersection, FS_CardinalityType
  <2> HIDE DEF marks, inputs
  <2>4. marks <= Cardinality(inputs)
    BY <1>3, <2>2, <2>3 DEF Books, Marked
  <2>5. ASSUME NEW n \in inputs, NEW id \in Responses(lines),
               n < FirstOf(lines, id), IsSettled(lines, id)
        PROVE  marks > 0
    <3>1. SUFFICES ASSUME marks = 0 PROVE FALSE
      BY <2>2
    <3>2. s.pending # None /\ id = Latest(lines)
      BY <1>3, <2>2, <2>5, <3>1 DEF Books, Marked
    <3> QED
      BY <1>3, <2>5, <3>2 DEF HoldingLatest
  <2> QED
    BY <2>4, <2>5 DEF InputsAgree, marks, inputs
<1> QED
  BY <1>1, <1>7, <1>8

-----------------------------------------------------------------------------
(* Every file is a session.                                                  *)

\* A session goes on with a line that may be written, and so do its beginnings.
LEMMA SessionMore ==
    ASSUME NEW lines, IsSeq(lines), IsSession(lines), NEW line \in Written(lines)
    PROVE  IsSession(Append(lines, line))
<1> DEFINE more == Append(lines, line)
<1>1. PICK m \in Nat : m = Len(lines)
  BY SeqLength
<1>2. /\ IsSeq(more) /\ DOMAIN lines = 1 .. m /\ DOMAIN more = 1 .. m + 1
      /\ more[m + 1] = line /\ \A i \in 1 .. m : more[i] = lines[i]
  BY <1>1, LinesMore DEF Place
<1>3. /\ \A n \in 1 .. m + 1 : SubSeq(more, 1, n - 1) = SubSeq(lines, 1, n - 1)
      /\ SubSeq(lines, 1, m) = lines
  BY <1>1, PrefixesMore
<1> HIDE DEF more
<1>4. ASSUME NEW n \in 1 .. m + 1
      PROVE  more[n] \in Written(SubSeq(more, 1, n - 1))
  <2>1. CASE n \in 1 .. m
    BY <1>2, <1>3, <2>1 DEF IsSession
  <2>2. CASE n = m + 1
    <3>1. (m + 1) - 1 = m
      OBVIOUS
    <3>2. SubSeq(more, 1, n - 1) = lines
      BY <1>3, <2>2, <3>1
    <3> QED
      BY <1>2, <2>2, <3>2
  <2> QED
    BY <2>1, <2>2
<1> QED
  BY <1>2, <1>4 DEF IsSession, more

LEMMA SessionBegins ==
    ASSUME NEW d, IsSeq(d), IsSession(d), NEW k \in 0 .. Len(d)
    PROVE  IsSession(SubSeq(d, 1, k)) /\ IsSeq(SubSeq(d, 1, k))
<1> DEFINE x == SubSeq(d, 1, k)
<1>1. PICK S : d \in Seq(S)
  BY DEF IsSeq
<1>2. Len(d) \in Nat /\ DOMAIN d = 1 .. Len(d) /\ k \in Nat
  BY SeqLength
<1>3. \A i \in 1 .. k : d[i] \in S
  BY <1>1, <1>2, ElementOfSeq
<1>4. x \in Seq(S) /\ Len(x) = k /\ \A i \in 1 .. k : x[i] = d[i]
  BY <1>2, <1>3, SubSeqProperties
<1>5. DOMAIN x = 1 .. k
  BY <1>4, LenProperties
<1> HIDE DEF x
<1>6. ASSUME NEW n \in 1 .. k
      PROVE  x[n] \in Written(SubSeq(x, 1, n - 1))
  <2>1. PICK j \in Nat : j = n - 1 /\ j <= k
    OBVIOUS
  <2>2. \A i \in 1 .. j : d[i] \in S /\ x[i] = d[i]
    BY <1>3, <1>4, <2>1
  <2>3. /\ SubSeq(x, 1, j) \in Seq(S) /\ Len(SubSeq(x, 1, j)) = j
        /\ \A i \in 1 .. j : SubSeq(x, 1, j)[i] = x[i]
    BY <2>2, SubSeqProperties
  <2>4. /\ SubSeq(d, 1, j) \in Seq(S) /\ Len(SubSeq(d, 1, j)) = j
        /\ \A i \in 1 .. j : SubSeq(d, 1, j)[i] = d[i]
    BY <2>2, SubSeqProperties
  <2>5. SubSeq(x, 1, n - 1) = SubSeq(d, 1, n - 1)
    BY <2>1, <2>2, <2>3, <2>4, SeqEqual
  <2>6. n \in DOMAIN d
    BY <1>2
  <2> QED
    BY <1>4, <2>5, <2>6 DEF IsSession
<1> QED
  BY <1>4, <1>5, <1>6 DEF IsSession, IsSeq, x

\* Whatever has been under the path is a session.
Sessions == \A i \in Inodes : IsSession(disk[i].text.lines)

\* A change of a file leaves sessions.
LEMMA SessionsChange ==
    ASSUME WorldOK, Sessions, SessionsOnly, Change
    PROVE  Sessions'
<1>1. PICK S : FileOK(Seq(S))
  BY DEF WorldOK
<1>2. /\ Len(disk) \in Nat \ {0} /\ Inodes = 1 .. Len(disk) /\ path \in Inodes
      /\ \A i \in Inodes : IsSeq(disk[i].text.lines)
  BY Files
<1>3. IsSeq(disk) /\ DOMAIN disk = 1 .. Len(disk)
  BY <1>1, <1>2 DEF FileOK, IsSeq, Inodes
<1> DEFINE text == Current.text
<1>4. IsSeq(text.lines) /\ IsSession(text.lines) /\ text \in [lines : Seq(S), tail : Tails]
  BY <1>1, <1>2, FileTypes DEF Current, Sessions
<1>5. ASSUME NEW more, IsSession(more.lines), disk' = [disk EXCEPT ![path] = Changed(more)]
      PROVE  Sessions'
  <2>1. /\ DOMAIN disk' = DOMAIN disk
        /\ \A i \in DOMAIN disk : disk'[i] = IF i = path THEN Changed(more) ELSE disk[i]
    BY <1>3, <1>5
  <2>2. Changed(more).text = more
    BY DEF Changed
  <2> QED
    BY <1>5, <2>1, <2>2 DEF Sessions, Inodes
<1>6. CASE Write
  <2>1. CASE text.tail = "whole"
    <3> DEFINE put(l, u) ==
                 disk' = [disk EXCEPT ![path] = Changed([lines |-> Append(text.lines, l),
                                                         tail |-> u])]
    <3>1. \E l \in Written(text.lines) : \E u : put(l, u)
      BY <1>6, <2>1 DEF Write
    <3> HIDE DEF put
    <3>2. PICK line \in Written(text.lines) : \E u : put(line, u)
      BY <3>1
    <3>3. PICK t : put(line, t)
      BY <3>2
    <3> DEFINE more == [lines |-> Append(text.lines, line), tail |-> t]
    <3>4. disk' = [disk EXCEPT ![path] = Changed(more)]
      BY <3>3 DEF put
    <3>5. IsSession(Append(text.lines, line))
      BY <1>4, SessionMore
    <3>6. more.lines = Append(text.lines, line)
      OBVIOUS
    <3> HIDE DEF more, text
    <3> QED
      BY <1>5, <3>4, <3>5, <3>6
  <2>2. CASE text.tail # "whole"
    <3>1. PICK t : disk' = [disk EXCEPT ![path] = Changed([text EXCEPT !.tail = t])]
      BY <1>6, <2>2 DEF Write
    <3> DEFINE more == [text EXCEPT !.tail = t]
    <3>2. more.lines = text.lines
      BY <1>4
    <3>3. disk' = [disk EXCEPT ![path] = Changed(more)]
      BY <3>1
    <3> HIDE DEF more, text
    <3> QED
      BY <1>4, <1>5, <3>2, <3>3
  <2> QED
    BY <2>1, <2>2
<1>7. CASE RewriteFile
  <2>1. PICK l \in Beginnings :
          LET written == Changed([lines |-> l, tail |-> "whole"])
          IN  \/ disk' = [disk EXCEPT ![path] = written] /\ path' = path
              \/ disk' = Append(disk, written) /\ path' = Len(disk')
    BY <1>7 DEF RewriteFile
  <2> DEFINE more == [lines |-> l, tail |-> "whole"]
  <2>2. IsSession(more.lines)
    <3>1. PICK d \in Drafts : \E n \in 0 .. Len(d) : l = SubSeq(d, 1, n)
      BY DEF Beginnings
    <3>2. IsSeq(d) /\ IsSession(d)
      BY CodexAssumption DEF SessionsOnly, IsSeq
    <3>3. IsSession(l)
      BY <3>1, <3>2, SessionBegins
    <3> QED
      BY <3>3
  <2>3. \/ disk' = [disk EXCEPT ![path] = Changed(more)]
        \/ disk' = Append(disk, Changed(more))
    BY <2>1
  <2>4. Changed(more).text = more
    BY DEF Changed
  <2> DEFINE new == Changed(more)
  <2> HIDE DEF more
  <2>5. CASE disk' = Append(disk, Changed(more))
    <3> HIDE DEF new
    <3>1. disk' = Append(disk, new)
      BY <2>5 DEF new
    <3>2. /\ Len(disk') = Len(disk) + 1 /\ IsSeq(disk') /\ disk'[Len(disk) + 1] = new
          /\ \A i \in 1 .. Len(disk) : disk'[i] = disk[i]
      BY <1>3, <3>1, SeqAppend
    <3>3. DOMAIN disk' = 1 .. Len(disk) + 1
      BY <3>2, SeqLength
    <3> QED
      BY <1>2, <2>2, <2>4, <3>2, <3>3 DEF Sessions, Inodes, new
  <2> QED
    BY <1>5, <2>2, <2>3, <2>5
<1>8. CASE RestoreFile
  BY <1>8 DEF RestoreFile, Sessions, Inodes
<1> QED
  BY <1>6, <1>7, <1>8 DEF Change

\* In whatever order a session writes its records and its counts, a parse of it that
\* has not broken off counts each response at most once and every one that a later
\* line has settled, and marks one turn start for the human inputs at most each
\* (codex/decode.rs, ADR 0025), unless a repeated count cannot be told by its total
\* (Misleads): by the invariant that every file is a session, and by that of the
\* parser along the lines of one.  What replaces the file is a session, too.
THEOREM ResponsesAreCountedOnce ==
    SessionsOnly /\ Spec => []ResponsesCountOnce
<1> SUFFICES ASSUME SessionsOnly
             PROVE  Spec => []ResponsesCountOnce
  OBVIOUS
<1>1. Init => Sessions
  <2> SUFFICES ASSUME Init PROVE Sessions
    OBVIOUS
  <2>1. Inodes = {1} /\ disk[1].text.lines = <<>>
    BY DEF Init, FileInit, Inodes
  <2> QED
    BY <2>1 DEF Sessions, IsSession
<1>2. Inv /\ Sessions /\ [Next]_vars => Sessions'
  <2> SUFFICES ASSUME Inv, Sessions, [Next]_vars PROVE Sessions'
    OBVIOUS
  <2>1. CASE Change
    BY <2>1, SessionsChange DEF Inv
  <2>2. CASE UNCHANGED disk
    BY <2>2 DEF Sessions, Inodes
  <2>3. ASSUME NEW a \in setting.acquirers, AcquirerStep(a)
        PROVE  UNCHANGED disk
    BY <2>3 DEF AcquirerStep, Begin, Plan, Open, VerifyPrefix, ParseLine, Measure,
                TakeRecords, WriteShard, Unlink, World
  <2> QED
    BY <2>1, <2>2, <2>3 DEF Next, vars
<1>3. Inv /\ Sessions => ResponsesCountOnce
  <2> DEFINE lines == Current.text.lines
  <2> SUFFICES ASSUME Inv, Sessions, ~FullParse(lines).interrupted, ~Misleads(lines)
               PROVE  /\ ResponsesAgree(lines, FullParse(lines).messages,
                                        {id \in Responses(lines) : IsSettled(lines, id)})
                      /\ InputsAgree(lines, FullParse(lines).messages)
    BY DEF ResponsesCountOnce
  <2>1. IsSeq(lines) /\ IsSession(lines)
    BY Files DEF Inv, Sessions, Current
  <2> HIDE DEF lines
  <2> QED
    BY <2>1, SessionAgrees
<1> QED
  BY <1>1, <1>2, <1>3, Invariance, PTL DEF Spec
=============================================================================
