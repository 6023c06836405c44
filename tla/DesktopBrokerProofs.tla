------------------------- MODULE DesktopBrokerProofs --------------------------
(***************************************************************************)
(* PoolsExact for every number of buffers, every capacity of the channel    *)
(* and whatever packets the desktop service sends.                          *)
(*                                                                         *)
(* The books are strengthened by what the broker does before it returns:    *)
(* every release is read at once, no pool in use is retired, serials grow,  *)
(* and the new pool of a transition has shown nothing yet.                  *)
(***************************************************************************)
EXTENDS DesktopBroker, TLAPS

PoolOK(p) ==
    /\ p \in Pools /\ PoolExact(p)
    /\ p.release = None
    /\ p.pending # None => p.pending.serial < p.nextSerial
    /\ p.displayed # None => p.displayed.serial < p.nextSerial
    /\ p.pending # None /\ p.displayed # None => p.pending.serial # p.displayed.serial

Generations(w) ==
    IF w = None THEN {}
    ELSE {w.gen} \cup (IF w.transition # None THEN {w.transition.gen} ELSE {})

Books(k, w, ps) ==
    /\ k \in BOOLEAN /\ w \in Windows \cup {None}
    /\ ~k => w = None
    /\ DOMAIN ps = Generations(w)
    /\ w # None => PoolOK(ps[w.gen]) /\ Matched(w.submissions, ps[w.gen])
    /\ w # None /\ w.transition # None =>
          /\ w.transition.gen # w.gen
          /\ PoolOK(ps[w.transition.gen])
          /\ Matched(w.transition.submissions, ps[w.transition.gen])
          /\ ps[w.gen].displayed = None

-----------------------------------------------------------------------------
(* The operations on a pool                                                 *)

\* A new pool owes nothing.
LEMMA NewPoolOK == PoolOK(NewPool) /\ Matched({}, NewPool) /\ NewPool.displayed = None
<1>1. NewPool \in Pools
  BY DEF NewPool, Pools, BufferStates
<1>2. Protecting(NewPool) = {}
  BY DEF Protecting, NewPool
<1>3. PoolExact(NewPool)
  BY DEF PoolExact, NewPool
<1> QED
  BY <1>1, <1>2, <1>3, Zenon DEF PoolOK, Matched, NewPool

\* window_present keeps the pool exact and adds one presentation.
LEMMA SubmittedOK ==
    ASSUME NEW p, PoolOK(p), NEW b \in Buffers, PresentStatus(p, b) = "Ok"
    PROVE  LET q == Submitted(p, b)
           IN  /\ PoolOK(q)
               /\ q.displayed = p.displayed
               /\ q.pending = [buffer |-> b, serial |-> p.nextSerial]
               /\ p.pending = None
<1> DEFINE q == Submitted(p, b)
           new == [buffer |-> b, serial |-> p.nextSerial]
<1>1. p \in Pools /\ p.release = None /\ PoolExact(p)
  BY DEF PoolOK
<1>2. p.pending = None /\ p.buffers[b] = "ClientOwned"
  BY <1>1 DEF PresentStatus
<1>3. new \in Presentations /\ new # None
  BY <1>1, NoneAssumption DEF Pools, Presentations
<1>4. /\ q.buffers = [p.buffers EXCEPT ![b] = "Pending"]
      /\ q.pending = new /\ q.pendingRead = FALSE
      /\ q.nextSerial = p.nextSerial + 1
      /\ q.displayed = p.displayed /\ q.release = None /\ q.retired = p.retired
  BY <1>1 DEF Submitted, Pools
<1>5. q \in Pools
  <2>1. q.buffers \in [Buffers -> BufferStates]
    BY <1>1, <1>4 DEF Pools, BufferStates
  <2>2. q.nextSerial \in Nat \ {0}
    BY <1>1, <1>4 DEF Pools
  <2> QED
    BY <1>1, <1>3, <1>4, <2>1, <2>2, Zenon DEF Submitted, Pools
<1>6. PoolExact(q)
  BY <1>1, <1>2, <1>3, <1>4 DEF PoolExact, Pools
<1>7. q.displayed # None => q.displayed.serial \in Nat
  BY <1>1, <1>4 DEF Pools, Presentations
<1> QED
  BY <1>1, <1>2, <1>3, <1>4, <1>5, <1>6, <1>7 DEF PoolOK, Pools

\* window_manager_coalesce_pending followed by the reading of its release: the
\* replaced frame's buffer is the client's again.
LEMMA CoalescedOK ==
    ASSUME NEW p, PoolOK(p), NEW b \in Buffers, p.pending # None,
           CoalesceStatus(p, b) = "Ok"
    PROVE  LET c == Coalesced(p, b)
               q == ReleaseRead(c)
           IN  /\ PoolOK(q)
               /\ c.release = p.pending
               /\ c.pending = [buffer |-> b, serial |-> p.nextSerial]
               /\ q.pending = c.pending
               /\ q.displayed = p.displayed
<1> DEFINE c == Coalesced(p, b)
           q == ReleaseRead(c)
           old == p.pending.buffer
           new == [buffer |-> b, serial |-> p.nextSerial]
<1>1. p \in Pools /\ p.release = None /\ PoolExact(p)
  BY DEF PoolOK
<1>2. p.buffers[b] = "ClientOwned"
  BY <1>1 DEF CoalesceStatus
<1>3. new \in Presentations /\ new # None /\ old \in Buffers /\ old # b
  BY <1>1, <1>2, NoneAssumption DEF Pools, Presentations, PoolExact
<1>4. /\ c.buffers = [p.buffers EXCEPT ![old] = "Released", ![b] = "Pending"]
      /\ c.pending = new /\ c.nextSerial = p.nextSerial + 1
      /\ c.displayed = p.displayed /\ c.release = p.pending
  BY <1>1 DEF Coalesced, Pools
<1>5. c \in Pools
  <2>1. c.buffers \in [Buffers -> BufferStates]
    BY <1>1, <1>4 DEF Pools, BufferStates
  <2>2. c.nextSerial \in Nat \ {0}
    BY <1>1, <1>4 DEF Pools
  <2> QED
    BY <1>1, <1>3, <1>4, <2>1, <2>2, Zenon DEF Coalesced, Pools
<1> HIDE DEF c
<1>6. /\ q.buffers = [c.buffers EXCEPT ![old] = "ClientOwned"]
      /\ q.pending = c.pending /\ q.displayed = c.displayed /\ q.release = None
      /\ q.nextSerial = c.nextSerial
  BY <1>4, <1>5 DEF ReleaseRead, Pools
<1>7. /\ q.buffers \in [Buffers -> BufferStates]
      /\ \A a \in Buffers : q.buffers[a] = IF a = b THEN "Pending"
                                           ELSE IF a = old THEN "ClientOwned" ELSE p.buffers[a]
  BY <1>1, <1>3, <1>4, <1>6 DEF Pools, BufferStates
<1>8. /\ q.pending = new /\ q.displayed = p.displayed /\ q.release = None
      /\ q.nextSerial = p.nextSerial + 1
  BY <1>4, <1>6
<1>9. q \in Pools
  BY <1>4, <1>5, <1>7, Zenon DEF ReleaseRead, Pools
<1>10. PoolExact(q)
  <2> HIDE DEF q
  <2>1. \A a \in Buffers : p.buffers[a] = "Pending" <=> a = old
    BY <1>1 DEF PoolExact
  <2> QED
    BY <1>1, <1>2, <1>3, <1>7, <1>8, <2>1 DEF PoolExact
<1>11. /\ p.displayed # None => p.displayed.serial \in Nat /\ p.displayed.serial < p.nextSerial
       /\ p.nextSerial \in Nat
  BY <1>1 DEF Pools, Presentations, PoolOK
<1>12. c.release = p.pending /\ c.pending = new
  BY <1>4
<1> HIDE DEF q
<1>13. PoolOK(q)
  BY <1>3, <1>8, <1>9, <1>10, <1>11 DEF PoolOK
<1> QED
  BY <1>8, <1>12, <1>13 DEF c, q

\* window_manager_complete followed by the reading of its release: the pending
\* frame is displayed and the one before it is the client's again.
LEMMA CompletedOK ==
    ASSUME NEW p, PoolOK(p), p.pending # None
    PROVE  LET c == Completed(p)
               q == ReleaseRead(c)
           IN  /\ PoolOK(q)
               /\ c.release = p.displayed
               /\ q.pending = None
               /\ q.displayed = p.pending
               /\ p.displayed = None => q = c
<1> DEFINE c == Completed(p)
           q == ReleaseRead(c)
           new == p.pending.buffer
           old == p.displayed.buffer
<1>1. p \in Pools /\ p.release = None /\ PoolExact(p)
  BY DEF PoolOK
<1>2. new \in Buffers /\ p.buffers[new] = "Pending"
  BY <1>1 DEF Pools, Presentations, PoolExact
<1>3. \A a \in Buffers : p.buffers[a] = "Pending" <=> a = new
  BY <1>1 DEF PoolExact
<1>4. p.nextSerial \in Nat /\ p.pending.serial \in Nat
  BY <1>1 DEF Pools, Presentations
<1>5. CASE p.displayed = None
  <2>1. c = [buffers |-> [p.buffers EXCEPT ![new] = "Displayed"], pending |-> None,
             pendingRead |-> FALSE, displayed |-> p.pending, release |-> None,
             nextSerial |-> p.nextSerial, retired |-> p.retired]
    BY <1>1, <1>5, Zenon DEF Completed, Pools
  <2> HIDE DEF c
  <2>2. q = c
    BY <2>1 DEF ReleaseRead
  <2>3. c.buffers \in [Buffers -> BufferStates]
    BY <1>1, <1>2, <2>1 DEF Pools, BufferStates
  <2>4. c \in Pools
    BY <1>1, <2>1, <2>3 DEF Pools
  <2>5. PoolExact(c)
    BY <1>1, <1>2, <1>3, <1>5, <2>1 DEF PoolExact, Pools
  <2>6. /\ c.pending = None /\ c.displayed = p.pending /\ c.release = None
        /\ c.nextSerial = p.nextSerial
    BY <2>1
  <2>7. p.pending.serial < p.nextSerial
    BY DEF PoolOK
  <2>8. PoolOK(c)
    BY <2>4, <2>5, <2>6, <2>7 DEF PoolOK
  <2> QED
    BY <1>5, <2>2, <2>6, <2>8 DEF c
<1>6. CASE p.displayed # None
  <2>1. old \in Buffers /\ p.buffers[old] = "Displayed" /\ old # new
    BY <1>1, <1>2, <1>6 DEF Pools, Presentations, PoolExact
  <2>2. \A a \in Buffers : p.buffers[a] = "Displayed" <=> a = old
    BY <1>1, <1>6 DEF PoolExact
  <2>3. c = [buffers |-> [[p.buffers EXCEPT ![new] = "Displayed"] EXCEPT ![old] = "Released"],
             pending |-> None, pendingRead |-> FALSE, displayed |-> p.pending,
             release |-> p.displayed, nextSerial |-> p.nextSerial, retired |-> p.retired]
    BY <1>1, <1>6, Zenon DEF Completed, Pools
  <2> HIDE DEF c
  <2>4. q = [buffers |-> [c.buffers EXCEPT ![old] = "ClientOwned"], pending |-> None,
             pendingRead |-> FALSE, displayed |-> p.pending, release |-> None,
             nextSerial |-> p.nextSerial, retired |-> p.retired]
    BY <1>6, <2>3, Zenon DEF ReleaseRead
  <2>5. /\ q.buffers \in [Buffers -> BufferStates]
        /\ \A a \in Buffers : q.buffers[a] = IF a = old THEN "ClientOwned"
                                             ELSE IF a = new THEN "Displayed" ELSE p.buffers[a]
    BY <1>1, <1>2, <2>1, <2>3, <2>4 DEF Pools, BufferStates
  <2>6. /\ q.pending = None /\ q.displayed = p.pending /\ q.release = None
        /\ q.nextSerial = p.nextSerial
    BY <2>4
  <2>7. q \in Pools
    BY <1>1, <2>4, <2>5 DEF Pools
  <2>8. c.release = p.displayed
    BY <2>3
  <2> HIDE DEF q
  <2>9. PoolExact(q)
    BY <1>1, <1>2, <1>3, <2>1, <2>2, <2>5, <2>6 DEF PoolExact
  <2>10. PoolOK(q)
    BY <1>4, <2>6, <2>7, <2>9 DEF PoolOK
  <2> QED
    BY <1>6, <2>6, <2>8, <2>10 DEF c, q
<1> QED
  BY <1>5, <1>6

\* A copy that failed changes no ownership.
LEMMA ReadOK ==
    ASSUME NEW p, PoolOK(p)
    PROVE  LET q == [p EXCEPT !.pendingRead = TRUE]
           IN  /\ PoolOK(q) /\ q.displayed = p.displayed
               /\ Protecting(q) = Protecting(p)
<1> DEFINE q == [p EXCEPT !.pendingRead = TRUE]
<1>1. p \in Pools
  BY DEF PoolOK
<1>2. /\ q.buffers = p.buffers /\ q.pending = p.pending /\ q.displayed = p.displayed
      /\ q.release = p.release /\ q.nextSerial = p.nextSerial /\ q \in Pools
  BY <1>1, Zenon DEF Pools
<1> HIDE DEF q
<1>3. PoolOK(q) /\ q.displayed = p.displayed /\ Protecting(q) = Protecting(p)
  BY <1>2 DEF PoolOK, PoolExact, Protecting
<1> QED
  BY <1>3 DEF q

-----------------------------------------------------------------------------
(* The submissions of a pool                                                *)

\* take_pool_release finds the one submission of a presentation.
LEMMA WithSerialFacts ==
    ASSUME NEW p, NEW S, Matched(S, p), NEW q \in Protecting(p)
    PROVE  /\ WithSerial(S, q.serial) \in S
           /\ \A t \in S : t.serial = q.serial <=> t = WithSerial(S, q.serial)
<1>1. PICK s \in S : s.serial = q.serial
  BY DEF Matched
<1>2. WithSerial(S, q.serial) \in S /\ WithSerial(S, q.serial).serial = q.serial
  BY <1>1 DEF WithSerial
<1> QED
  BY <1>2 DEF Matched

\* Between calls a pool protects what it shows and what it is to show.
LEMMA ProtectingFacts ==
    ASSUME NEW p, PoolOK(p)
    PROVE  /\ \A q : q \in Protecting(p) <=> q # None /\ q \in {p.pending, p.displayed}
           /\ \A q \in Protecting(p) : q \in Presentations /\ q.serial < p.nextSerial
           /\ p.nextSerial \in Nat \ {0}
<1>1. p \in Pools /\ p.release = None
  BY DEF PoolOK
<1>2. \A q : q \in Protecting(p) <=> q # None /\ q \in {p.pending, p.displayed}
  BY <1>1 DEF Protecting
<1>3. \A q \in Protecting(p) : q \in Presentations
  BY <1>1, <1>2 DEF Pools
<1> QED
  BY <1>1, <1>2, <1>3 DEF PoolOK, Pools

\* The submission of a frame that was accepted.
LEMMA SubmittedMatched ==
    ASSUME NEW p, PoolOK(p), NEW b \in Buffers, PresentStatus(p, b) = "Ok",
           NEW S \in SUBSET Submissions, Matched(S, p), NEW r \in Nat
    PROVE  LET s == [serial |-> p.nextSerial, request |-> r, buffer |-> b]
           IN  s \in Submissions /\ Matched(S \cup {s}, Submitted(p, b))
<1> DEFINE s == [serial |-> p.nextSerial, request |-> r, buffer |-> b]
           q == Submitted(p, b)
           new == [buffer |-> b, serial |-> p.nextSerial]
<1>1. PoolOK(q) /\ q.displayed = p.displayed /\ q.pending = new /\ p.pending = None
  BY SubmittedOK, Zenon
<1>2. s \in Submissions
  BY ProtectingFacts DEF Submissions
<1>3. new # None
  BY ProtectingFacts, NoneAssumption DEF Presentations
<1>4. s.serial = new.serial /\ s.buffer = new.buffer /\ new.serial = p.nextSerial
  OBVIOUS
<1> HIDE DEF q, new, s
<1>5. \A x : x \in Protecting(q) <=> x \in Protecting(p) \/ x = new
  BY <1>1, <1>3, ProtectingFacts
<1>6. \A t \in S : t.serial \in Nat /\ t.serial < p.nextSerial
  BY ProtectingFacts DEF Matched, Presentations
<1>7. p.nextSerial \in Nat
  BY ProtectingFacts
<1>8. Matched(S \cup {s}, q)
  BY <1>4, <1>5, <1>6, <1>7 DEF Matched
<1> QED
  BY <1>2, <1>8 DEF s, q

\* The submissions after a pending frame was replaced.
LEMMA CoalescedMatched ==
    ASSUME NEW p, PoolOK(p), NEW b \in Buffers, p.pending # None,
           CoalesceStatus(p, b) = "Ok",
           NEW S \in SUBSET Submissions, Matched(S, p), NEW r \in Nat
    PROVE  LET s == [serial |-> p.nextSerial, request |-> r, buffer |-> b]
               c == Coalesced(p, b)
           IN  s \in Submissions /\ Matched(TakenFrom(S, c) \cup {s}, ReleaseRead(c))
<1> DEFINE s == [serial |-> p.nextSerial, request |-> r, buffer |-> b]
           c == Coalesced(p, b)
           q == ReleaseRead(c)
           new == [buffer |-> b, serial |-> p.nextSerial]
           gone == WithSerial(S, p.pending.serial)
<1>1. PoolOK(q) /\ q.displayed = p.displayed /\ q.pending = new /\ c.release = p.pending
  BY CoalescedOK, Zenon
<1>2. s \in Submissions
  BY ProtectingFacts DEF Submissions
<1>3. new # None
  BY ProtectingFacts, NoneAssumption DEF Presentations
<1>4. s.serial = new.serial /\ s.buffer = new.buffer /\ new.serial = p.nextSerial
  OBVIOUS
<1>5. TakenFrom(S, c) = S \ {gone}
  BY <1>1 DEF TakenFrom
<1> HIDE DEF q, new, s, c
<1>6. p.pending \in Protecting(p)
  BY ProtectingFacts
<1>7. gone \in S /\ \A t \in S : t.serial = p.pending.serial <=> t = gone
  BY <1>6, WithSerialFacts
<1> HIDE DEF gone
<1>8. \A x : x \in Protecting(q) <=> (x \in Protecting(p) /\ x = p.displayed) \/ x = new
  BY <1>1, <1>3, ProtectingFacts
<1>9. \A x \in Protecting(p) : x = p.pending \/ (x = p.displayed /\ x.serial # p.pending.serial)
  BY ProtectingFacts DEF PoolOK
<1>10. /\ \A t \in S : t.serial \in Nat /\ t.serial < p.nextSerial
       /\ p.nextSerial \in Nat
  BY ProtectingFacts DEF Matched, Presentations
<1>11. \A x \in Protecting(p) : x # p.displayed => x = p.pending
  BY <1>9
<1>12. p.displayed \in Protecting(p) => p.displayed.serial # p.pending.serial
  BY <1>6, ProtectingFacts DEF PoolOK
<1>13. Matched((S \ {gone}) \cup {s}, q)
  <2>1. \A x \in Protecting(q) : \E t \in (S \ {gone}) \cup {s} :
            t.serial = x.serial /\ t.buffer = x.buffer
    BY <1>4, <1>7, <1>8, <1>12 DEF Matched
  <2>2. \A t \in (S \ {gone}) \cup {s} : \E x \in Protecting(q) : x.serial = t.serial
    BY <1>4, <1>7, <1>8, <1>11 DEF Matched
  <2>3. \A t, u \in (S \ {gone}) \cup {s} : t.serial = u.serial => t = u
    BY <1>4, <1>10 DEF Matched
  <2> QED
    BY <2>1, <2>2, <2>3 DEF Matched
<1> QED
  BY <1>2, <1>5, <1>13 DEF s, q, c

\* The submissions after the pending frame was composed.
LEMMA CompletedMatched ==
    ASSUME NEW p, PoolOK(p), p.pending # None, NEW S, Matched(S, p)
    PROVE  LET c == Completed(p) IN Matched(TakenFrom(S, c), ReleaseRead(c))
<1> DEFINE c == Completed(p)
           q == ReleaseRead(c)
           gone == WithSerial(S, p.displayed.serial)
<1>1. PoolOK(q) /\ q.displayed = p.pending /\ q.pending = None /\ c.release = p.displayed
  BY CompletedOK
<1>2. TakenFrom(S, c) = IF p.displayed = None THEN S ELSE S \ {gone}
  BY <1>1 DEF TakenFrom
<1> HIDE DEF q, c
<1>3. \A x : x \in Protecting(q) <=> x = p.pending
  BY <1>1, ProtectingFacts
<1>4. \A x : x \in Protecting(p) <=> x = p.pending \/ (x = p.displayed /\ x # None)
  BY ProtectingFacts
<1>5. CASE p.displayed = None
  <2>1. Matched(S, q)
    BY <1>3, <1>4, <1>5 DEF Matched
  <2> QED
    BY <1>2, <1>5, <2>1 DEF q, c
<1>6. CASE p.displayed # None
  <2>1. p.displayed \in Protecting(p)
    BY <1>4, <1>6
  <2>2. gone \in S /\ \A t \in S : t.serial = p.displayed.serial <=> t = gone
    BY <2>1, WithSerialFacts
  <2> HIDE DEF gone
  <2>3. p.pending.serial # p.displayed.serial
    BY <1>6 DEF PoolOK
  <2>4. Matched(S \ {gone}, q)
    BY <1>3, <1>4, <2>2, <2>3 DEF Matched
  <2> QED
    BY <1>2, <1>6, <2>4 DEF q, c
<1> QED
  BY <1>5, <1>6

-----------------------------------------------------------------------------
(* The broker                                                               *)

BrokerInv == Books(known, window, pools)

\* What the books say of a window.
LEMMA WindowFacts ==
    ASSUME BrokerInv, window # None
    PROVE  /\ known /\ window \in Windows
           /\ window.gen \in DOMAIN pools
           /\ PoolOK(Current) /\ Matched(window.submissions, Current)
           /\ window.submissions \in SUBSET Submissions
           /\ window.gen \in Nat \ {0}
           /\ window.transition = None => DOMAIN pools = {window.gen}
<1>1. known /\ window \in Windows
  BY DEF BrokerInv, Books
<1>2. /\ window.gen \in DOMAIN pools
      /\ window.transition = None => DOMAIN pools = {window.gen}
  BY DEF BrokerInv, Books, Generations
<1>3. PoolOK(Current) /\ Matched(window.submissions, Current)
  BY DEF BrokerInv, Books, Current
<1>4. window.submissions \in SUBSET Submissions /\ window.gen \in Nat \ {0}
  BY <1>1 DEF Windows
<1> QED
  BY <1>1, <1>2, <1>3, <1>4

\* A pool without a release is left as it is by the reading of one.
LEMMA NothingToRead ==
    ASSUME NEW p, p.release = None, NEW S
    PROVE  ReleaseRead(p) = p /\ TakenFrom(S, p) = S
  BY DEF ReleaseRead, TakenFrom

\* A window closed with its pools leaves clean books.
LEMMA ClosedBooks ==
    ASSUME NEW k \in BOOLEAN
    PROVE  Books(k, None, <<>>)
  BY DEF Books, Generations

\* configure allocates a pool of its own for every generation.
LEMMA ConfigureBooks ==
    ASSUME BrokerInv, NEW m \in Packets, m.type = "Configure", Configure(m)
    PROVE  BrokerInv'
<1>1. m.gen \in Nat \ {0} /\ m.size \in Sizes
  BY DEF Packets
<1>2. CASE UNCHANGED <<known, window, pools>>
  BY <1>2 DEF BrokerInv
<1>3. ASSUME NEW t \in Transitions \cup {None}
      PROVE  LET w == NewWindow(m, t)
             IN  /\ w \in Windows /\ w # None
                 /\ w.gen = m.gen /\ w.submissions = {} /\ w.transition = t
  BY <1>1, NoneAssumption DEF NewWindow, Windows
<1>4. CASE /\ ConfigureAccepted(m) /\ window = None
           /\ window' = NewWindow(m, None)
           /\ pools' = With(pools, m.gen, NewPool)
           /\ known' = known
  <2>1. known = TRUE /\ DOMAIN pools = {}
    BY <1>4 DEF ConfigureAccepted, BrokerInv, Books, Generations
  <2>2. DOMAIN pools' = {m.gen} /\ pools'[m.gen] = NewPool
    BY <1>4, <2>1 DEF With
  <2>3. /\ window' \in Windows /\ window' # None
        /\ window'.gen = m.gen /\ window'.submissions = {} /\ window'.transition = None
    BY <1>3, <1>4
  <2> QED
    BY <1>4, <2>1, <2>2, <2>3, NewPoolOK DEF BrokerInv, Books, Generations
<1>5. CASE ConfigureAccepted(m) /\ window # None
  <2> DEFINE old == ReleaseRead(Current)
             left == TakenFrom(window.submissions, Current)
  <2>1. /\ known = TRUE /\ window.gen \in Nat \ {0} /\ m.gen # window.gen
        /\ window.transition = None /\ DOMAIN pools = {window.gen}
    <3>1. known = TRUE /\ m.gen = window.gen + 1 /\ window.transition = None
      BY <1>5 DEF ConfigureAccepted, ComposingPending, Transitioning, BrokerInv, Books
    <3>2. window.gen \in Nat \ {0} /\ DOMAIN pools = {window.gen}
      BY <1>5, <3>1, WindowFacts
    <3> QED
      BY <3>1, <3>2
  <2>2. old = Current /\ left = window.submissions
    <3>1. Current.release = None
      BY <1>5, WindowFacts DEF PoolOK
    <3> QED
      BY <3>1, NothingToRead, Zenon
  <2> HIDE DEF old, left
  <2>3. CASE /\ window' = NewWindow(m, [gen |-> window.gen, submissions |-> left])
             /\ pools' = With(With(pools, window.gen, old), m.gen, NewPool)
             /\ known' = known
    <3> DEFINE t == [gen |-> window.gen, submissions |-> left]
    <3>1. t \in Transitions /\ t # None
      <4>1. left \in SUBSET Submissions
        BY <1>5, <2>2, WindowFacts
      <4>2. t \in Transitions
        BY <2>1, <4>1 DEF Transitions
      <4> QED
        BY <4>2, NoneAssumption
    <3>2. t.gen = window.gen /\ t.submissions = window.submissions
      BY <2>2
    <3> HIDE DEF t
    <3>3. /\ window' \in Windows /\ window' # None
          /\ window'.gen = m.gen /\ window'.submissions = {} /\ window'.transition = t
      BY <1>3, <2>3, <3>1 DEF t
    <3>4. /\ DOMAIN pools' = {m.gen, window.gen}
          /\ pools'[m.gen] = NewPool /\ pools'[window.gen] = Current
      BY <2>1, <2>2, <2>3 DEF With
    <3> QED
      BY <1>5, <2>1, <2>3, <3>1, <3>2, <3>3, <3>4, WindowFacts, NewPoolOK, Zenon
         DEF BrokerInv, Books, Generations
  <2>4. CASE /\ window' = NewWindow(m, None)
             /\ pools' = With(Without(pools, {window.gen}), m.gen, NewPool)
             /\ known' = known
    <3>1. DOMAIN pools' = {m.gen} /\ pools'[m.gen] = NewPool
      BY <2>1, <2>4 DEF With, Without
    <3>2. /\ window' \in Windows /\ window' # None
          /\ window'.gen = m.gen /\ window'.submissions = {} /\ window'.transition = None
      BY <1>3, <2>4
    <3> QED
      BY <2>1, <2>4, <3>1, <3>2, NewPoolOK DEF BrokerInv, Books, Generations
  <2>5. CASE /\ window' = [window EXCEPT !.submissions = left]
             /\ pools' = With(pools, window.gen, old)
             /\ known' = known
    <3>1. window' = window
      BY <1>5, <2>2, <2>5, WindowFacts DEF Windows
    <3>2. DOMAIN pools' = {window.gen} /\ pools'[window.gen] = pools[window.gen]
      BY <2>1, <2>2, <2>5 DEF With, Current
    <3> QED
      BY <1>5, <2>1, <2>5, <3>1, <3>2, Zenon DEF BrokerInv, Books, Generations
  <2> QED
    BY <1>2, <1>5, <2>3, <2>4, <2>5 DEF Configure, old, left
<1> QED
  BY <1>2, <1>4, <1>5 DEF Configure, Refused

\* A change to the current pool that keeps its submissions matched.
LEMMA CurrentBooks ==
    ASSUME BrokerInv, window # None, NEW p, NEW S \in SUBSET Submissions,
           PoolOK(p), Matched(S, p),
           window.transition # None => p.displayed = None,
           window' = [window EXCEPT !.submissions = S],
           pools' = [pools EXCEPT ![window.gen] = p],
           known' = known
    PROVE  BrokerInv'
<1>1. /\ window' \in Windows /\ window' # None
      /\ window'.gen = window.gen /\ window'.submissions = S
      /\ window'.transition = window.transition
  BY WindowFacts, NoneAssumption DEF Windows
<1>2. /\ DOMAIN pools' = DOMAIN pools /\ pools'[window.gen] = p
      /\ \A g \in DOMAIN pools : g # window.gen => pools'[g] = pools[g]
  BY WindowFacts
<1>3. window.transition # None => window.transition.gen \in DOMAIN pools
  BY DEF BrokerInv, Books, Generations
<1> QED
  BY <1>1, <1>2, <1>3, WindowFacts DEF BrokerInv, Books, Generations

\* set_placements moves windows and touches no pool.
LEMMA PlacementBooks ==
    ASSUME BrokerInv, NEW m \in Packets, m.type = "SetPlacements", SetPlacements(m)
    PROVE  BrokerInv'
<1>1. CASE UNCHANGED <<known, window, pools>>
  BY <1>1 DEF BrokerInv
<1>2. CASE /\ window # None /\ window' = [window EXCEPT !.placement = m.size]
           /\ pools' = pools /\ known' = known
  <2>1. m.size \in Sizes \cup {None}
    BY DEF Packets
  <2>2. /\ window' \in Windows /\ window' # None
        /\ window'.gen = window.gen /\ window'.submissions = window.submissions
        /\ window'.transition = window.transition
    BY <1>2, <2>1, WindowFacts, NoneAssumption DEF Windows
  <2> QED
    BY <1>2, <2>2, WindowFacts DEF BrokerInv, Books, Generations
<1> QED
  BY <1>1, <1>2 DEF SetPlacements, Refused

\* present queues a frame, replaces the one that waits, or refuses.
LEMMA PresentBooks ==
    ASSUME BrokerInv, NEW m \in Packets, m.type = "Present", Present(m)
    PROVE  BrokerInv'
<1>1. CASE UNCHANGED <<known, window, pools>>
  BY <1>1 DEF BrokerInv
<1>2. m.request \in Nat
  BY DEF Packets
<1>3. ASSUME window # None, NEW p, Queued(m, p)
      PROVE  LET s == [serial |-> p.pending.serial, request |-> m.request, buffer |-> m.buffer]
             IN  /\ window' = [window EXCEPT !.submissions = TakenFrom(window.submissions, p) \cup {s}]
                 /\ pools' = [pools EXCEPT ![window.gen] = ReleaseRead(p)]
                 /\ known' = known
  BY <1>3, WindowFacts DEF Queued, Windows
<1>4. CASE /\ window # None /\ m.buffer \in Buffers
           /\ PresentStatus(Current, m.buffer) = "Ok"
           /\ Queued(m, Submitted(Current, m.buffer))
  <2> DEFINE p == Submitted(Current, m.buffer)
             s == [serial |-> Current.nextSerial, request |-> m.request, buffer |-> m.buffer]
  <2>1. PoolOK(Current) /\ Matched(window.submissions, Current)
        /\ window.submissions \in SUBSET Submissions
    BY <1>4, WindowFacts
  <2>2. /\ PoolOK(p) /\ p.displayed = Current.displayed
        /\ p.pending.serial = Current.nextSerial
    <3>1. /\ PoolOK(p) /\ p.displayed = Current.displayed
          /\ p.pending = [buffer |-> m.buffer, serial |-> Current.nextSerial]
      BY <1>4, <2>1, SubmittedOK, Zenon
    <3> HIDE DEF p
    <3> QED
      BY <3>1
  <2>3. s \in Submissions /\ Matched(window.submissions \cup {s}, p)
    BY <1>2, <1>4, <2>1, SubmittedMatched, Zenon
  <2>4. p.release = None
    BY <2>2 DEF PoolOK
  <2>5. ReleaseRead(p) = p /\ TakenFrom(window.submissions, p) = window.submissions
    BY <2>4, NothingToRead, Zenon
  <2>6. window.transition # None => p.displayed = None
    BY <1>4, <2>2 DEF BrokerInv, Books, Current
  <2>7. /\ window' = [window EXCEPT !.submissions = window.submissions \cup {s}]
        /\ pools' = [pools EXCEPT ![window.gen] = p]
        /\ known' = known
    BY <1>3, <1>4, <2>2, <2>5
  <2> HIDE DEF p, s
  <2>8. window.submissions \cup {s} \in SUBSET Submissions
    BY <2>1, <2>3
  <2> QED
    BY <1>4, <2>2, <2>3, <2>6, <2>7, <2>8, CurrentBooks, Zenon
<1>5. CASE /\ window # None /\ m.buffer \in Buffers /\ Current.pending # None
           /\ CoalesceStatus(Current, m.buffer) = "Ok"
           /\ Queued(m, Coalesced(Current, m.buffer))
  <2> DEFINE c == Coalesced(Current, m.buffer)
             p == ReleaseRead(c)
             s == [serial |-> Current.nextSerial, request |-> m.request, buffer |-> m.buffer]
             left == TakenFrom(window.submissions, c)
  <2>1. PoolOK(Current) /\ Matched(window.submissions, Current)
        /\ window.submissions \in SUBSET Submissions
    BY <1>5, WindowFacts
  <2>2. /\ PoolOK(p) /\ p.displayed = Current.displayed
        /\ c.pending.serial = Current.nextSerial
    <3>1. /\ PoolOK(p) /\ p.displayed = Current.displayed
          /\ c.pending = [buffer |-> m.buffer, serial |-> Current.nextSerial]
      BY <1>5, <2>1, CoalescedOK, Zenon
    <3> HIDE DEF c, p
    <3> QED
      BY <3>1
  <2>3. s \in Submissions /\ Matched(left \cup {s}, p)
    BY <1>2, <1>5, <2>1, CoalescedMatched, Zenon
  <2>4. left \subseteq window.submissions
    BY DEF TakenFrom
  <2>5. window.transition # None => p.displayed = None
    BY <1>5, <2>2 DEF BrokerInv, Books, Current
  <2>6. /\ window' = [window EXCEPT !.submissions = left \cup {s}]
        /\ pools' = [pools EXCEPT ![window.gen] = p]
        /\ known' = known
    BY <1>3, <1>5, <2>2
  <2> HIDE DEF p, s, left
  <2>7. left \cup {s} \in SUBSET Submissions
    BY <2>1, <2>3, <2>4
  <2> QED
    BY <1>5, <2>2, <2>3, <2>5, <2>6, <2>7, CurrentBooks, Zenon
<1> QED
  BY <1>1, <1>4, <1>5, Zenon DEF Present, Rejected

\* compose_due shows the pending frame and gives back the one before it.
LEMMA ComposeBooks ==
    ASSUME BrokerInv, ComposeDue
    PROVE  BrokerInv'
<1>1. window # None /\ Current.pending # None
  BY DEF ComposeDue, PendingFrame
<1>2. PoolOK(Current) /\ Matched(window.submissions, Current)
      /\ window.submissions \in SUBSET Submissions
  BY <1>1, WindowFacts
<1> DEFINE c == Completed(Current)
           p == ReleaseRead(c)
<1>3. PoolOK(p) /\ p.displayed = Current.pending /\ (Current.displayed = None => p = c)
  BY <1>1, <1>2, CompletedOK
<1>4. Matched(TakenFrom(window.submissions, c), p)
  BY <1>1, <1>2, CompletedMatched
<1>5. CASE ComposeBatch
  <2> DEFINE left == TakenFrom(window.submissions, c)
  <2>1. /\ window' = [window EXCEPT !.submissions = left]
        /\ pools' = [pools EXCEPT ![window.gen] = p]
        /\ known' = known /\ window.transition = None
    BY <1>1, <1>5, WindowFacts DEF ComposeBatch, Transitioning, Windows
  <2>2. left \in SUBSET Submissions
    BY <1>2 DEF TakenFrom
  <2> HIDE DEF left, p
  <2> QED
    BY <1>1, <1>3, <1>4, <2>1, <2>2, CurrentBooks, Zenon DEF left
<1>6. CASE ComposeTransition
  <2> DEFINE old == window.transition.gen
  <2>1. /\ window.transition # None /\ old # window.gen /\ Current.displayed = None
        /\ DOMAIN pools = {window.gen, old} /\ known \in BOOLEAN
    BY <1>1, <1>6 DEF ComposeTransition, Transitioning, BrokerInv, Books, Generations, Current
  <2>2. p = c /\ c.release = None
    BY <1>3, <2>1 DEF PoolOK
  <2>3. TakenFrom(window.submissions, c) = window.submissions
    BY <2>2 DEF TakenFrom
  <2>4. DOMAIN pools' = {window.gen} /\ pools'[window.gen] = p
    BY <1>6, <2>1, <2>2 DEF ComposeTransition, Without, Current
  <2>5. /\ window' \in Windows /\ window' # None
        /\ window'.gen = window.gen /\ window'.submissions = window.submissions
        /\ window'.transition = None /\ known' = known
    BY <1>1, <1>6, WindowFacts, NoneAssumption DEF ComposeTransition, Windows
  <2> HIDE DEF p
  <2> QED
    BY <1>1, <1>3, <1>4, <2>1, <2>3, <2>4, <2>5, WindowFacts DEF BrokerInv, Books, Generations
<1> QED
  BY <1>5, <1>6 DEF ComposeDue

\* A composition that fails leaves the books alone.
LEMMA FailureBooks ==
    ASSUME BrokerInv, PendingFrame, ComposeFails
    PROVE  BrokerInv'
<1> DEFINE p == [Current EXCEPT !.pendingRead = TRUE]
<1>1. window # None
  BY DEF PendingFrame
<1>2. PoolOK(Current) /\ Matched(window.submissions, Current)
      /\ window.submissions \in SUBSET Submissions
  BY <1>1, WindowFacts
<1>3. PoolOK(p) /\ p.displayed = Current.displayed /\ Protecting(p) = Protecting(Current)
  BY <1>2, ReadOK
<1>4. /\ window' = [window EXCEPT !.submissions = window.submissions]
      /\ pools' = [pools EXCEPT ![window.gen] = p] /\ known' = known
  BY <1>1, WindowFacts DEF ComposeFails, Current, Windows
<1>5. window.transition # None => p.displayed = None
  BY <1>1, <1>3 DEF BrokerInv, Books, Current
<1> HIDE DEF p
<1>6. Matched(window.submissions, p)
  BY <1>2, <1>3 DEF Matched
<1> QED
  BY <1>1, <1>2, <1>3, <1>4, <1>5, <1>6, CurrentBooks, Zenon

\* Every step of the broker keeps its books.
LEMMA BrokerStep == BrokerInv /\ [BrokerNext]_brokerVars => BrokerInv'
<1> SUFFICES ASSUME BrokerInv, [BrokerNext]_brokerVars PROVE BrokerInv'
  OBVIOUS
<1>1. ASSUME NEW m \in Packets, HandlePacket(m) PROVE BrokerInv'
  <2>1. CASE m.type = "DestroyWindow" /\ DestroyWindow
    <3>1. known \in BOOLEAN
      BY DEF BrokerInv, Books
    <3>2. CASE window = None
      BY <2>1, <3>2 DEF DestroyWindow, Refused, BrokerInv
    <3>3. CASE window # None
      BY <2>1, <3>1, <3>3, ClosedBooks DEF DestroyWindow, BrokerInv
    <3> QED
      BY <3>2, <3>3
  <2> QED
    BY <1>1, <2>1, ConfigureBooks, PlacementBooks, PresentBooks DEF HandlePacket
<1>2. CASE CleanupClient
  BY <1>2, ClosedBooks, Zenon DEF CleanupClient, BrokerInv
<1>3. CASE UNCHANGED <<known, window, pools>>
  BY <1>3 DEF BrokerInv
<1> QED
  BY <1>1, <1>2, <1>3, ComposeBooks, FailureBooks DEF BrokerNext, brokerVars

\* The broker's books and the protected window objects agree at all times,
\* for any number of buffers and any packets (PoolsExact).
THEOREM BooksExact == BrokerSpec => []PoolsExact
<1>1. BrokerInit => BrokerInv
  BY ClosedBooks, Zenon DEF BrokerInit, BrokerInv
<1>2. BrokerInv => PoolsExact
  BY DEF BrokerInv, Books, Generations, PoolsExact, Transitioning, PoolOK, SubmissionsOf
<1> QED
  BY <1>1, <1>2, BrokerStep, PTL DEF BrokerSpec
=============================================================================
