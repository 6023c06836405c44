----------------------------- MODULE DesktopBroker ----------------------------
(***************************************************************************)
(* The kernel's end of the desktop: DesktopBroker of                        *)
(* crates/ginkgo-kernel/src/desktop_runtime.rs with the parts of the        *)
(* compositor that decide which pool is drawn, for one client and its       *)
(* window.  Every call runs to its end inside one kernel task.              *)
(***************************************************************************)
EXTENDS WindowPool, Sequences

CONSTANTS
    Capacity,           \* CHANNEL_QUEUE_CAPACITY of the runtime channel
    AllocationMayFail,  \* whether a surface pool may not be allocated
    Sizes               \* logical sizes of the window

VARIABLES
    known,          \* the client is in `clients`
    window,         \* its BrokerWindow, or None
    pools,          \* the open window objects, by generation
    compositor,     \* the generation registered with the compositor, or None
    out             \* the runtime channel to the service and deferred_notices

brokerVars == <<known, window, pools, compositor, out>>

\* Submission, PoolTransition and BrokerWindow.
Submissions == [serial : Nat \ {0}, request : Nat, buffer : Buffers]
Transitions == [gen : Nat \ {0}, submissions : SUBSET Submissions]
Windows ==
    [gen : Nat \ {0}, size : Sizes, placement : Sizes \cup {None},
     submissions : SUBSET Submissions, transition : Transitions \cup {None}]

ASSUME NoneAssumption == None \notin Presentations \cup Transitions \cup Windows

BrokerInit ==
    /\ known = TRUE /\ window = None
    /\ pools = <<>> /\ compositor = None
    /\ out = [channel |-> <<>>, deferred |-> <<>>]

-----------------------------------------------------------------------------
(* Messages to the service.  Only notices are kept when the channel is full. *)

RoomIn(o) == Len(o.channel) < Capacity

\* A direct write, lost when the channel is full: send_surface_ready.
Written(o, m) == IF RoomIn(o) THEN [o EXCEPT !.channel = Append(@, m)] ELSE o

\* The mutant writes a notice past those that wait, or loses it.
Noticed_NotKept(o, n) == Written(o, n)

\* send_notice_or_defer
Noticed(o, n) ==
    IF o.deferred = <<>> /\ RoomIn(o) THEN [o EXCEPT !.channel = Append(@, n)]
    ELSE [o EXCEPT !.deferred = Append(@, n)]

\* flush_deferred_notices
Flushed(o) ==
    LET room == Capacity - Len(o.channel)
        k == IF Len(o.deferred) <= room THEN Len(o.deferred) ELSE room
    IN  [channel |-> o.channel \o SubSeq(o.deferred, 1, k),
         deferred |-> SubSeq(o.deferred, k + 1, Len(o.deferred))]

ReleaseNotice(gen, buffer, request) ==
    [type |-> "BufferReleased", gen |-> gen, buffer |-> buffer, request |-> request]

PresentResult(request, accepted) ==
    [type |-> "PresentResult", request |-> request, accepted |-> accepted]

SurfaceReady(gen) == [type |-> "SurfaceReady", gen |-> gen]

-----------------------------------------------------------------------------
(* take_pool_release: the release of pool p, matched by serial with a        *)
(* submission, which is removed.                                            *)

WithSerial(submissions, serial) ==
    CHOOSE s \in submissions : s.serial = serial

TakenFrom(submissions, p) ==
    IF p.release = None THEN submissions
    ELSE submissions \ {WithSerial(submissions, p.release.serial)}

\* What the release adds to the messages for the service.
NoticeOf(o, gen, submissions, p) ==
    IF p.release = None THEN o
    ELSE Noticed(o, ReleaseNotice(gen, p.release.buffer,
                                  WithSerial(submissions, p.release.serial).request))

Without(f, keys) == [g \in DOMAIN f \ keys |-> f[g]]
With(f, gen, p) == [g \in DOMAIN f \cup {gen} |-> IF g = gen THEN p ELSE f[g]]

-----------------------------------------------------------------------------
(* handle_desktop_packet, after poll_desktop flushed the deferred notices    *)

\* A packet that is refused has no other effect than the flush.
Refused == out' = Flushed(out) /\ UNCHANGED <<known, window, pools, compositor>>

Current == pools[window.gen]

Transitioning == window.transition # None

\* configure is refused while a frame of the window is still to be composed.
ComposingPending == Transitioning \/ Current.pending # None

\* The mutant does not ask whether the client is still connected.
ConfigureAccepted_AnyClient(m) ==
    window # None => m.gen = window.gen + 1 /\ ~ComposingPending

ConfigureAccepted(m) ==
    /\ known
    /\ window # None => m.gen = window.gen + 1 /\ ~ComposingPending

NewWindow(m, transition) ==
    [gen |-> m.gen, size |-> m.size, placement |-> None, submissions |-> {},
     transition |-> transition]

\* The mutant retires the old pool at once.
RetainOld_Never == FALSE

\* The old pool is retained while it is displayed or registered.
RetainOld == Current.displayed # None \/ compositor # None

\* configure.  The state is committed before SurfaceReady is written.
Configure(m) ==
    IF ~ConfigureAccepted(m) THEN Refused
    ELSE IF window = None
    THEN \/ /\ window' = NewWindow(m, None)
            /\ pools' = With(pools, m.gen, NewPool)
            /\ out' = Written(Flushed(out), SurfaceReady(m.gen))
            /\ UNCHANGED <<known, compositor>>
         \/ AllocationMayFail /\ Refused
    ELSE LET old == ReleaseRead(Current)
             left == TakenFrom(window.submissions, Current)
             told == NoticeOf(Flushed(out), window.gen, window.submissions, Current)
         IN  \/ /\ IF RetainOld
                   THEN /\ window' = NewWindow(m, [gen |-> window.gen, submissions |-> left])
                        /\ pools' = With(With(pools, window.gen, old), m.gen, NewPool)
                        /\ UNCHANGED compositor
                   ELSE /\ window' = NewWindow(m, None)
                        /\ pools' = With(Without(pools, {window.gen}), m.gen, NewPool)
                        /\ compositor' = None
                /\ out' = Written(told, SurfaceReady(m.gen))
                /\ UNCHANGED known
             \/ /\ AllocationMayFail
                /\ window' = [window EXCEPT !.submissions = left]
                /\ pools' = With(pools, window.gen, old)
                /\ out' = told
                /\ UNCHANGED <<known, compositor>>

\* destroy_window.  A pending frame keeps the pool from retiring, and its
\* buffers are then never released.
DestroyWindow ==
    IF window = None THEN Refused
    ELSE /\ window' = None
         /\ pools' = <<>>
         /\ compositor' = None
         /\ out' = IF CanRetire(Current)
                   THEN NoticeOf(Flushed(out), window.gen, window.submissions, Retired(Current))
                   ELSE Flushed(out)
         /\ UNCHANGED known

\* set_placements; a window in transition keeps what is registered.
SetPlacements(m) ==
    IF m.size # None /\ (window = None \/ m.size # window.size) THEN Refused
    ELSE /\ out' = Flushed(out)
         /\ window' = IF window = None THEN None ELSE [window EXCEPT !.placement = m.size]
         /\ compositor' = IF window = None \/ Transitioning THEN compositor
                          ELSE IF m.size = None THEN None ELSE window.gen
         /\ UNCHANGED <<known, pools>>

Rejected(m) ==
    /\ out' = Noticed(Flushed(out), PresentResult(m.request, FALSE))
    /\ UNCHANGED <<known, window, pools, compositor>>

DuplicateRequest(m) ==
    \E s \in window.submissions \cup
             (IF Transitioning THEN window.transition.submissions ELSE {}) :
        s.request = m.request

\* The pool accepted the frame as p, with the release of a frame it replaced.
Queued(m, p) ==
    LET s == [serial |-> p.pending.serial, request |-> m.request, buffer |-> m.buffer]
        told == NoticeOf(Flushed(out), window.gen, window.submissions, p)
    IN  /\ window' = [window EXCEPT !.submissions = TakenFrom(@, p) \cup {s}]
        /\ pools' = [pools EXCEPT ![window.gen] = ReleaseRead(p)]
        /\ out' = Noticed(told, PresentResult(m.request, TRUE))
        /\ UNCHANGED <<known, compositor>>

\* present, with window_present_coalescing.
Present(m) ==
    IF \/ window = None \/ m.gen # window.gen
       \/ m.buffer \notin Buffers
       \/ DuplicateRequest(m)
    THEN Rejected(m)
    ELSE CASE PresentStatus(Current, m.buffer) = "Ok" ->
                  Queued(m, Submitted(Current, m.buffer))
           [] PresentStatus(Current, m.buffer) = "ShouldWait"
              /\ Current.pending # None
              /\ CoalesceStatus(Current, m.buffer) = "Ok" ->
                  Queued(m, Coalesced(Current, m.buffer))
           [] OTHER -> Rejected(m)

\* handle_desktop_packet
HandlePacket(m) ==
    \/ m.type = "Configure" /\ Configure(m)
    \/ m.type = "DestroyWindow" /\ DestroyWindow
    \/ m.type = "SetPlacements" /\ SetPlacements(m)
    \/ m.type = "Present" /\ Present(m)

-----------------------------------------------------------------------------
(* compose_due, when the frame clock selects a frame                        *)

PendingFrame == window # None /\ Current.pending # None

\* compose_pending_batch, for a window that is registered.
ComposeBatch ==
    /\ ~Transitioning
    /\ compositor = window.gen
    /\ LET p == Completed(Current)
       IN  /\ pools' = [pools EXCEPT ![window.gen] = ReleaseRead(p)]
           /\ window' = [window EXCEPT !.submissions = TakenFrom(@, p)]
           /\ out' = NoticeOf(out, window.gen, window.submissions, p)
    /\ UNCHANGED <<known, compositor>>

\* compose_transition: the first frame of the new pool retires the old one.
ComposeTransition ==
    /\ Transitioning
    /\ window.placement # None
    /\ LET old == window.transition
       IN  /\ out' = NoticeOf(out, old.gen, old.submissions, Retired(pools[old.gen]))
           /\ pools' = Without([pools EXCEPT ![window.gen] = Completed(@)], {old.gen})
    /\ window' = [window EXCEPT !.transition = None]
    /\ compositor' = window.gen
    /\ UNCHANGED known

\* Rendering fails after some of the frame was copied; what was registered
\* before is registered again.
ComposeFails ==
    /\ IF Transitioning THEN window.placement # None ELSE compositor = window.gen
    /\ pools' = [pools EXCEPT ![window.gen].pendingRead = TRUE]
    /\ UNCHANGED <<known, window, compositor, out>>

ComposeDue == PendingFrame /\ (ComposeBatch \/ ComposeTransition)

\* cleanup_client, when the client's process is reaped.
CleanupClient ==
    /\ known
    /\ known' = FALSE
    /\ window' = None /\ pools' = <<>> /\ compositor' = None
    /\ UNCHANGED out

\* Whatever packets the service sends, in any order.
Packets ==
    [type : {"Configure"}, gen : Nat \ {0}, size : Sizes]
        \cup [type : {"DestroyWindow"}]
        \cup [type : {"SetPlacements"}, size : Sizes \cup {None}]
        \cup [type : {"Present"}, request : Nat, gen : Nat, buffer : Nat]

BrokerNext ==
    \/ \E m \in Packets : HandlePacket(m)
    \/ ComposeDue
    \/ PendingFrame /\ ComposeFails
    \/ CleanupClient
    \/ UNCHANGED <<known, window, pools, compositor>>   \* the channel is read or written

BrokerSpec == BrokerInit /\ [][BrokerNext]_brokerVars

-----------------------------------------------------------------------------
(* Properties                                                               *)

\* The presentations that protect buffers of a pool.
Protecting(p) == {q \in {p.pending, p.displayed, p.release} : q # None}

\* One submission for each presentation, found by its serial.
Matched(submissions, p) ==
    /\ \A q \in Protecting(p) : \E s \in submissions : s.serial = q.serial /\ s.buffer = q.buffer
    /\ \A s \in submissions : \E q \in Protecting(p) : q.serial = s.serial
    /\ \A s, t \in submissions : s.serial = t.serial => s = t

SubmissionsOf(g) ==
    IF g = window.gen THEN window.submissions ELSE window.transition.submissions

\* The broker's books agree with the protected window objects.  It keeps
\* exactly the pools it still needs, the current one and in a transition the
\* one on the screen: none outlives its window or comes back for a client that
\* was cleaned up.  In each pool a buffer is protected by one presentation, and
\* there is one submission for each, so take_pool_release always finds the
\* request to answer and the submissions never outgrow what configure reserved.
PoolsExact ==
    /\ DOMAIN pools = IF window = None THEN {}
                      ELSE {window.gen} \cup
                           (IF Transitioning THEN {window.transition.gen} ELSE {})
    /\ ~known => window = None
    /\ \A g \in DOMAIN pools : PoolExact(pools[g]) /\ Matched(SubmissionsOf(g), pools[g])
=============================================================================
