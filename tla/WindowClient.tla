----------------------------- MODULE WindowClient -----------------------------
(***************************************************************************)
(* The client side of the window protocol: WindowClient and Frame of        *)
(* crates/ginkgo-window/src/client.rs, for the one window a client has.     *)
(* A frame borrows the client, so no event is processed while one is held.  *)
(***************************************************************************)
EXTENDS WindowPool, FiniteSetsExt, Functions

Available == <<"Available">>
Acquired == <<"Acquired">>
Presented(request) == <<"Presented", request>>

NewClient ==
    [alive |-> TRUE, creating |-> None, created |-> FALSE, active |-> 0,
     pools |-> <<>>, next |-> 1, frame |-> None, error |-> FALSE]

HasPresented(buffers) == \E b \in Buffers : buffers[b][1] = "Presented"

\* The pools of which the server still owes a release.
Owed(pools) == Restrict(pools, {g \in DOMAIN pools : HasPresented(pools[g])})

Failed(c) == [c EXCEPT !.error = TRUE]

-----------------------------------------------------------------------------
(* acquire_frame, Frame::present and Frame::drop                            *)

AvailableIn(buffers) == {b \in Buffers : buffers[b] = Available}

CanAcquire(c) == c.active # 0 /\ AvailableIn(c.pools[c.active]) # {}

AcquireFrame(c) ==
    LET b == Min(AvailableIn(c.pools[c.active]))
    IN  [c EXCEPT !.pools[c.active][b] = Acquired,
                  !.frame = [gen |-> c.active, buffer |-> b]]

\* allocate_request_id; the id is used up even when the send then fails.
Allocated(c) == [c EXCEPT !.next = @ + 1]

PresentFrame(c) ==
    [Allocated(c) EXCEPT !.pools[c.frame.gen][c.frame.buffer] = Presented(c.next),
                         !.frame = None]

DropFrame(c) ==
    [c EXCEPT !.pools[c.frame.gen][c.frame.buffer] = Available, !.frame = None]

-----------------------------------------------------------------------------
(* process_received                                                         *)

OnWindowCreated(c, e) ==
    IF c.creating # e.request \/ c.created THEN Failed(c)
    ELSE [c EXCEPT !.creating = None, !.created = TRUE]

\* The mutant drops every older pool, releases owed or not.
OnConfigured_DropsOwed(c, e) ==
    IF ~c.created \/ e.gen <= c.active THEN Failed(c)
    ELSE [c EXCEPT !.active = e.gen,
                   !.pools = [g \in {e.gen} |-> [b \in Buffers |-> Available]]]

\* The mutant takes a generation that was skipped for an error.
OnConfigured_NextOnly(c, e) ==
    IF ~c.created \/ e.gen # c.active + 1 THEN Failed(c)
    ELSE LET kept == Owed(c.pools)
         IN  [c EXCEPT !.active = e.gen,
                       !.pools = [g \in DOMAIN kept \cup {e.gen} |->
                                     IF g = e.gen THEN [b \in Buffers |-> Available]
                                     ELSE kept[g]]]

\* apply_configuration.  Pools with no presented buffer are dropped.
OnConfigured(c, e) ==
    IF ~c.created \/ e.gen <= c.active THEN Failed(c)
    ELSE LET kept == Owed(c.pools)
         IN  [c EXCEPT !.active = e.gen,
                       !.pools = [g \in DOMAIN kept \cup {e.gen} |->
                                     IF g = e.gen THEN [b \in Buffers |-> Available]
                                     ELSE kept[g]]]

\* Retired pools are kept while the server owes them a release.
WithoutSpent(c, pools) ==
    LET kept == {g \in DOMAIN pools : g = c.active \/ HasPresented(pools[g])}
    IN  [c EXCEPT !.pools = Restrict(pools, kept)]

\* release_buffer
OnBufferReleased(c, e) ==
    IF \/ ~c.created
       \/ e.gen \notin DOMAIN c.pools
       \/ c.pools[e.gen][e.buffer] # Presented(e.request)
    THEN Failed(c)
    ELSE WithoutSpent(c, [c.pools EXCEPT ![e.gen][e.buffer] = Available])

\* fail_present_request
OnRequestFailed(c, e) ==
    LET answered == [c EXCEPT !.creating = IF @ = e.request THEN None ELSE @]
    IN  WithoutSpent(answered,
            [g \in DOMAIN c.pools |-> [b \in Buffers |->
                IF c.pools[g][b] = Presented(e.request) THEN Available ELSE c.pools[g][b]]])

OnEvent(c, e) ==
    CASE e.type = "WindowCreated" -> OnWindowCreated(c, e)
      [] e.type = "Configured" -> OnConfigured(c, e)
      [] e.type = "BufferReleased" -> OnBufferReleased(c, e)
      [] e.type = "RequestFailed" -> OnRequestFailed(c, e)
=============================================================================
