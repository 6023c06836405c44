---------------------------- MODULE WindowProtocol ----------------------------
(***************************************************************************)
(* A window from end to end: a client that uses WindowClient, the desktop   *)
(* service (userspace/ginkgo-desktop-service and crates/ginkgo-desktop) and *)
(* the kernel's DesktopBroker, joined by channels.  The three run in        *)
(* processes and tasks of their own and take their steps in any order.      *)
(*                                                                         *)
(* Sizes stand for the geometry the layout computes.  Each outbound queue   *)
(* of the service is one queue with the channel it is flushed to; its       *)
(* limits are far above what the bounds below let it hold.                  *)
(***************************************************************************)
EXTENDS WindowClient, DesktopBroker

CONSTANTS
    RequestCapacity,    \* capacity of the client's channel
    MaxRequests,        \* bound on request ids
    MaxHotkeys,         \* bound on keyboard input that resizes the window
    MaxPointer,         \* bound on other input
    MaxHides            \* bound on another window going fullscreen

VARIABLES
    client,         \* WindowClient and the frame it lent
    requests,       \* client to service
    events,         \* service to client
    desktop,        \* Desktop and the client's connection
    commands,       \* service to broker
    inputs          \* how often input was sent and the window was hidden

serviceVars == <<events, desktop, commands>>
vars == <<brokerVars, client, requests, serviceVars, inputs>>

NewDesktop(want) ==
    [connected |-> TRUE, window |-> FALSE, gen |-> 0, size |-> None, want |-> want,
     shown |-> TRUE]

Init ==
    /\ BrokerInit
    /\ client = NewClient
    /\ requests = <<>> /\ events = <<>> /\ commands = <<>>
    /\ desktop = NewDesktop(CHOOSE size \in Sizes : TRUE)
    /\ inputs = [hotkeys |-> 0, pointer |-> 0, hides |-> 0]

-----------------------------------------------------------------------------
(* The client                                                               *)

\* A message is sent, or the channel is full and the send fails.
Send(m) ==
    IF Len(requests) < RequestCapacity
    THEN requests' = Append(requests, m) ELSE UNCHANGED requests

Idle == client.alive /\ client.frame = None /\ client.next <= MaxRequests

CreateWindow ==
    /\ Idle
    /\ client.creating = None /\ ~client.created
    /\ Send([type |-> "CreateWindow", request |-> client.next])
    /\ client' = IF Len(requests) < RequestCapacity
                 THEN [Allocated(client) EXCEPT !.creating = client.next]
                 ELSE Allocated(client)
    /\ UNCHANGED <<brokerVars, serviceVars, inputs>>

\* request_size, set_minimum_size, set_maximum_size, set_fullscreen and
\* toggle_fullscreen all change the size the layout gives the window.
RequestSize ==
    \E size \in Sizes :
        /\ Idle
        /\ client.created
        /\ Send([type |-> "RequestSize", request |-> client.next, size |-> size])
        /\ client' = Allocated(client)
        /\ UNCHANGED <<brokerVars, serviceVars, inputs>>

DestroyRequest ==
    /\ Idle
    /\ client.created
    /\ Send([type |-> "DestroyWindow", request |-> client.next])
    /\ client' = Allocated(client)
    /\ UNCHANGED <<brokerVars, serviceVars, inputs>>

Acquire ==
    /\ Idle
    /\ CanAcquire(client)
    /\ client' = AcquireFrame(client)
    /\ UNCHANGED <<brokerVars, requests, serviceVars, inputs>>

\* Frame::present; a send that fails drops the frame.
PresentIt ==
    /\ client.alive /\ client.frame # None
    /\ Send([type |-> "Present", request |-> client.next, gen |-> client.frame.gen,
             buffer |-> client.frame.buffer])
    /\ client' = IF Len(requests) < RequestCapacity THEN PresentFrame(client)
                 ELSE DropFrame(Allocated(client))
    /\ UNCHANGED <<brokerVars, serviceVars, inputs>>

DropIt ==
    /\ client.alive /\ client.frame # None
    /\ client' = DropFrame(client)
    /\ UNCHANGED <<brokerVars, requests, serviceVars, inputs>>

PollEvent ==
    /\ client.alive /\ client.frame = None
    /\ events # <<>>
    /\ client' = OnEvent(client, Head(events))
    /\ events' = Tail(events)
    /\ UNCHANGED <<brokerVars, requests, desktop, commands, inputs>>

ClientExits ==
    /\ client.alive
    /\ client' = [client EXCEPT !.alive = FALSE]
    /\ UNCHANGED <<brokerVars, requests, serviceVars, inputs>>

-----------------------------------------------------------------------------
(* The desktop service                                                      *)

\* append_reconcile: a window that is placed and whose size changed, or that
\* is forced, gets its next configuration; then all placements are sent.
Placed(d) == d.window /\ d.shown

Reconfigured(d, forced) ==
    IF Placed(d) /\ (forced \/ d.gen = 0 \/ d.size # d.want)
    THEN [d EXCEPT !.gen = @ + 1, !.size = d.want] ELSE d

ReconcileCommands(d, forced) ==
    LET new == Reconfigured(d, forced)
    IN  (IF new.gen = d.gen THEN <<>>
         ELSE <<[type |-> "Configure", gen |-> new.gen, size |-> new.size]>>)
        \o <<[type |-> "SetPlacements", size |-> IF Placed(new) THEN new.size ELSE None]>>

\* The desktop becomes d, reconciled, after the commands `first`.
Reconcile(d, forced, first) ==
    /\ desktop' = Reconfigured(d, forced)
    /\ commands' = commands \o first \o ReconcileCommands(d, forced)

Tell(e) == events' = Append(events, e)

Failure(m) == [type |-> "RequestFailed", request |-> m.request]

\* create_window, which fails when the desktop has no room for a window.
HandleCreate(m) ==
    \/ /\ Tell([type |-> "WindowCreated", request |-> m.request])
       /\ Reconcile([desktop EXCEPT !.window = TRUE], TRUE, <<>>)
    \/ Tell(Failure(m)) /\ UNCHANGED <<desktop, commands>>

HandleDestroy(m) ==
    IF desktop.window
    THEN /\ Reconcile([desktop EXCEPT !.window = FALSE], FALSE, <<[type |-> "DestroyWindow"]>>)
         /\ UNCHANGED events
    ELSE Tell(Failure(m)) /\ UNCHANGED <<desktop, commands>>

\* request_reconfigure
HandleSize(m) ==
    IF desktop.window
    THEN Reconcile([desktop EXCEPT !.want = m.size], TRUE, <<>>) /\ UNCHANGED events
    ELSE Tell(Failure(m)) /\ UNCHANGED <<desktop, commands>>

PresentForwarded(m) == desktop.window /\ m.gen = desktop.gen

HandlePresent(m) ==
    IF PresentForwarded(m)
    THEN commands' = Append(commands, m) /\ UNCHANGED <<events, desktop>>
    ELSE Tell(Failure(m)) /\ UNCHANGED <<desktop, commands>>

\* service_clients, for one request of the client.
ServeClient ==
    /\ desktop.connected
    /\ requests # <<>>
    /\ requests' = Tail(requests)
    /\ LET m == Head(requests)
       IN  \/ m.type = "CreateWindow" /\ HandleCreate(m)
           \/ m.type = "DestroyWindow" /\ HandleDestroy(m)
           \/ m.type = "RequestSize" /\ HandleSize(m)
           \/ m.type = "Present" /\ HandlePresent(m)
    /\ UNCHANGED <<brokerVars, client, inputs>>

\* disconnect_client: the channel reads as closed once it is empty, and a
\* write to it fails before that.
Disconnect ==
    /\ desktop.connected /\ ~client.alive
    /\ requests = <<>> \/ events # <<>>
    /\ requests' = <<>> /\ events' = <<>>
    /\ IF desktop.window
       THEN Reconcile([desktop EXCEPT !.connected = FALSE, !.window = FALSE], FALSE,
                      <<[type |-> "DestroyWindow"]>>)
       ELSE desktop' = [desktop EXCEPT !.connected = FALSE] /\ UNCHANGED commands
    /\ UNCHANGED <<brokerVars, client, inputs>>

\* A SurfaceReady of another generation than the current one is dropped.
HandleSurfaceReady(m) ==
    /\ IF desktop.window /\ desktop.gen = m.gen
       THEN Tell([type |-> "Configured", gen |-> m.gen]) ELSE UNCHANGED events
    /\ UNCHANGED <<desktop, commands>>

HandlePresentResult(m) ==
    /\ IF desktop.connected /\ ~m.accepted THEN Tell(Failure(m)) ELSE UNCHANGED events
    /\ UNCHANGED <<desktop, commands>>

HandleReleased(m) ==
    /\ IF desktop.connected THEN Tell(m) ELSE UNCHANGED events
    /\ UNCHANGED <<desktop, commands>>

\* handle_keyboard_input of a hotkey that changes the focused window's width.
HandleHotkey ==
    /\ UNCHANGED events
    /\ IF desktop.window
       THEN \E size \in Sizes : Reconcile([desktop EXCEPT !.want = size], TRUE, <<>>)
       ELSE UNCHANGED <<desktop, commands>>

\* handle_broker_message
ServeBroker ==
    /\ out.channel # <<>>
    /\ out' = [out EXCEPT !.channel = Tail(@)]
    /\ LET m == Head(out.channel)
       IN  \/ m.type = "SurfaceReady" /\ HandleSurfaceReady(m)
           \/ m.type = "PresentResult" /\ HandlePresentResult(m)
           \/ m.type = "BufferReleased" /\ HandleReleased(m)
           \/ m.type = "Hotkey" /\ HandleHotkey
           \/ m.type = "Pointer" /\ UNCHANGED serviceVars
    /\ UNCHANGED <<known, window, pools, compositor, client, requests, inputs>>

\* Another client's window enters or leaves fullscreen; while it is there it
\* is the only one placed.
OtherFullscreen ==
    /\ inputs.hides < MaxHides
    /\ inputs' = [inputs EXCEPT !.hides = @ + 1]
    /\ Reconcile([desktop EXCEPT !.shown = ~@], FALSE, <<>>)
    /\ UNCHANGED <<brokerVars, client, requests, events>>

-----------------------------------------------------------------------------
(* The kernel                                                               *)

kernelKeeps == <<client, requests, events, desktop>>

\* desktop_task, polling one packet or none.
PollDesktop ==
    /\ UNCHANGED <<kernelKeeps, inputs>>
    /\ \/ /\ commands # <<>>
          /\ commands' = Tail(commands)
          /\ HandlePacket(Head(commands))
       \/ /\ commands = <<>> /\ Flushed(out) # out
          /\ Refused
          /\ UNCHANGED commands

Compose == ComposeDue /\ UNCHANGED <<kernelKeeps, commands, inputs>>

ComposeError ==
    /\ PendingFrame /\ ~Current.pendingRead
    /\ ComposeFails
    /\ UNCHANGED <<kernelKeeps, commands, inputs>>

Reap == ~client.alive /\ CleanupClient /\ UNCHANGED <<kernelKeeps, commands, inputs>>

\* input_task; what does not fit in the channel is lost.
Input ==
    \/ /\ inputs.hotkeys < MaxHotkeys
       /\ inputs' = [inputs EXCEPT !.hotkeys = @ + 1]
       /\ out' = Written(out, [type |-> "Hotkey"])
       /\ UNCHANGED <<known, window, pools, compositor, kernelKeeps, commands>>
    \/ /\ inputs.pointer < MaxPointer
       /\ inputs' = [inputs EXCEPT !.pointer = @ + 1]
       /\ out' = Written(out, [type |-> "Pointer"])
       /\ UNCHANGED <<known, window, pools, compositor, kernelKeeps, commands>>

Client ==
    \/ CreateWindow \/ RequestSize \/ DestroyRequest
    \/ Acquire \/ PresentIt \/ DropIt \/ PollEvent \/ ClientExits

Next ==
    \/ Client
    \/ ServeClient \/ Disconnect \/ ServeBroker \/ OtherFullscreen
    \/ PollDesktop \/ Compose \/ ComposeError \/ Reap \/ Input

\* The service and the desktop task are polled again and again, frames come
\* due, dead clients are reaped, and a client that runs reads its events between
\* frames and does not hold a frame forever.
Spec ==
    /\ Init
    /\ [][Next]_vars
    /\ WF_vars(ServeClient) /\ WF_vars(Disconnect) /\ WF_vars(ServeBroker)
    /\ WF_vars(PollDesktop) /\ WF_vars(Compose) /\ WF_vars(Reap)
    /\ SF_vars(PollEvent) /\ WF_vars(PresentIt \/ DropIt)

-----------------------------------------------------------------------------
(* Properties                                                               *)

\* No tearing: a buffer that is pending or displayed in the kernel's pool is
\* one the client holds as presented, with the very request the broker will
\* release it for, however messages, resizes and replaced frames interleave.
\* So the client never draws into what the compositor may read.
BuffersProtected ==
    \A g \in DOMAIN pools : \A q \in Protecting(pools[g]) :
        \E s \in SubmissionsOf(g) :
            /\ s.serial = q.serial /\ s.buffer = q.buffer
            /\ g \in DOMAIN client.pools
            /\ client.pools[g][q.buffer] = Presented(s.request)

\* WindowClient never returns a ProtocolError: every release, configuration
\* and reply it is sent is one it can still account for, although releases
\* may be deferred past the SurfaceReady of a newer pool.
ClientUnconfused == ~client.error

OnScreen == compositor # None /\ pools[compositor].displayed # None

\* README on resizing: the old frame stays until the first frame of the new
\* generation is published.  A frame leaves the screen only with its window
\* or because the service took away the window's place, never by a resize.
ScreenKept ==
    [][OnScreen /\ ~OnScreen' =>
          window' = None \/ (window'.gen = window.gen /\ window'.placement = None)]_vars

Holds(request) ==
    \E g \in DOMAIN client.pools : \E b \in Buffers :
        client.pools[g][b] = Presented(request)

Shows(request) ==
    \E g \in DOMAIN pools : \E s \in SubmissionsOf(g) :
        /\ s.request = request
        /\ pools[g].displayed # None /\ pools[g].displayed.serial = s.serial

\* The desktop decided on a configuration the broker does not have.
Desynchronized == window # None /\ window.gen # desktop.gen

\* Every presented frame is shown, released or refused in the end, unless its
\* window goes away, is hidden, or missed a configuration.
PresentResolves ==
    \A request \in 2..MaxRequests :
        Holds(request) ~>
            \/ ~Holds(request) \/ Shows(request)
            \/ ~desktop.window \/ ~desktop.shown \/ Desynchronized
=============================================================================
