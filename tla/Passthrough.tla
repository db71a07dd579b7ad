----------------------------- MODULE Passthrough -----------------------------
(***************************************************************************)
(* Whether clicks reach the overlay or fall through to the windows below:  *)
(* decided in the page at each mouse move (allio-client passthrough.ts),   *)
(* sent to the host (allio.ts), applied to the overlay's window by the     *)
(* host (src-tauri main.rs), where the tray and a shortcut toggle it too.  *)
(*                                                                         *)
(* A decision takes a different way depending on its value: "through" is   *)
(* sent on the next animation frame, "capture" at once; on macOS the host  *)
(* applies each change on the main thread, where a new thread posts it.    *)
(***************************************************************************)
EXTENDS Naturals, Sequences

CONSTANTS
  None,
  MaxSent,     \* bound: requests on their way
  MaxThreads   \* bound: changes on their way to the main thread

VARIABLES
  mac,      \* which of the host's two builds this is
  mode,     \* _mode
  last,     \* lastState
  frame,    \* a request to pass through waits for the next animation frame
  sent,     \* set_passthrough requests on their way
  seen,     \* the host's last_state
  enabled,  \* clickthrough_enabled, what the tray shows
  threads,  \* macOS: changes not yet applied, in the order of the requests
  ignores,  \* whether the window ignores the mouse
  \* History: what may have gone wrong since the last change that went through.
  crossed,  \* "capture" was sent while "through" waited for the frame
  swapped,  \* the newest change was applied before an older one
  toggled   \* the tray changed the window behind last_state

page == <<mode, last, frame, crossed>>
host == <<seen, enabled, threads, ignores, swapped, toggled>>
vars == <<mac, page, sent, host>>

Mode == {"auto", "opaque", "transparent", "outside", "inside"}

\* What the pointer is over: the viewport or not, a window of the mirror or not, the nearest
\* ax-io attribute.
Place == [viewport : BOOLEAN, window : BOOLEAN, io : {None, "opaque", "transparent"}]

ComputePassthrough(p) ==
  /\ p.viewport
  /\ CASE mode = "opaque" -> FALSE
       [] mode = "transparent" -> TRUE
       [] mode = "outside" -> p.window
       [] mode = "inside" -> ~p.window
       [] mode = "auto" -> p.io # "opaque"

----------------------------------------------------------------------------
\* setup_main_window lets clicks through; the tray's state starts as the other value.
Init ==
  /\ mac \in BOOLEAN
  /\ mode = "auto" /\ last = None /\ frame = FALSE /\ crossed = FALSE
  /\ sent = <<>>
  /\ seen = TRUE /\ enabled = FALSE /\ threads = <<>> /\ ignores = TRUE
  /\ swapped = FALSE /\ toggled = FALSE

\* The setter only forgets the last decision.
SetMode(m) ==
  /\ mode' = m /\ last' = None
  /\ UNCHANGED <<mac, frame, crossed, sent, host>>

\* Mutant of HandleMouseMove: a "through" that waits for the frame is overlooked.
HandleMouseMoveDropping(p) ==
  LET through == ComputePassthrough(p) IN
  /\ last' = through
  /\ IF through
     THEN frame' = TRUE /\ crossed' = FALSE /\ UNCHANGED sent
     ELSE IF frame THEN crossed' = FALSE /\ UNCHANGED <<frame, sent>>
     ELSE /\ Len(sent) < MaxSent
          /\ sent' = Append(sent, FALSE) /\ crossed' = FALSE /\ UNCHANGED frame
  /\ UNCHANGED <<mac, mode, host>>

\* mouse:position: only a changed decision is sent.
HandleMouseMove(p) ==
  LET through == ComputePassthrough(p) IN
  /\ last # through
  /\ last' = through
  /\ IF through
     THEN frame' = TRUE /\ crossed' = FALSE /\ UNCHANGED sent
     ELSE /\ Len(sent) < MaxSent
          /\ sent' = Append(sent, FALSE) /\ crossed' = frame /\ UNCHANGED frame
  /\ UNCHANGED <<mac, mode, host>>

\* The callbacks of an animation frame; two of them send the same.
AnimationFrame ==
  /\ frame /\ Len(sent) < MaxSent
  /\ frame' = FALSE
  /\ sent' = Append(sent, TRUE)
  /\ UNCHANGED <<mac, mode, last, crossed, host>>

\* Another overlay is loaded from the tray: a new page with nothing decided.
SwitchOverlay ==
  /\ mode' = "auto" /\ last' = None /\ frame' = FALSE /\ crossed' = FALSE
  /\ UNCHANGED <<mac, sent, host>>

\* The custom RPC handler: nothing if the request repeats the last one.
HandleSetPassthrough ==
  /\ sent # <<>>
  /\ sent' = Tail(sent)
  /\ LET v == Head(sent) IN
     IF v = seen THEN UNCHANGED host
     ELSE /\ seen' = v /\ enabled' = v /\ toggled' = FALSE
          /\ IF mac THEN /\ Len(threads) < MaxThreads
                         /\ threads' = Append(threads, v) /\ swapped' = FALSE /\ UNCHANGED ignores
             ELSE ignores' = v /\ UNCHANGED <<threads, swapped>>
  /\ UNCHANGED <<mac, page>>

\* The main thread takes a change; the threads that post them race.
RunOnMainThread ==
  \E i \in 1..Len(threads) :
    /\ ignores' = threads[i]
    /\ threads' = SubSeq(threads, 1, i - 1) \o SubSeq(threads, i + 1, Len(threads))
    /\ swapped' = (swapped \/ (i = Len(threads) /\ i > 1))
    /\ UNCHANGED <<mac, page, sent, seen, enabled, toggled>>

\* The tray's item or the shortcut: last_state does not hear of it.
TogglePassthrough ==
  /\ enabled' = ~enabled /\ ignores' = ~enabled /\ toggled' = TRUE
  /\ UNCHANGED <<mac, page, sent, seen, threads, swapped>>

Next ==
  \/ \E m \in Mode : SetMode(m)
  \/ \E p \in Place : HandleMouseMove(p)
  \/ AnimationFrame \/ SwitchOverlay
  \/ HandleSetPassthrough \/ RunOnMainThread \/ TogglePassthrough

Spec == Init /\ [][Next]_vars

----------------------------------------------------------------------------
\* Every variable has its type; only macOS uses threads.
TypeOK ==
  /\ mac \in BOOLEAN /\ mode \in Mode /\ last \in BOOLEAN \cup {None}
  /\ frame \in BOOLEAN /\ sent \in Seq(BOOLEAN) /\ seen \in BOOLEAN /\ enabled \in BOOLEAN
  /\ threads \in Seq(BOOLEAN) /\ (~mac => threads = <<>>) /\ ignores \in BOOLEAN
  /\ crossed \in BOOLEAN /\ swapped \in BOOLEAN /\ toggled \in BOOLEAN

\* Once nothing is on its way the window does what the page last decided, unless one of three
\* things happened since: a capture crossed a waiting frame, two threads swapped their changes,
\* the tray toggled.  Deduplicating on both sides loses nothing else, whatever the order of
\* moves, mode changes, new pages and frames.
SettlesAsDecided ==
  ~frame /\ sent = <<>> /\ threads = <<>> /\ last # None /\ ~crossed /\ ~swapped /\ ~toggled
    => ignores = last

\* passthrough.ts:67, "Set mode - immediately updates passthrough state".  Nothing is sent
\* before the mouse moves again.
OpaqueModeCaptures ==
  ~frame /\ sent = <<>> /\ threads = <<>> /\ ~toggled /\ ~crossed /\ ~swapped /\ mode = "opaque" => ~ignores
============================================================================
