----------------------------- MODULE HaloSession -----------------------------
(***************************************************************************)
(* One Halo glasses session: the scripted samples it polls out and the     *)
(* display it drives one byte-budgeted tick at a time                      *)
(* (crates/sim-lib-stream-halo: provider.rs, frame_budget.rs).             *)
(*                                                                         *)
(* The session takes &mut self, so a tick is one step.  Between ticks the  *)
(* host changes its mind about the frame, stops and starts the session,    *)
(* and sends requests that are refused; the display then shows a mixture   *)
(* of frames until later ticks have carried over what was deferred.        *)
(***************************************************************************)
EXTENDS Naturals, Sequences, FiniteSets, SequencesExt

CONSTANTS
  Cell,        \* display cells, numbered in (region, index) order
  Glyph,       \* what a cell can show
  Blank,       \* a cell that shows nothing
  Frames,      \* target frames: subset of Cell -> [glyph, priority]
  Size,        \* cell -> glyph -> bytes of its Lua primitive
  Budget,      \* LuaFrameBudget
  Scripts,     \* samples a route may have recorded: sequences of [kind, seq]
  MaxChanges   \* bound: how often the host changes the frame or stops

Priority == 1 .. 3   \* Warrant, Urgent, Normal
Looks == [glyph : Glyph, priority : Priority]

ASSUME HaloAssumption ==
  /\ Cell \subseteq Nat /\ IsFiniteSet(Cell)
  /\ Blank \notin Glyph
  /\ \A f \in Frames : DOMAIN f \subseteq Cell /\ \A c \in DOMAIN f : f[c] \in Looks
  /\ Size \in [Cell -> [Glyph \cup {Blank} -> Nat \ {0}]]
  /\ Budget \in Nat \ {0}
  /\ \A s \in Scripts : s \in Seq([kind : STRING, seq : Nat])
  /\ MaxChanges \in Nat

VARIABLES
  opened,     \* open_session has returned a session
  started,
  samples,    \* samples still to be polled
  committed,  \* LuaFrameState: cell -> looks
  sent,       \* the last packet sent: [cells, bytes, deferred]
  display,    \* history: what the glasses show, fed by sent packets alone
  target,     \* the frame the host wants shown
  changes,    \* bound counter
  script,     \* history: the samples the route had recorded
  polled      \* history: samples delivered, in order

displayVars == <<committed, sent, display>>
pollVars == <<samples, polled>>
haloVars == <<opened, started, samples, displayVars, target, changes, script, polled>>

Empty == <<>>
NoPacket == [cells |-> <<>>, bytes |-> 0, deferred |-> <<>>]

HaloInit ==
  /\ opened = FALSE
  /\ started = FALSE
  /\ script \in Scripts
  /\ samples = <<>>
  /\ committed = Empty
  /\ sent = NoPacket
  /\ display = [c \in Cell |-> Blank]
  /\ target \in Frames
  /\ changes = 0
  /\ polled = <<>>

-----------------------------------------------------------------------------
(* Opening and polling                                                     *)

\* Fault: only neighbouring samples of a kind are compared.
ValidAdjacent(s) ==
  /\ Cardinality({i \in DOMAIN s : s[i].kind = "camera"}) <= 1
  /\ \A i \in 1 .. Len(s) - 1 : s[i].kind = s[i + 1].kind => s[i].seq <= s[i + 1].seq

\* validate_samples: at most one camera pull, no kind's sequence goes back.
Valid(s) ==
  /\ Cardinality({i \in DOMAIN s : s[i].kind = "camera"}) <= 1
  /\ \A i, j \in DOMAIN s : i < j /\ s[i].kind = s[j].kind => s[i].seq <= s[j].seq

\* open_session: an invalid script opens nothing.
OpenSession ==
  /\ ~opened
  /\ Valid(script)
  /\ opened' = TRUE
  /\ samples' = script
  /\ UNCHANGED <<started, displayVars, target, changes, script, polled>>

OfKind(kind) == {i \in DOMAIN samples : samples[i].kind = kind}

\* Fault: the newest sample of the kind is taken.
PickLast(kind) == Max(OfKind(kind))

\* The position of the first sample of the kind.
Pick(kind) == Min(OfKind(kind))

\* poll: the first sample of the kind leaves the queue, whatever surrounds it.
Poll(kind) ==
  /\ started
  /\ OfKind(kind) # {}
  /\ polled' = Append(polled, samples[Pick(kind)])
  /\ samples' = RemoveAt(samples, Pick(kind))
  /\ UNCHANGED <<opened, started, displayVars, target, changes, script>>

Start ==
  /\ opened
  /\ started' = TRUE
  /\ UNCHANGED <<opened, pollVars, displayVars, target, changes, script>>

\* MaxChanges bounds how often the owner stops and the host changes the frame.
Stop ==
  /\ opened
  /\ started
  /\ changes < MaxChanges
  /\ changes' = changes + 1
  /\ started' = FALSE
  /\ UNCHANGED <<opened, pollVars, displayVars, target, script>>

ChangeFrame(frame) ==
  /\ frame # target
  /\ changes < MaxChanges
  /\ changes' = changes + 1
  /\ target' = frame
  /\ UNCHANGED <<opened, started, pollVars, displayVars, script>>

-----------------------------------------------------------------------------
(* LuaFrameScheduler::schedule                                             *)

At(frame, c) == IF c \in DOMAIN frame THEN frame[c].glyph ELSE Blank

\* changed_cells: cells whose glyph or priority differs; a cell that goes
\* keeps the priority it had.
ChangedCells(frame) ==
  { [cell |-> c, glyph |-> At(frame, c),
     priority |-> IF c \in DOMAIN frame THEN frame[c].priority ELSE committed[c].priority]
    : c \in {d \in DOMAIN frame \cup DOMAIN committed :
               \/ d \notin DOMAIN frame
               \/ d \notin DOMAIN committed
               \/ frame[d] # committed[d]} }

CellBytes(cell) == Size[cell.cell][cell.glyph]

\* Fault: cells are sent in the order of the display.
BeforeByCell(a, b) == a.cell < b.cell

\* sort_by_key(priority, region, index)
Before(a, b) == a.priority < b.priority \/ (a.priority = b.priority /\ a.cell < b.cell)

\* The changed cells in scheduling order.
Scheduled(cells) ==
  [i \in 1 .. Cardinality(cells) |->
     CHOOSE x \in cells : Cardinality({y \in cells : Before(y, x)}) = i - 1]

\* Fault: the test leaves out the cell that is being added.
FitsSoFar(bytes, cell) == bytes <= Budget

\* Fault: a cell that would use the budget up exactly is deferred.
FitsStrictly(bytes, cell) == bytes + CellBytes(cell) < Budget

Fits(bytes, cell) == bytes + CellBytes(cell) <= Budget

\* One pass: what fits is sent, what does not is deferred, and later, smaller
\* cells may still fit.
Pack(cells) ==
  FoldLeft(LAMBDA p, cell :
             IF Fits(p.bytes, cell)
             THEN [p EXCEPT !.bytes = @ + CellBytes(cell), !.cells = Append(@, cell)]
             ELSE [p EXCEPT !.deferred = Append(@, cell)],
           NoPacket, cells)

Packet(frame) == Pack(Scheduled(ChangedCells(frame)))

\* Fault: a cell that is cleared stays committed.
ApplyNoClear(cell, state) ==
  IF cell.glyph = Blank THEN state
  ELSE [c \in DOMAIN state \cup {cell.cell} |->
          IF c = cell.cell THEN [glyph |-> cell.glyph, priority |-> cell.priority]
                           ELSE state[c]]

\* apply_cell
ApplyCell(cell, state) ==
  IF cell.glyph = Blank
  THEN [c \in DOMAIN state \ {cell.cell} |-> state[c]]
  ELSE [c \in DOMAIN state \cup {cell.cell} |->
          IF c = cell.cell THEN [glyph |-> cell.glyph, priority |-> cell.priority]
                           ELSE state[c]]

Applied(cells, state) ==
  FoldLeft(LAMBDA st, cell : ApplyCell(cell, st), state, cells)

\* The Halo side (external): a Lua primitive sets or clears one cell.
SetCell(shown, cell) == [shown EXCEPT ![cell.cell] = cell.glyph]

Drawn(cells, shown) == FoldLeft(SetCell, shown, cells)

\* invoke of an authorized request for the wanted frame.  A pass that could
\* send nothing of what changed is an error and leaves everything as it was.
Tick ==
  /\ started
  /\ \E packet \in {Packet(target)} :
         /\ packet.cells # <<>> \/ packet.deferred = <<>>
         /\ sent' = packet
         /\ committed' = Applied(packet.cells, committed)
         /\ display' = Drawn(packet.cells, display)
  /\ UNCHANGED <<opened, started, pollVars, target, changes, script>>

HaloNext ==
  \/ OpenSession
  \/ \E kind \in {"camera", "motion", "tap"} : Poll(kind)
  \/ Start
  \/ Stop
  \/ \E frame \in Frames : ChangeFrame(frame)
  \/ Tick

HaloSpec == HaloInit /\ [][HaloNext]_haloVars

\* The host sends the wanted frame again each display tick.
FairSpec == HaloSpec /\ WF_haloVars(OpenSession) /\ WF_haloVars(Tick)

-----------------------------------------------------------------------------
(* Properties                                                              *)

SumBytes(cells) == FoldLeft(LAMBDA sum, cell : sum + CellBytes(cell), 0, cells)

\* No packet exceeds the byte budget, and the byte count it carries is the
\* encoded length of its cells.
WithinBudget == sent.bytes <= Budget /\ sent.bytes = SumBytes(sent.cells)

\* "Safety-warrant content that must be attempted first": when a cell is put
\* off that would have fitted into a tick of its own, the tick was given to
\* some cell at least as urgent, whatever the sizes.
UrgentFirst ==
  \A i \in DOMAIN sent.deferred :
    CellBytes(sent.deferred[i]) <= Budget =>
      \E j \in DOMAIN sent.cells : sent.cells[j].priority <= sent.deferred[i].priority

\* A tick loses nothing: what it reports as deferred is exactly what the next
\* tick will find to do, and every other cell of the glasses, as the packets
\* sent so far have drawn them, shows what is wanted.  So the session's record
\* of the display never departs from the display itself.
DeferredIsRemaining ==
  [][Tick => LET deferred == ToSet(sent'.deferred)
             IN  /\ deferred = ChangedCells(target)'
                 /\ \A c \in Cell : display'[c] # At(target, c) =>
                                   \E d \in deferred : d.cell = c]_haloVars

\* The samples of one kind, in order.
Only(s, kind) ==
  FoldLeft(LAMBDA kept, x : IF x.kind = kind THEN Append(kept, x) ELSE kept, <<>>, s)

\* Whatever order kinds are polled in, across stops and restarts, each kind's
\* samples arrive in recorded order with sequences that never go back.
PolledInOrder ==
  \A kind \in {"camera", "motion", "tap"} :
    LET arrived == Only(polled, kind)
    IN  /\ IsPrefix(arrived, Only(script, kind))
        /\ \A i, j \in DOMAIN arrived : i < j => arrived[i].seq <= arrived[j].seq

\* Nothing that fits into a tick is left to send.
Stuck == \A cell \in ChangedCells(target) : CellBytes(cell) > Budget

\* Once the host stops changing its mind and leaves the session running,
\* repeated ticks bring the wanted frame onto the display, up to cells whose
\* primitive alone exceeds the budget.
Settles == <>[]started => <>[]Stuck

=============================================================================
