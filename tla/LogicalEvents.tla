----------------------------- MODULE LogicalEvents -----------------------------
(***************************************************************************)
(* _logical_events (src/ulpf/pipeline.py): the loop that groups the lines  *)
(* of a file into events, so that a log4j record keeps the stack trace     *)
(* that follows it, and run's budget of events (parsing/limits.py).        *)
(* The offset of an event is part of its identity.                         *)
(*                                                                         *)
(* A line is a record of what the loop asks of it: text is FALSE when it   *)
(* has nothing but white space, trails is TRUE when it begins with white   *)
(* space or like a stack frame, head is TRUE when the log4j parser detects *)
(* it (it strips the line first, so an indented line may be one).  The     *)
(* module that takes the loop in gives it its lines.                       *)
(***************************************************************************)
EXTENDS Integers, Sequences, FiniteSets, SequencesExt

CONSTANT MaxEvents   \* the budget max_events

VARIABLES
  lines,      \* the input
  index,      \* the line the loop looks at
  events,     \* the events that are complete: offset and indices of their lines
  chunks,     \* the lines of the event that is open
  offset,     \* the index of its first line
  accepts,    \* accepts_continuations
  ended       \* "no", "returned" or "raised" (InputLimitError)

Init ==
  /\ index = 1
  /\ events = <<>>
  /\ chunks = <<>>
  /\ offset = 0
  /\ accepts = FALSE
  /\ ended = "no"

Looking == ended = "no" /\ index <= Len(lines)

\* (variant) Any open event takes the lines that look like a continuation.
ContinuationOfAny == chunks # <<>> /\ lines[index].trails

Continuation == accepts /\ chunks # <<>> /\ lines[index].trails

\* chunks.append(line), white space included.
Continue ==
  /\ Looking
  /\ Continuation
  /\ chunks' = Append(chunks, index)
  /\ index' = index + 1
  /\ UNCHANGED <<lines, events, offset, accepts, ended>>

\* A line without text that continues nothing is dropped and closes nothing.
SkipBlank ==
  /\ Looking
  /\ ~ Continuation
  /\ ~ lines[index].text
  /\ index' = index + 1
  /\ UNCHANGED <<lines, events, chunks, offset, accepts, ended>>

Closed == IF chunks = <<>> THEN events
          ELSE Append(events, [offset |-> offset, lines |-> chunks])

\* check_event_limit(len(events) + 1): the event that is about to begin is counted.
WithinBudget == Len(Closed) + 1 <= MaxEvents

StartEvent ==
  /\ Looking
  /\ ~ Continuation
  /\ lines[index].text
  /\ WithinBudget
  /\ events' = Closed
  /\ offset' = index
  /\ chunks' = <<index>>
  /\ accepts' = lines[index].head
  /\ index' = index + 1
  /\ UNCHANGED <<lines, ended>>

ExceedBudget ==
  /\ Looking
  /\ ~ Continuation
  /\ lines[index].text
  /\ ~ WithinBudget
  /\ ended' = "raised"
  /\ UNCHANGED <<lines, index, events, chunks, offset, accepts>>

\* The event that is open at the end of the input is one, too.
Return ==
  /\ ended = "no"
  /\ index > Len(lines)
  /\ events' = Closed
  /\ chunks' = <<>>
  /\ ended' = "returned"
  /\ UNCHANGED <<lines, index, offset, accepts>>

Next == Continue \/ SkipBlank \/ StartEvent \/ ExceedBudget \/ Return

-------------------------------------------------------------------------------
(***************************************************************************)
(* Reference: which lines begin an event, read off the input as a whole.   *)
(***************************************************************************)

\* Line i belongs to a stack trace: it looks like a part of one, and nothing but such
\* lines and empty ones lies between it and a log4j line.
InTrace(i) ==
  /\ lines[i].trails
  /\ \E j \in 1..(i - 1) :
       /\ lines[j].head
       /\ \A k \in (j + 1)..(i - 1) : lines[k].trails \/ ~ lines[k].text

Beginnings == {i \in DOMAIN lines : lines[i].text /\ ~ InTrace(i)}

\* The lines of the event that begins at i.
Extent(i) ==
  {i} \cup {k \in DOMAIN lines : /\ i < k
                                 /\ InTrace(k)
                                 /\ \A b \in Beginnings : b <= i \/ k < b}

\* The events are the stack traces and single lines of the input, each line with text in
\* one of them and at an offset of its own: "multiline Log4j stack traces in files".
EventsAreTraces ==
  ended = "returned" =>
    /\ Len(events) = Cardinality(Beginnings)
    /\ {e.offset : e \in Range(events)} = Beginnings
    /\ \A e \in Range(events) :
         /\ Range(e.lines) = Extent(e.offset)
         /\ \A m, n \in DOMAIN e.lines : m < n => e.lines[m] < e.lines[n]
===============================================================================
