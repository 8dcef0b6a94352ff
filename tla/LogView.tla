------------------------------ MODULE LogView -------------------------------
(***************************************************************************)
(* The log on screen: the ring of internal/engine/logger.go, the poller    *)
(* goroutine of internal/nativeui/ui.go that carries new entries from it   *)
(* into the text of the Logs tab, and the button that clears both.         *)
(*                                                                         *)
(* The poller and the UI thread share logText without a lock.  A Go string *)
(* is two words, a pointer and a length, and each side writes them one     *)
(* after the other in an order the compiler picks; a read may see one word *)
(* of each.  A length over no pointer ends the goroutine: crash.Go         *)
(* recovers the panic and does not start it again.                         *)
(*                                                                         *)
(* An entry is its ID, a text the sequence of the entries in it.           *)
(***************************************************************************)
EXTENDS Naturals, Sequences, FiniteSets, SequencesExt

CONSTANTS
    RingSize,    \* entries the logger keeps, 600 in the code
    TextSize,    \* entries the text keeps, 30000 bytes in the code
    MaxLogs,     \* bound: entries logged
    MaxClears    \* bound: how often the user clears the log

ASSUME LogAssumption == RingSize \in Nat /\ TextSize \in Nat

VARIABLES
    lastID,      \* Logger.nextID
    entries,     \* Logger.entries
    lastLog,     \* u.lastLog
    logText,     \* u.logText, as its two words
    poller,      \* the next step of the poller: "poll", "write", "dead"
    text,        \* the poller's local text
    toWrite,     \* words of logText the poller has still to write
    toClear,     \* words of logText clearLogs has still to clear
    calls,       \* texts handed to fyne.Do and not shown yet
    logView,     \* the text of the widget
    gone,        \* entries pushed out of the ring or the text
    cleared,     \* the last entry there was when the log was being cleared
    clears

logVars == <<lastID, entries, lastLog, logText, poller, text, toWrite, toClear,
             calls, logView, gone, cleared, clears>>

NoText == [ptr |-> << >>, len |-> 0]
Word == {"ptr", "len"}
Assign(s, w, t) == IF w = "ptr" THEN [s EXCEPT !.ptr = t] ELSE [s EXCEPT !.len = Len(t)]

LogInit ==
    /\ lastID = 0 /\ entries = << >> /\ lastLog = 0
    /\ logText = NoText /\ poller = "poll" /\ text = << >>
    /\ toWrite = {} /\ toClear = {} /\ calls = << >> /\ logView = << >>
    /\ gone = {} /\ cleared = 0 /\ clears = 0

Newest(s, n) == IF Len(s) > n THEN SubSeq(s, Len(s) - n + 1, Len(s)) ELSE s

\* Logger.Add, by any goroutine.
Add ==
    /\ lastID < MaxLogs
    /\ lastID' = lastID + 1
    /\ entries' = Newest(Append(entries, lastID'), RingSize)
    /\ gone' = gone \cup (ToSet(entries) \ ToSet(entries'))
    /\ UNCHANGED <<lastLog, logText, poller, text, toWrite, toClear, calls, logView, cleared, clears>>

Since_Inclusive(id) == SelectSeq(entries, LAMBDA e : e >= id)
Since_SkipsOne(id) == SelectSeq(entries, LAMBDA e : e > id + 1)

\* Logger.Since: the entries after id, in one pass over the ring.
Since(id) ==
    LET out[k \in 0..Len(entries)] ==
          IF k = 0 THEN << >>
          ELSE IF entries[k] > id THEN Append(out[k - 1], entries[k]) ELSE out[k - 1]
    IN  out[Len(entries)]

\* What the poller has seen once it has gone through the new entries.
Seen(logs) == Last(logs)

\* One tick: fetch, read the old text, build the new one.
Poll ==
    /\ poller = "poll"
    /\ LET logs == Since(lastLog)
           old == SubSeq(logText.ptr, 1, logText.len)
           all == old \o logs
       IN  /\ logs # << >>
           /\ lastLog' = Seen(logs)
           /\ IF logText.len > Len(logText.ptr)
              THEN poller' = "dead" /\ UNCHANGED <<text, toWrite, gone>>
              ELSE /\ poller' = "write" /\ toWrite' = Word
                   /\ text' = Newest(all, TextSize)
                   /\ gone' = gone \cup (ToSet(all) \ ToSet(text'))
    /\ UNCHANGED <<lastID, entries, logText, toClear, calls, logView, cleared, clears>>

WriteWord(w) ==
    /\ w \in toWrite
    /\ logText' = Assign(logText, w, text)
    /\ toWrite' = toWrite \ {w}
    /\ UNCHANGED <<lastID, entries, lastLog, poller, text, toClear, calls, logView, gone, cleared, clears>>

\* fyne.Do queues the text for the UI thread.
Do ==
    /\ poller = "write" /\ toWrite = {}
    /\ calls' = Append(calls, text)
    /\ poller' = "poll"
    /\ UNCHANGED <<lastID, entries, lastLog, logText, text, toWrite, toClear, logView, gone, cleared, clears>>

\* The UI thread runs what was queued, unless it is in clearLogs.
SetText ==
    /\ toClear = {} /\ calls # << >>
    /\ logView' = Head(calls) /\ calls' = Tail(calls)
    /\ UNCHANGED <<lastID, entries, lastLog, logText, poller, text, toWrite, toClear, gone, cleared, clears>>

\* clearLogs: Logger.Clear first, which keeps the counter.
Clear ==
    /\ toClear = {} /\ clears < MaxClears
    /\ clears' = clears + 1
    /\ entries' = << >> /\ toClear' = Word
    /\ cleared' = lastID
    /\ UNCHANGED <<lastID, lastLog, logText, poller, text, toWrite, calls, logView, gone>>

\* Then logText, then the widget.
ClearWord(w) ==
    /\ w \in toClear
    /\ logText' = Assign(logText, w, << >>)
    /\ toClear' = toClear \ {w}
    /\ logView' = IF toClear' = {} THEN << >> ELSE logView
    /\ cleared' = lastID
    /\ UNCHANGED <<lastID, entries, lastLog, poller, text, toWrite, calls, gone, clears>>

Polling == Poll \/ Do \/ \E w \in Word : WriteWord(w)
Window == SetText \/ \E w \in Word : ClearWord(w)
LogNext == Add \/ Clear \/ Polling \/ Window

LogSpec == LogInit /\ [][LogNext]_logVars
-----------------------------------------------------------------------------
(***************************************************************************)
(* No entry is in the log twice or before an older one, wherever the       *)
(* poller and clearLogs meet: "The ID counter is kept monotonic so polling *)
(* clients do not receive old entries again" (logger.go).                  *)
(***************************************************************************)
EachLineOnce ==
    \A t \in {logView, text} \cup ToSet(calls) :
       \A i, j \in DOMAIN t : i < j => t[i] < t[j]

(***************************************************************************)
(* What is logged comes to the screen, unless the user cleared the log     *)
(* after it, it was pushed out of the ring or the text, or the torn string *)
(* has ended the poller.                                                   *)
(***************************************************************************)
LinesAppear ==
    \A i \in 1..MaxLogs :
       (i \in ToSet(entries)) ~> \/ i \in ToSet(logView) \/ i \in gone
                                 \/ i <= cleared \/ poller = "dead"

(***************************************************************************)
(* A cleared log stays cleared: an entry logged before Clear does not come *)
(* back once the widget was emptied.                                       *)
(***************************************************************************)
ClearedStaysCleared ==
    [][toClear = {} => \A i \in 1..cleared : i \in ToSet(logView') => i \in ToSet(logView)]_logVars

(***************************************************************************)
(* The poller, which refreshes the status too, goes on while the program   *)
(* runs.                                                                   *)
(***************************************************************************)
PollerSurvives == poller # "dead"
=============================================================================
