------------------------------ MODULE AsyncCmd ------------------------------
(***************************************************************************)
(* One bulk pipeline: a client thread hands chunks of text to a            *)
(* BlockProcessor, whose worker parses them and notifies its observers, a  *)
(* BlockPrinter with one worker and (when Savers is not empty) a           *)
(* BlockSaver with several.  In the end the client stops the processor,    *)
(* then the printer, then the savers, as async::disconnect and the end of  *)
(* the tests do.                                                           *)
(*                                                                         *)
(* The parser is BulkParser, each of the three queues is a TaskQueue.  A   *)
(* block is known by its place in events.                                  *)
(***************************************************************************)
EXTENDS BulkParser, FiniteSets

CONSTANTS
    Processor, Printer,   \* the worker threads of bp and bpr
    Savers,               \* the worker threads of bs; {}: nobody subscribed one
    NoTask,
    Chunks,               \* the texts a chunk may hold
    MaxChunks             \* bound: chunks fed

ASSUME ChunksAssumption == Chunks \subseteq Seq(Kinds)

VARIABLES
    pTasks, pStopped, pPc, pTask,     \* the queue of BlockProcessor
    rTasks, rStopped, rPc, rTask,     \* the queue of BlockPrinter
    sTasks, sStopped, sPc, sTask,     \* the queue of BlockSaver
    stage,                 \* where the client thread is
    rSeen, sSeen,          \* how many of events each observer's update has had
    \* history
    fed,                   \* the lines handed to AddTask
    chunks,                \* how many chunks that was
    printed,               \* the blocks written to the stream, in order
    saved                  \* the blocks written to files, in order

pVars == <<pTasks, pStopped, pPc, pTask>>
rVars == <<rTasks, rStopped, rPc, rTask>>
sVars == <<sTasks, sStopped, sPc, sTask>>
seenVars == <<rSeen, sSeen>>
feedVars == <<fed, chunks>>
outVars == <<printed, saved>>
allVars == <<vars, pVars, rVars, sVars, stage, seenVars, feedVars, outVars>>

P == INSTANCE TaskQueue WITH Workers <- {Processor}, NotifyAll <- FALSE,
        tasks <- pTasks, m_stopped <- pStopped, pc <- pPc, task <- pTask
R == INSTANCE TaskQueue WITH Workers <- {Printer}, NotifyAll <- FALSE,
        tasks <- rTasks, m_stopped <- rStopped, pc <- rPc, task <- rTask
S == INSTANCE TaskQueue WITH Workers <- Savers, NotifyAll <- TRUE,
        tasks <- sTasks, m_stopped <- sStopped, pc <- sPc, task <- sTask

(* stage is "feeding", then for each of the three Stops: about to notify, joining;  *)
(* between the first two, "flushing" delivers the last block.              *)
AInit ==
    /\ Init
    /\ P!Init /\ R!Init /\ S!Init
    /\ stage = "feeding" /\ rSeen = 0 /\ sSeen = 0
    /\ fed = <<>> /\ chunks = 0 /\ printed = <<>> /\ saved = <<>>

(* receive: AddTask with the next chunk. *)
AddTask ==
    /\ stage = "feeding" /\ chunks < MaxChunks
    /\ \E chunk \in Chunks :
        /\ Len(fed) + Len(chunk) <= MaxLines
        /\ P!Push(chunk)
        /\ fed' = fed \o chunk
    /\ chunks' = chunks + 1
    /\ UNCHANGED <<vars, rVars, sVars, stage, seenVars, outVars>>

-----------------------------------------------------------------------------
(* The processor's worker. *)

ProcessorLoop ==
    /\ P!Loop(Processor) \/ P!SpuriousWake(Processor)
    /\ UNCHANGED <<vars, rVars, sVars, stage, seenVars, feedVars, outVars>>

(* notify has called update of every observer for each event. *)
AllNotified ==
    /\ rSeen = Len(events)
    /\ Savers # {} => sSeen = Len(events)

AtLine == Len(lines) - chunk_start + 1

(* One turn of RunCmds. *)
RunCmdsLine ==
    /\ pPc[Processor] = "running"
    /\ AllNotified
    /\ AtLine <= Len(pTask[Processor])
    /\ RunLine
    /\ lines'[Len(lines')] = pTask[Processor][AtLine]
    /\ UNCHANGED <<pVars, rVars, sVars, stage, seenVars, feedVars, outVars>>

RunCmdsReturns ==
    /\ P!Finish(Processor)
    /\ AllNotified
    /\ AtLine > Len(pTask[Processor])
    /\ NextChunk
    /\ UNCHANGED <<rVars, sVars, stage, seenVars, feedVars, outVars>>

(* BlockPrinter::update ignores event_save. *)
UpdatePrinter ==
    /\ rSeen < Len(events)
    /\ rSeen' = rSeen + 1
    /\ IF events[rSeen'].event = "event_save" THEN UNCHANGED rVars
                                              ELSE R!Push(rSeen')
    /\ UNCHANGED <<vars, pVars, sVars, stage, sSeen, feedVars, outVars>>

(* Mutant of UpdateSaver: the saver takes printed blocks only. *)
UpdateSaverPrintsOnly ==
    /\ Savers # {}
    /\ sSeen < rSeen
    /\ sSeen' = sSeen + 1
    /\ IF events[sSeen'].event = "event_save" THEN UNCHANGED sVars
                                              ELSE S!Push(sSeen')
    /\ UNCHANGED <<vars, pVars, rVars, stage, rSeen, feedVars, outVars>>

(* BlockSaver::update takes every event the processor sends. *)
UpdateSaver ==
    /\ Savers # {}
    /\ sSeen < rSeen
    /\ sSeen' = sSeen + 1
    /\ S!Push(sSeen')
    /\ UNCHANGED <<vars, pVars, rVars, stage, rSeen, feedVars, outVars>>

(* notify calls update of one observer after the other, on the thread that *)
(* found the block: the worker, or the client in Stop.                     *)
Notify == (UpdatePrinter \/ UpdateSaver) /\ ~crashed

-----------------------------------------------------------------------------
(* The workers of the observers. *)

PrinterLoop ==
    /\ R!Loop(Printer) \/ R!SpuriousWake(Printer)
    /\ UNCHANGED <<vars, pVars, sVars, stage, seenVars, feedVars, outVars>>

PrintTask ==
    /\ R!Finish(Printer)
    /\ printed' = Append(printed, rTask[Printer])
    /\ UNCHANGED <<vars, pVars, sVars, stage, seenVars, feedVars, saved>>

SaverLoop(w) ==
    /\ S!Loop(w) \/ S!SpuriousWake(w)
    /\ UNCHANGED <<vars, pVars, rVars, stage, seenVars, feedVars, outVars>>

(* save_block: the block's own file, written by a BlockPrinter of its own  *)
(* that is stopped before the file is closed.                              *)
SaveBlock(w) ==
    /\ S!Finish(w)
    /\ saved' = Append(saved, sTask[w])
    /\ UNCHANGED <<vars, pVars, rVars, stage, seenVars, feedVars, printed>>

-----------------------------------------------------------------------------
(* disconnect: the three Stops, in the client's thread. *)

At(from, to) == stage = from /\ stage' = to

StopProcessor ==
    \/ /\ At("feeding", "pRaised")
       /\ P!RaiseStopped
       /\ UNCHANGED vars
    \/ /\ At("pRaised", "pJoining")
       /\ P!StopNotify
       /\ UNCHANGED vars

(* ... Stop flushes what the joined worker left in cmds_. *)
StopProcessorJoins ==
    /\ At("pJoining", "flushing")
    /\ P!Joinable
    /\ FlushOnStop
    /\ UNCHANGED pVars

StopPrinter ==
    \/ /\ At("flushing", "rRaised")
       /\ AllNotified
       /\ R!RaiseStopped
    \/ At("rRaised", "rJoining") /\ R!StopNotify
    \/ At("rJoining", "sStop") /\ R!Joinable /\ UNCHANGED rVars

StopSavers ==
    \/ At("sStop", "sRaised") /\ S!RaiseStopped
    \/ At("sRaised", "sJoining") /\ S!StopNotify
    \/ At("sJoining", "done") /\ S!Joinable /\ UNCHANGED sVars

Disconnect ==
    /\ \/ (StopProcessor \/ StopProcessorJoins) /\ UNCHANGED <<rVars, sVars>>
       \/ StopPrinter /\ UNCHANGED <<vars, pVars, sVars>>
       \/ StopSavers /\ UNCHANGED <<vars, pVars, rVars>>
    /\ UNCHANGED <<seenVars, feedVars, outVars>>

-----------------------------------------------------------------------------
Worker == ProcessorLoop \/ RunCmdsLine \/ RunCmdsReturns
Observers == PrinterLoop \/ PrintTask \/ \E w \in Savers : SaverLoop(w) \/ SaveBlock(w)

(* An exception that leaves the worker ends the process. *)
ANext == ~crashed /\ (AddTask \/ Worker \/ Notify \/ Observers \/ Disconnect)

ASpec == AInit /\ [][ANext]_allVars

(* Threads run, and nothing promises a spurious wakeup.  A mutex that is    *)
(* free again and again is obtained in the end (SF): the notifying thread   *)
(* competes for it with observers that wake up, spuriously, without bound.  *)
Up(A) == ~crashed /\ A
Fairness ==
    /\ WF_allVars(Up(P!Loop(Processor) /\ ProcessorLoop))
    /\ WF_allVars(Up(RunCmdsLine)) /\ WF_allVars(Up(RunCmdsReturns))
    /\ SF_allVars(Notify)
    /\ WF_allVars(Up(R!Loop(Printer) /\ PrinterLoop)) /\ WF_allVars(Up(PrintTask))
    /\ \A w \in Savers :
        WF_allVars(Up(S!Loop(w) /\ SaverLoop(w))) /\ WF_allVars(Up(SaveBlock(w)))
    /\ WF_allVars(Up(Disconnect /\ stage # "feeding"))

FairASpec == ASpec /\ Fairness

-----------------------------------------------------------------------------
(* The blocks to print among the events, in order. *)
PrintEvents ==
    LET upTo[n \in 0..Len(events)] ==
            IF n = 0 THEN <<>>
            ELSE IF events[n].event = "event_print_save" THEN Append(upTo[n - 1], n)
            ELSE upTo[n - 1]
    IN  upTo[Len(events)]

PrintBlocks == {k \in DOMAIN events : events[k].event = "event_print_save"}
Printed == {printed[i] : i \in DOMAIN printed}
Saved == {saved[i] : i \in DOMAIN saved}

(* When disconnect returns the stream holds every block of the text, in    *)
(* order, and the text was read to its end: the commands printed are the   *)
(* commands fed, but for a dynamic block still open (what the tests of     *)
(* 10_Async_Cmd_2 compare os.str() with after async::disconnect).          *)
DisconnectFlushes ==
    stage = "done" =>
        /\ lines = fed
        /\ \A i, j \in DOMAIN printed : i < j => printed[i] < printed[j]
        /\ Printed = PrintBlocks
        /\ received = IF block_level = 0 THEN out ELSE out \o cmds_

(* No block is saved twice, and when the savers have stopped every block,  *)
(* the nested ones too, has been saved, whatever thread took it.           *)
SavedOnce ==
    /\ \A i, j \in DOMAIN saved : i # j => saved[i] # saved[j]
    /\ stage = "done" /\ Savers # {} => Saved = DOMAIN events

(* The stream is a service to the parser: every block it finishes is       *)
(* printed in the end, in order, whether or not anybody disconnects.       *)
PrinterService == INSTANCE TaskService WITH
    Task <- 1..(MaxLines + 1), accepted <- PrintEvents, performed <- printed
ImplementsPrinter == PrinterService!FairSpec

(* ... and every line fed is parsed, every block saved, even if nobody     *)
(* disconnects: texts are finite, so there is a last line and a last block. *)
ParsedAndSaved == <>[](lines = fed /\ (Savers # {} => Saved = DOMAIN events))
=============================================================================
