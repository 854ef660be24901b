-------------------------------- MODULE Scp --------------------------------
(***************************************************************************)
(* scp: the process that sends files (source) and the one that writes them  *)
(* (sink), which take turns over a connection (scp.c).  One is the program *)
(* that was started and the other runs at the far end of ssh; files from    *)
(* several hosts take one connection after the other.                      *)
(*                                                                         *)
(* A source is a sequence of items: a file, a directory and its end.  The  *)
(* data of a file is one message.  A record and its reply carry the number *)
(* of the item and the point where source waits, for the properties.       *)
(***************************************************************************)
EXTENDS Naturals, Sequences, SequencesExt, FiniteSets

CONSTANTS
    ScpJobs,        \* what scp is asked to do: tolocal, pflag, sources
    ScpFaults,      \* what may fail: "open", "read", "write", "times", "fstat", "lost"
    MaxFaults       \* bound: failures of one job

VARIABLES
    job, conn,      \* the job, and the number of the connection in use
    src, snk,       \* the two processes
    toSink, toSource,
    copies,         \* for each name: content and time at the target
    scp             \* the program: exit ("" while it runs), fp (of run_err(): the connection it
                    \* was opened for, 0 if none yet), failures so far, whether the
                    \* connection was lost; for the properties: odd, what happened that scp does
                    \* not handle

scpVars == <<job, conn, src, snk, toSink, toSource, copies, scp>>

FileItem(n) == [k |-> "file", name |-> n]
DirItem(n) == [k |-> "dir", name |-> n]
DirEnd == [k |-> "end", name |-> ""]
Items == IF job.tolocal THEN job.sources[conn] ELSE FlattenSeq(job.sources)
CopyNames(j) == {x.name : x \in UNION {ToSet(j.sources[i]) : i \in DOMAIN j.sources}} \ {""}
Item == Items[src.i]

Record(k, i, at) == [k |-> k, id |-> <<i, at>>]
Send(ms) == toSink' = toSink \o ms
May(f) == f \in ScpFaults /\ scp.faults < MaxFaults
Failed(f) == scp' = [scp EXCEPT !.faults = @ + 1, !.odd = @ \cup ({f} \cap {"fstat"})]
Running == scp.exit = ""
Exits(status) == scp' = [scp EXCEPT !.exit = status]

\* After a directory that is not sent, its end.
Skip(i) ==
    IF Items[i].k # "dir" THEN i + 1
    ELSE LET Depth(j) == Cardinality({x \in i..j : Items[x].k = "dir"})
                         - Cardinality({x \in i..j : Items[x].k = "end"})
         IN 1 + CHOOSE j \in i..Len(Items) : Depth(j) = 0 /\ \A x \in i..(j - 1) : Depth(x) > 0

----------------------------------------------------------------------------
(* source() and rsource(): where it waits for a reply is its pc.           *)

Ctl == [file |-> "C", dir |-> "D"]
\* run_err(), of a process with one connection.
SourceErr(i) == Send(<<Record("err", src.i, "item")>>) /\ src' = [src EXCEPT !.errs = TRUE, !.i = i]

\* An item begins: it cannot be opened, or its times or its name are sent.
source ==
    /\ Running /\ ~scp.lost /\ src.pc = "item" /\ src.i <= Len(Items) /\ Item.k # "end"
    /\ \/ May("open") /\ Failed("open") /\ SourceErr(Skip(src.i))
       \/ /\ LET at == IF job.pflag THEN "times" ELSE "control" IN
             /\ Send(<<Record(IF job.pflag THEN "T" ELSE Ctl[Item.k], src.i, at)>>)
             /\ src' = [src EXCEPT !.pc = at]
          /\ UNCHANGED scp
    /\ UNCHANGED <<job, conn, snk, toSource, copies>>

rsource_end ==
    /\ Running /\ ~scp.lost /\ src.pc = "item" /\ src.i <= Len(Items) /\ Item.k = "end"
    /\ Send(<<Record("E", src.i, "end")>>)
    /\ src' = [src EXCEPT !.pc = "end"]
    /\ UNCHANGED <<job, conn, snk, toSource, copies, scp>>

Waits(p) == p \in {"begin", "times", "control", "final", "end"}

\* response(), and what follows it.
response ==
    /\ Running /\ Waits(src.pc) /\ toSource # <<>>
    /\ toSource' = Tail(toSource)
    /\ LET ok == Head(toSource).k = "ok"
           noted == [src EXCEPT !.errs = @ \/ ~ok]
       IN
       \/ /\ src.pc = "begin"
          /\ IF ok \/ job.tolocal THEN src' = [noted EXCEPT !.pc = "item"] /\ UNCHANGED scp
             ELSE src' = noted /\ Exits("1")
          /\ UNCHANGED toSink
       \/ /\ src.pc = "times" /\ ok
          /\ Send(<<Record(Ctl[Item.k], src.i, "control")>>)
          /\ src' = [noted EXCEPT !.pc = "control"]
          /\ UNCHANGED scp
       \/ /\ src.pc \in {"times", "control"} /\ ~ok
          /\ src' = [noted EXCEPT !.pc = "item", !.i = Skip(@)]
          /\ UNCHANGED <<toSink, scp>>
       \/ /\ src.pc = "control" /\ ok /\ Item.k = "dir"
          /\ src' = [noted EXCEPT !.pc = "item", !.i = @ + 1]
          /\ UNCHANGED <<toSink, scp>>
       \/ /\ src.pc = "control" /\ ok /\ Item.k = "file"
          /\ src' = [noted EXCEPT !.pc = "data"]
          /\ UNCHANGED <<toSink, scp>>
       \/ /\ src.pc \in {"final", "end"}
          /\ src' = [noted EXCEPT !.pc = "item", !.i = @ + 1]
          /\ UNCHANGED <<toSink, scp>>
    /\ UNCHANGED <<job, conn, snk, copies>>

\* Mistake: what follows a read that failed is not sent.
source_data_stops ==
    /\ Running /\ ~scp.lost /\ src.pc = "data"
    /\ \/ /\ Send(<<Record("data", src.i, "good"), Record("ok", src.i, "final")>>)
          /\ src' = [src EXCEPT !.pc = "final"]
          /\ UNCHANGED scp
       \/ /\ May("read") /\ Failed("read")
          /\ Send(<<Record("err", src.i, "final")>>)
          /\ src' = [src EXCEPT !.pc = "final", !.errs = TRUE]
       \/ /\ May("fstat") /\ Failed("fstat")
          /\ Send(<<Record("err", src.i, "item")>>)
          /\ src' = [src EXCEPT !.errs = TRUE, !.i = @ + 1, !.pc = "item"]
    /\ UNCHANGED <<job, conn, snk, toSource, copies>>
\* The data; zeros from where a read failed on.  If there is no buffer, because the file
\* cannot be looked at, nothing but an error is sent.
source_data ==
    /\ Running /\ ~scp.lost /\ src.pc = "data"
    /\ \/ /\ Send(<<Record("data", src.i, "good"), Record("ok", src.i, "final")>>)
          /\ src' = [src EXCEPT !.pc = "final"]
          /\ UNCHANGED scp
       \/ /\ May("read") /\ Failed("read")
          /\ Send(<<Record("data", src.i, "zeros"), Record("err", src.i, "final")>>)
          /\ src' = [src EXCEPT !.pc = "final", !.errs = TRUE]
       \/ /\ May("fstat") /\ Failed("fstat")
          /\ Send(<<Record("err", src.i, "item")>>)
          /\ src' = [src EXCEPT !.errs = TRUE, !.i = @ + 1, !.pc = "item"]
    /\ UNCHANGED <<job, conn, snk, toSource, copies>>

source_return ==
    /\ Running /\ src.pc = "item" /\ src.i > Len(Items)
    /\ src' = [src EXCEPT !.pc = "done"]
    /\ UNCHANGED <<job, conn, snk, toSink, toSource, copies, scp>>

----------------------------------------------------------------------------
(* sink(): dirs has, for each directory entered, the times that are to be  *)
(* set: those of the last T record, 0 if none.                             *)

Reply(k, id) == toSource' = Append(toSource, [k |-> k, id |-> id])
\* run_err(): its stream stays that of the first connection an error was sent on.  That ssh may
\* have ended, and then so does scp, or not, and then nobody reads it.
SinkErr(id, status) ==
    IF scp.fp \in {0, conn}
    THEN /\ Reply("err", id)
         /\ scp' = [scp EXCEPT !.fp = conn, !.exit = IF job.tolocal THEN status ELSE @,
                               !.faults = @ + 1]
    ELSE /\ UNCHANGED toSource
         /\ \E s \in {"1", status} :
              scp' = [scp EXCEPT !.exit = s, !.faults = @ + 1, !.odd = @ \cup {"stream"}]

sink ==
    /\ Running /\ snk.pc = "start"
    /\ \/ /\ snk' = [snk EXCEPT !.pc = "control"]
          /\ Reply("ok", <<1, "begin">>)
          /\ UNCHANGED scp
       \/ /\ May("open")     \* verifydir()
          /\ snk' = [snk EXCEPT !.pc = "dead", !.errs = TRUE]
          /\ SinkErr(<<1, "begin">>, "1")
    /\ UNCHANGED <<job, conn, src, toSink, copies>>

SetTimes(t) == [snk EXCEPT !.dirs[Len(snk.dirs)] = t]
Times == Last(snk.dirs)

\* One control record.
sink_record ==
    /\ Running /\ snk.pc = "control" /\ toSink # <<>>
    /\ toSink' = Tail(toSink)
    /\ LET r == Head(toSink)
           name == Items[r.id[1]].name
       IN
       \/ /\ r.k = "err"
          /\ snk' = [snk EXCEPT !.errs = TRUE]
          /\ UNCHANGED <<toSource, copies, scp>>
       \/ /\ r.k = "T"
          /\ snk' = SetTimes(r.id[1])
          /\ Reply("ok", r.id)
          /\ UNCHANGED <<copies, scp>>
       \/ /\ r.k \in {"C", "D"} /\ May("open")
          /\ snk' = [snk EXCEPT !.errs = TRUE]
          /\ SinkErr(r.id, "")
          /\ UNCHANGED copies
       \/ /\ r.k = "C"
          /\ snk' = [snk EXCEPT !.pc = "data", !.cur = name, !.wrerr = FALSE]
          /\ Reply("ok", r.id)
          /\ UNCHANGED <<copies, scp>>
       \/ /\ r.k = "C" /\ May("fstat") /\ scp.fp \in {0, conn}
          /\ snk' = [snk EXCEPT !.errs = TRUE]
          /\ toSource' = toSource \o <<[k |-> "ok", id |-> r.id], [k |-> "err", id |-> r.id]>>
          /\ scp' = [scp EXCEPT !.faults = @ + 1, !.fp = conn, !.odd = @ \cup {"fstat"}]
          /\ UNCHANGED copies
       \/ /\ r.k = "D"
          /\ snk' = [snk EXCEPT !.dirs = Append(@, 0)]
          /\ copies' = [copies EXCEPT ![name].content = "new"]
          /\ Reply("ok", r.id)
          /\ UNCHANGED scp
       \/ /\ r.k = "E"
          /\ snk' = IF Len(snk.dirs) = 1 THEN [snk EXCEPT !.pc = "done"]
                    ELSE [snk EXCEPT !.dirs = [Front(@) EXCEPT ![Len(snk.dirs) - 1] = 0]]
          /\ Reply("ok", r.id)
          /\ UNCHANGED <<copies, scp>>
       \/ /\ r.k \in {"data", "ok"}
          /\ snk' = [snk EXCEPT !.errs = TRUE, !.pc = "dead"]
          /\ SinkErr(r.id, "1")
          /\ UNCHANGED copies
    /\ UNCHANGED <<job, conn, src>>

\* The data is read to its end even if it cannot be written.
sink_data ==
    /\ Running /\ snk.pc = "data" /\ toSink # <<>>
    /\ toSink' = Tail(toSink)
    /\ \/ /\ copies' = [copies EXCEPT ![snk.cur].content =
                            IF Head(toSink).k = "data" /\ Head(toSink).id[2] = "good" THEN "new" ELSE "bad"]
          /\ snk' = [snk EXCEPT !.pc = "final"]
          /\ UNCHANGED scp
       \/ /\ May("write") /\ Failed("write")
          /\ copies' = [copies EXCEPT ![snk.cur].content = "bad"]
          /\ snk' = [snk EXCEPT !.pc = "final", !.wrerr = TRUE, !.errs = TRUE]
    /\ UNCHANGED <<job, conn, src, toSource>>

\* The reply to the data: errors were noted until here (note_err()).
sink_final ==
    /\ Running /\ snk.pc = "final" /\ toSink # <<>>
    /\ toSink' = Tail(toSink)
    /\ LET r == Head(toSink)
           noted == [snk EXCEPT !.pc = "control", !.errs = @ \/ r.k # "ok"]
       IN
       \/ /\ snk.wrerr
          /\ snk' = noted
          /\ SinkErr(<<r.id[1], "final">>, "")
          /\ UNCHANGED copies
       \/ /\ ~snk.wrerr /\ Times # 0 /\ May("times")
          /\ snk' = [noted EXCEPT !.dirs[Len(snk.dirs)] = 0, !.errs = TRUE]
          /\ SinkErr(<<r.id[1], "final">>, "")
          /\ UNCHANGED copies
       \/ /\ ~snk.wrerr
          /\ snk' = [noted EXCEPT !.dirs[Len(snk.dirs)] = 0]
          /\ copies' = [copies EXCEPT ![snk.cur].time = Times]
          /\ Reply("ok", <<r.id[1], "final">>)
          /\ UNCHANGED scp
    /\ UNCHANGED <<job, conn, src>>

\* Nothing more will come: at the begin of a record sink() returns, anywhere else scp ends.
sink_eof ==
    /\ Running /\ snk.pc \in {"control", "data", "final"} /\ toSink = <<>>
    /\ src.pc \in {"done", "dead"}
    /\ IF snk.pc = "control"
       THEN \/ snk' = [snk EXCEPT !.pc = "done"] /\ UNCHANGED scp
            \/ snk' = snk /\ scp.lost /\ Exits("1")
       ELSE snk' = [snk EXCEPT !.errs = TRUE, !.pc = "dead"]
            /\ IF job.tolocal THEN Exits("1") ELSE UNCHANGED scp
    /\ UNCHANGED <<job, conn, src, toSink, toSource, copies>>

----------------------------------------------------------------------------
(* The program.                                                            *)

\* The connection is lost, and with it the process at the far end and what it still has to say.
Lost ==
    /\ Running /\ May("lost") /\ ~scp.lost
    /\ scp' = [scp EXCEPT !.lost = TRUE, !.faults = @ + 1]
    /\ IF job.tolocal
       THEN /\ \E n \in 0..Len(toSink) : toSink' = SubSeq(toSink, 1, n)
            /\ src' = [src EXCEPT !.pc = "dead", !.errs = TRUE]
            /\ UNCHANGED <<snk, toSource>>
       ELSE /\ \E n \in 0..Len(toSource) : toSource' = SubSeq(toSource, 1, n)
            /\ snk' = [snk EXCEPT !.pc = "dead", !.errs = TRUE]
            /\ UNCHANGED <<src, toSink>>
    /\ UNCHANGED <<job, conn, copies>>
lostconn ==
    /\ Running /\ ~job.tolocal
    /\ (scp.lost \/ snk.pc = "dead") /\ src.pc # "done"
    /\ toSource = <<>> \/ ~Waits(src.pc)
    /\ Exits("1")
    /\ UNCHANGED <<job, conn, src, snk, toSink, toSource, copies>>

Source0 == [pc |-> "begin", i |-> 1, errs |-> FALSE]
Sink0 == [pc |-> "start", dirs |-> <<0>>, cur |-> "", wrerr |-> FALSE, errs |-> FALSE]

\* tolocal(): the next host.
tolocal ==
    /\ Running /\ job.tolocal /\ snk.pc = "done" /\ conn < Len(job.sources)
    /\ conn' = conn + 1
    /\ src' = Source0
    /\ snk' = [Sink0 EXCEPT !.errs = snk.errs]
    /\ toSink' = <<>> /\ toSource' = <<>>
    /\ scp' = [scp EXCEPT !.lost = FALSE, !.odd = @ \cup (IF scp.lost THEN {"lost"} ELSE {})]
    /\ UNCHANGED <<job, copies>>

\* The end of main(): the status of the last ssh, which is that of the far end.
scp_main ==
    /\ Running /\ UNCHANGED <<job, conn, src, snk, toSink, toSource, copies>>
    /\ \/ job.tolocal /\ snk.pc = "done" /\ conn = Len(job.sources)
       \/ ~job.tolocal /\ src.pc = "done"
    /\ src.pc \in {"done", "dead"} /\ snk.pc \in {"done", "dead"}
    /\ Exits(IF snk.errs \/ src.errs THEN "1" ELSE "0")

ScpStart(j) ==
    /\ job = j /\ conn = 1 /\ src = Source0 /\ snk = Sink0
    /\ toSink = <<>> /\ toSource = <<>>
    /\ copies = [n \in CopyNames(j) |-> [content |-> "old", time |-> 0]]
    /\ scp = [exit |-> "", fp |-> 0, faults |-> 0, lost |-> FALSE, odd |-> {}]
ScpInit == \E j \in ScpJobs : ScpStart(j)
ScpNext ==
    \/ source \/ rsource_end \/ response \/ source_data \/ source_return
    \/ sink \/ sink_record \/ sink_data \/ sink_final \/ sink_eof
    \/ Lost \/ lostconn \/ tolocal \/ scp_main

----------------------------------------------------------------------------
(* Properties.                                                             *)

InStep ==
    /\ toSink # <<>> /\ snk.pc = "data" => Head(toSink).k = "data"
    /\ toSink # <<>> /\ snk.pc = "final" => Head(toSink).k \in {"ok", "err"}
    /\ toSink # <<>> /\ snk.pc = "control" => Head(toSink).k \notin {"data", "ok"}
    /\ toSource # <<>> /\ Waits(src.pc) => Head(toSource).id = <<src.i, src.pc>>
    /\ ~(Waits(src.pc) /\ toSource = <<>> /\ toSink = <<>> /\ ~scp.lost
         /\ snk.pc \in {"control", "data", "final", "done"})
AllCopied ==
    \A c \in DOMAIN job.sources : \A i \in DOMAIN job.sources[c] :
        LET x == job.sources[c][i]
            before == IF job.tolocal THEN 0 ELSE Len(FlattenSeq(SubSeq(job.sources, 1, c - 1)))
        IN x.k # "end" =>
            /\ copies[x.name].content = "new"
            /\ job.pflag /\ x.k = "file" => copies[x.name].time = before + i

\* The two processes stay in step: data is read as data and nothing else is, each reply source()
\* reads is for what it waits for, and they never both wait (sink(): an error at the wrong moment
\* "may send a spurious reply that might desyncronise us from the peer").  And scp exits with 0
\* only if all was copied: each file has the content of its source and, with -p, its time, and
\* each directory was made.  Whatever failed at either end, but for what odd names: fstat() after
\* the reply to C, an error on another connection than the first error, and an earlier one lost.
ScpSound ==
    /\ Running /\ {"fstat", "stream"} \cap scp.odd = {} => InStep
    /\ scp.exit = "0" /\ "lost" \notin scp.odd => AllCopied

\* scp exits with 0 only if all was copied (scp(1): "exits 0 on success, and >0 if an error
\* occurs").
ScpExitStatus == scp.exit = "0" => AllCopied

\* The two processes always stay in step.
ScpInStep == Running => InStep
=============================================================================
