------------------------------- MODULE FileSink -------------------------------
(****************************************************************************)
(* The file sinks of a program (src/src/filesink.cpp, filesinkhelper.ipp)    *)
(* and the files they leave behind.  A sink is built by a thread of the      *)
(* program and then used by its own thread only, so its operations do not    *)
(* interleave with each other, but those of different sinks do, and they     *)
(* share a file system.  The program may be killed between two operations    *)
(* and be started again, even within the same second.                        *)
(*                                                                          *)
(* All sinks of a program have one prefix, host and user, so a file's name   *)
(* is its level and the second it was named in.  Every opening of a file may *)
(* fail.  A write to a stream is one entry.  A sink makes the name of a file *)
(* first and opens the file later, perhaps in another second.                *)
(****************************************************************************)
EXTENDS Integers, Sequences, SequencesExt

CONSTANTS
  Sinks,
  Dirs,        \* directories for log files
  Cwd,         \* the one named "./"
  LogLink,     \* FLAGS_log_link: a set with at most one directory
  FileLevels,  \* values of the levels sinks and files are given
  Levels,      \* values of the levels of messages
  Unlinkable,  \* directories in which links cannot be made or removed
  MaxTime,     \* bound: seconds
  MaxMessages, \* bound: calls of fileWrite
  MaxEvents    \* bound: calls of changeLogFile and overrideLogHeader, restarts

ASSUME FilesAssumption ==
  /\ Cwd \in Dirs /\ LogLink \subseteq Dirs /\ Unlinkable \subseteq Dirs
  /\ FileLevels \subseteq Int /\ Levels \subseteq Int
  /\ {MaxTime, MaxMessages, MaxEvents} \subseteq Nat

VARIABLES
  clock,    \* the current second
  proc,     \* "running", "aborted", or "undefined" after a null stream is used
  stage,    \* of a sink: "none", "live" or "gone"
  path,     \* _log_file_with_path
  out,      \* _outptr
  header,   \* _header: how often it has been overridden
  first,    \* _firstEntry
  least,    \* min_loglevel_
  named,    \* the file a sink has made the name of and has still to open
  disk,     \* what each file holds
  links,    \* where each symlink points
  sent,     \* messages passed to fileWrite so far
  events,   \* calls of changeLogFile and overrideLogHeader, restarts so far
  opened,   \* auxiliary: the files opened so far
  shared,   \* auxiliary: files that two streams of two sinks had open at once
  told,     \* auxiliary: messages accepted for a file since it was opened
  moved     \* auxiliary: <<old, new>> for each change of a log file, until
            \* the old one is opened again

sinkVars == <<stage, path, out, header, first, least, named>>
aux      == <<opened, shared, told, moved>>
counts   == <<sent, events>>
vars     == <<clock, proc, sinkVars, disk, links, counts, aux>>

-----------------------------------------------------------------------------
(* Files, links, entries and streams *)

Paths == [dir : Dirs, level : FileLevels, time : 0..MaxTime]
Links == [dir : Dirs, level : FileLevels]
None  == [dir |-> "none"]

\* Fault: a name without the time.
UntimedFile(d, l) == [dir |-> d, level |-> l, time |-> 0]

\* createLogFileName
LogFile(d, l) == [dir |-> d, level |-> l, time |-> clock]
LinkName(d, l) == [dir |-> d, level |-> l]

Message(n) == [message |-> n]
Header(h)  == [header |-> h]
To(p)      == [to |-> p]
From(p)    == [from |-> p]
Failed(p)  == [failed |-> p]
Shutdown   == [shutdown |-> TRUE]
Hole       == [hole |-> TRUE]    \* what a file holds where nobody wrote

Entries ==
  [message : Nat] \cup [header : Nat] \cup [to : Paths] \cup [from : Paths]
    \cup [failed : Paths] \cup {Shutdown, Hole}

IsMessage(e) == "message" \in DOMAIN e

\* The messages among the first entries of a text, by their number, and all
\* its messages, in order.
MessagesUpTo(text) ==
  LET upTo[n \in 0..Len(text)] ==
        IF n = 0 THEN <<>>
        ELSE IF IsMessage(text[n]) THEN Append(upTo[n - 1], text[n])
        ELSE upTo[n - 1]
  IN  upTo
MessagesIn(text) == MessagesUpTo(text)[Len(text)]

\* std::ofstream: a file, the position of the next write, what is not flushed.
Stream(p) == [file |-> p, at |-> 0, buffer |-> <<>>]
Streams   == [file : Paths, at : Nat, buffer : Seq(Entries)]
NoStream  == [file |-> None]

Put(o, text) == [o EXCEPT !.buffer = @ \o text]
Flushed(o)   == [o EXCEPT !.at = @ + Len(o.buffer), !.buffer = <<>>]

\* A stream without O_APPEND writes at its own position, whatever the file's
\* length is by then.
Overlay(text, o) ==
  LET end == o.at + Len(o.buffer)
  IN  [i \in 1..(IF end > Len(text) THEN end ELSE Len(text)) |->
         IF i > o.at /\ i <= end THEN o.buffer[i - o.at]
         ELSE IF i <= Len(text)  THEN text[i]
         ELSE Hole]

Flush(d, o) == [d EXCEPT ![o.file] = Overlay(@, o)]

-----------------------------------------------------------------------------
Init ==
  /\ clock = 0 /\ proc = "running"
  /\ stage = [s \in Sinks |-> "none"]
  /\ path = [s \in Sinks |-> None]
  /\ out = [s \in Sinks |-> NoStream]
  /\ header = [s \in Sinks |-> 0]
  /\ first = [s \in Sinks |-> TRUE]
  /\ least = [s \in Sinks |-> 0]
  /\ named = [s \in Sinks |-> None]
  /\ disk = [p \in Paths |-> <<>>]
  /\ links = [k \in Links |-> None]
  /\ sent = 0 /\ events = 0
  /\ opened = {}
  /\ shared = {}
  /\ told = [p \in Paths |-> <<>>]
  /\ moved = {}

Tick == /\ proc = "running" /\ clock < MaxTime
        /\ clock' = clock + 1
        /\ UNCHANGED <<proc, sinkVars, disk, links, counts, aux>>

\* openLogFile truncates the file, to which a log may have changed.  Other
\* sinks may have it open.
Opened(p, s, change) ==
  /\ opened' = opened \cup {p}
  /\ moved'  = {m \in moved \cup change : m[1] # p}
  /\ told'   = [told EXCEPT ![p] = <<>>]
  /\ shared' = IF \E t \in Sinks \ {s} : out[t].file = p
               THEN shared \cup {p} ELSE shared \ {p}

NothingOpened == UNCHANGED aux

\* Remove each link and make it anew.
MakeLinks(names, p) ==
  links' = [k \in Links |->
              IF k \in names /\ k.dir \notin Unlinkable THEN p ELSE links[k]]

\* FileSink::FileSink up to the name of its file.
NameFile(s) ==
  /\ proc = "running" /\ stage[s] = "none" /\ named[s] = None
  /\ \E d \in Dirs, l \in FileLevels :
       named' = [named EXCEPT ![s] = LogFile(d, l)]
  /\ UNCHANGED <<clock, proc, stage, path, out, header, first, least, disk,
                 links, counts, aux>>

\* The file of the same name in the current directory.
Fallback(p) == [p EXCEPT !.dir = Cwd]

\* FileSink::FileSink from there.  The links are made to the file wanted also
\* if that one could not be opened.  If the one in the current directory cannot
\* be opened either, a debug build aborts and a release build goes on without
\* a stream.
Construct(s) ==
  LET wanted   == named[s]
      fallback == Fallback(wanted)
      l        == wanted.level
      Use(p) == /\ path' = [path EXCEPT ![s] = p]
                /\ out' = [out EXCEPT ![s] = Stream(p)]
                /\ disk' = [disk EXCEPT ![p] = <<>>]
                /\ Opened(p, s, {})
                /\ UNCHANGED proc
  IN /\ proc = "running" /\ stage[s] = "none" /\ named[s] # None
     /\ named' = [named EXCEPT ![s] = None]
     /\ stage' = [stage EXCEPT ![s] = "live"]
     /\ header' = [header EXCEPT ![s] = 0]
     /\ first' = [first EXCEPT ![s] = TRUE]
     /\ least' = [least EXCEPT ![s] = l]
     /\ MakeLinks({LinkName(x, l) : x \in {wanted.dir} \cup LogLink}, wanted)
     /\ \/ Use(wanted)
        \/ Use(fallback)
        \/ /\ path' = [path EXCEPT ![s] = fallback]
           /\ proc' \in {"running", "aborted"}
           /\ NothingOpened /\ UNCHANGED <<out, disk>>
     /\ UNCHANGED <<clock, counts>>

\* What the program had in memory is gone, what was not flushed with it.
MemoryLost ==
  /\ stage' = [s \in Sinks |-> "none"]
  /\ path' = [s \in Sinks |-> None]
  /\ out' = [s \in Sinks |-> NoStream]
  /\ header' = [s \in Sinks |-> 0]
  /\ first' = [s \in Sinks |-> TRUE]
  /\ least' = [s \in Sinks |-> 0]
  /\ named' = [s \in Sinks |-> None]

\* FileSink::FileSink with a prefix that is not a valid file name.
RefusePrefix(s) ==
  /\ proc = "running" /\ stage[s] = "none" /\ named[s] = None
  /\ proc' = "aborted" /\ MemoryLost
  /\ UNCHANGED <<clock, disk, links, counts, aux>>

\* What the use of a null stream does to the program is not defined.
Undefined == /\ proc' = "undefined"
             /\ UNCHANGED <<clock, sinkVars, links>>

\* A sink's thread does one thing after the other.
Usable(s) == proc = "running" /\ stage[s] = "live" /\ named[s] = None

\* Fault: no flush.
WriteLater(s, o) == /\ disk' = disk
                    /\ out' = [out EXCEPT ![s] = o]

\* operator<< and std::flush: what sink s has in its stream o reaches the file.
WriteOut(s, o) == /\ disk' = Flush(disk, o)
                  /\ out' = [out EXCEPT ![s] = Flushed(o)]

\* FileSink::fileWrite.  The header alone is not flushed.  Without a stream no
\* header can have been written, so this call is the one that tries.
FileWrite(s) ==
  /\ Usable(s) /\ sent < MaxMessages
  /\ sent' = sent + 1
  /\ UNCHANGED events
  /\ \E l \in Levels :
       LET top == IF first[s] THEN <<Header(header[s])>> ELSE <<>>
           o   == Put(out[s], top \o <<Message(sent')>>)
       IN \/ out[s] = NoStream /\ Undefined /\ NothingOpened /\ disk' = disk
          \/ /\ out[s] # NoStream /\ l < least[s]
             /\ first' = [first EXCEPT ![s] = FALSE]
             /\ out' = [out EXCEPT ![s] = Put(@, top)]
             /\ UNCHANGED <<clock, proc, stage, path, header, least, named,
                            disk, links, aux>>
          \/ /\ out[s] # NoStream /\ l >= least[s]
             /\ first' = [first EXCEPT ![s] = FALSE]
             /\ WriteOut(s, o)
             /\ told' = [told EXCEPT ![path[s]] = Append(@, Message(sent'))]
             /\ UNCHANGED <<clock, proc, stage, path, header, least, named,
                            links, opened, shared, moved>>

\* Fault: _log_file_with_path is not updated.
ChangedNamesOld(s, p) ==
  LET o == Put(out[s], <<Header(header[s]), To(p)>>)
  IN  /\ disk' = Flush([disk EXCEPT ![p] = <<>>], o)
      /\ out' = [out EXCEPT ![s] = Put(Stream(p), <<From(path[s])>>)]
      /\ Opened(p, s, {<<path[s], p>>})
      /\ UNCHANGED <<clock, proc, stage, path, header, first, least, links>>

\* Fault: the stream is replaced before the farewell is written.
ChangedTooEarly(s, p) ==
  /\ disk' = Flush([disk EXCEPT ![p] = <<>>], out[s])
  /\ out' = [out EXCEPT ![s] = Put(Stream(p), <<Header(header[s]), To(p),
                                               From(path[s])>>)]
  /\ path' = [path EXCEPT ![s] = p]
  /\ Opened(p, s, {<<path[s], p>>})
  /\ UNCHANGED <<clock, proc, stage, header, first, least, links>>

\* FileSink::changeLogFile, the new file opened.  The header and the farewell
\* go to the old one, which is closed with its last reference; the greeting
\* in the new one is not flushed.  It is opened, and truncated, before the old
\* one is closed, be it the same file or not.
Changed(s, p) ==
  LET o == Put(out[s], <<Header(header[s]), To(p)>>)
  IN  /\ disk' = Flush([disk EXCEPT ![p] = <<>>], o)
      /\ out' = [out EXCEPT ![s] = Put(Stream(p), <<From(path[s])>>)]
      /\ path' = [path EXCEPT ![s] = p]
      /\ Opened(p, s, {<<path[s], p>>})
      /\ UNCHANGED <<clock, proc, stage, header, first, least, links>>

\* Fault: the new stream is moved in although it could not be opened.
ChangeFailedLoses(s, p) ==
  /\ out' = [out EXCEPT ![s] = NoStream]
  /\ UNCHANGED <<clock, proc, stage, path, header, first, least, disk, links, aux>>

\* FileSink::changeLogFile, the new file not opened: a complaint in the old
\* one, not flushed.
ChangeFailed(s, p) ==
  /\ out' = [out EXCEPT ![s] = Put(@, <<Failed(p)>>)]
  /\ UNCHANGED <<clock, proc, stage, path, header, first, least, disk, links, aux>>

\* FileSink::changeLogFile up to the name of the new file.  The logger_id is
\* not part of it.
NameNewFile(s) ==
  /\ Usable(s) /\ events < MaxEvents
  /\ events' = events + 1
  /\ \E d \in Dirs, l \in FileLevels :
       named' = [named EXCEPT ![s] = LogFile(d, l)]
  /\ UNCHANGED <<clock, proc, stage, path, out, header, first, least, disk,
                 links, sent, aux>>

\* FileSink::changeLogFile from there.  The symlinks and min_loglevel_ stay as
\* they are.  createLogFile comes before any use of the old stream, so it
\* truncates the file also if there is none.
ChangeLogFile(s) ==
  LET p == named[s]
  IN /\ proc = "running" /\ stage[s] = "live" /\ p # None
     /\ UNCHANGED counts
     /\ \/ /\ out[s] = NoStream /\ Undefined
           /\ \/ NothingOpened /\ disk' = disk
              \/ Opened(p, s, {}) /\ disk' = [disk EXCEPT ![p] = <<>>]
        \/ /\ out[s] # NoStream
           /\ named' = [named EXCEPT ![s] = None]
           /\ Changed(s, p) \/ ChangeFailed(s, p)

\* FileSink::overrideLogHeader
OverrideLogHeader(s) ==
  /\ Usable(s) /\ events < MaxEvents
  /\ events' = events + 1
  /\ header' = [header EXCEPT ![s] = @ + 1]
  /\ UNCHANGED <<clock, proc, stage, path, out, first, least, named, disk,
                 links, sent, aux>>

\* FileSink::~FileSink
Destroy(s) ==
  /\ Usable(s)
  /\ UNCHANGED counts
  /\ \/ out[s] = NoStream /\ Undefined /\ NothingOpened /\ disk' = disk
     \/ /\ out[s] # NoStream
        /\ disk' = Flush(disk, Put(out[s], <<Shutdown>>))
        /\ out' = [out EXCEPT ![s] = NoStream]
        /\ stage' = [stage EXCEPT ![s] = "gone"]
        /\ path' = [path EXCEPT ![s] = None]
        /\ header' = [header EXCEPT ![s] = 0]
        /\ first' = [first EXCEPT ![s] = TRUE]
        /\ least' = [least EXCEPT ![s] = 0]
        /\ UNCHANGED <<clock, proc, named, links, aux>>

\* The program is killed, or has ended, and is started again.
Restart ==
  /\ events < MaxEvents
  /\ events' = events + 1
  /\ proc' = "running" /\ MemoryLost
  /\ UNCHANGED <<clock, disk, links, sent, aux>>

Next ==
  \/ Tick
  \/ Restart
  \/ \E s \in Sinks : \/ NameFile(s)
                      \/ Construct(s)
                      \/ RefusePrefix(s)
                      \/ FileWrite(s)
                      \/ NameNewFile(s)
                      \/ ChangeLogFile(s)
                      \/ OverrideLogHeader(s)
                      \/ Destroy(s)

Spec == Init /\ [][Next]_vars

-----------------------------------------------------------------------------
(* Properties *)

\* Every variable has a value of its kind: a live sink has a path, and its
\* stream, if there is one, is on the file with that path.
TypeOK ==
  /\ clock \in 0..MaxTime
  /\ proc \in {"running", "aborted", "undefined"}
  /\ stage \in [Sinks -> {"none", "live", "gone"}]
  /\ path \in [Sinks -> Paths \cup {None}]
  /\ out \in [Sinks -> Streams \cup {NoStream}]
  /\ header \in [Sinks -> Nat]
  /\ first \in [Sinks -> BOOLEAN]
  /\ least \in [Sinks -> Int]
  /\ named \in [Sinks -> Paths \cup {None}]
  /\ disk \in [Paths -> Seq(Entries)]
  /\ links \in [Links -> Paths \cup {None}]
  /\ {sent, events} \subseteq Nat
  /\ opened \subseteq Paths
  /\ shared \subseteq Paths
  /\ told \in [Paths -> Seq([message : Nat])]
  /\ moved \subseteq Paths \X Paths
  /\ \A s \in Sinks : out[s] # NoStream => out[s].file = path[s]

\* A file holds on the disk, in order, exactly the messages a sink accepted
\* while fileName() named it, at every moment and so also if the program is
\* killed now (fileWrite flushes each message; changeLogFile switches path and
\* stream together).  Files that two sinks have open at once are excepted:
\* their streams overwrite each other.
MessagesOnDisk ==
  \A p \in Paths \ shared : MessagesIn(disk[p]) = told[p]

\* Who reads an old log file finds in it where the log went on (the farewell
\* of changeLogFile), on the disk and also if the program is killed, until the
\* file is opened again.  Files that two sinks have open at once are excepted.
OldFileNamesNew ==
  \A m \in moved : m[1] \notin shared =>
    \E i \in DOMAIN disk[m[1]] : disk[m[1]][i] = To(m[2])

\* A sink that has a stream keeps one until it is destroyed or the program
\* ends, whatever fails (changeLogFile keeps the old one on an error).
StreamKept ==
  [][\A s \in Sinks :
       stage[s] = "live" /\ stage'[s] = "live" /\ out[s] # NoStream
         => out'[s] # NoStream]_vars

\* The files a sink may open next, having made their name.
MayOpen(s) ==
  IF named[s] = None THEN {}
  ELSE IF stage[s] = "live" THEN {named[s]}
  ELSE {named[s], Fallback(named[s])}

\* When the second in a file's name is over, no more sinks come to open it,
\* also after a restart, and when none is left that made the name in time, no
\* call takes a message out of the file again (createLogFileName puts the
\* second into the name; openLogFile truncates).  Until then one may: the name
\* is made before the file is opened, and the second may end in between.
OldMessagesStay ==
  [][\A p \in Paths : p.time < clock =>
       /\ \A s \in Sinks : p \in MayOpen(s)' => p \in MayOpen(s)
       /\ (\A s \in Sinks : p \notin MayOpen(s)) /\ p \notin shared'
            => IsPrefix(MessagesIn(disk[p]), MessagesIn(disk'[p]))]_vars

\* What a comment in FileSink::FileSink says of the symlink: "every time we
\* create a new logfile, we destroy the old link and create a new one. So it
\* always points to the latest one".
LinkPointsToLatest ==
  \A k \in Links : links[k] # None =>
    \A p \in Paths : LinkName(p.dir, p.level) = k /\ p \in opened
                        => p.time <= links[k].time

=============================================================================
