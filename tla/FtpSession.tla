----------------------------- MODULE FtpSession -----------------------------
(***************************************************************************)
(* One client and its server over one TCP connection: ftpServer.c and      *)
(* ftpClient.c of TME07, and ftpClient.c of TME08 with the thread that     *)
(* serves it in ftpServerThread.c.  Neither side frames its messages; each *)
(* counts the reads it does.  The streams are sequences of what was        *)
(* written; a read that takes more, less or something else than one write  *)
(* ends the account of the session ("garbled").                            *)
(***************************************************************************)
EXTENDS Naturals, FiniteSets, Sequences

CONSTANTS Names,       \* file names
          Stored,      \* name -> size of the file the server starts with
          Held,        \* name -> size of the file the client starts with
          Programs,    \* subset of {"TME07", "TME08"}
          BUFFER_SIZE, \* of each read and write of a file
          MaxCmds      \* bound: commands typed by the user

ASSUME SizesAssumption ==
  /\ Stored \in [DOMAIN Stored -> Nat] /\ DOMAIN Stored \subseteq Names
  /\ Held \in [DOMAIN Held -> Nat] /\ DOMAIN Held \subseteq Names
  /\ IsFiniteSet(DOMAIN Stored)
ASSUME BoundsAssumption == BUFFER_SIZE \in Nat \ {0} /\ MaxCmds \in Nat
ASSUME ProgramsAssumption == Programs \subseteq {"TME07", "TME08"}

VARIABLES
  program, up, down, garbled,
  srv, requete, data_dir, fusion, size, rounds, pos, sfiles,  \* server
  cli, message, csize, crounds, cpos, cfiles, typed,          \* client
  offered                                \* content of the file being downloaded

server == <<srv, requete, data_dir, fusion, size, rounds, pos, sfiles>>
client == <<cli, message, csize, crounds, cpos, cfiles, typed>>
session == <<program, up, down, garbled, server, client, offered>>

Op(op, name) == [k |-> "query", op |-> op, name |-> name]
NoOp == Op("none", "none")
Size(n) == [k |-> "size", n |-> n]
Data(units) == [k |-> "data", units |-> units]
Found(b) == [k |-> "rep", found |-> b]
Item(k) == [k |-> k]

\* a file is a sequence of units; a path the names concatenated to the directory
Content(owner, name, n) == [i \in 1 .. n |-> <<owner, name, i>>]
Chunk(file, from) ==
  LET to == from + BUFFER_SIZE IN
  SubSeq(file, from + 1, IF to < Len(file) THEN to ELSE Len(file))
\* open with O_CREAT | O_TRUNC: the file is there, with this content
Create(files, path, content) ==
  [p \in DOMAIN files \cup {path} |-> IF p = path THEN content ELSE files[p]]
\* what a file operation transfers: the units of a message read as file data
Units(m) == IF m.k = "data" THEN m.units ELSE <<m>>

\* reads done for a file of size n
\* fault: the last, partial buffer is not counted
Rounds_short(n) == n \div BUFFER_SIZE
\* fault: one read too many
Rounds_long(n) == n \div BUFFER_SIZE + 2
Rounds(n) == n \div BUFFER_SIZE + 1

Root == <<>>
SessionInit ==
  /\ program \in Programs
  /\ up = <<>> /\ down = <<>> /\ garbled = FALSE
  \* "FTP_SERVER" without a slash, in TME07, until an upload restores it
  /\ data_dir = IF program = "TME07" THEN <<"noslash">> ELSE Root
  /\ srv = "query" /\ requete = NoOp /\ fusion = Root
  /\ size = 0 /\ rounds = 0 /\ pos = 0
  /\ sfiles = [p \in {<<f>> : f \in DOMAIN Stored} |-> Content("server", p[1], Stored[p[1]])]
  /\ cli = "prompt" /\ message = NoOp /\ csize = 0 /\ crounds = 0 /\ cpos = 0
  /\ cfiles = [f \in DOMAIN Held |-> Content("client", f, Held[f])]
  /\ typed = 0 /\ offered = <<>>

Connected == cli # "gone"
Reply(items) == Connected /\ down' = down \o items
-----------------------------------------------------------------------------
(* The server *)

\* read(scom, requete): at the end of the stream the last request is used again
ReadQuery ==
  /\ srv = "query"
  /\ \/ up # <<>> /\ Head(up).k = "query" /\ requete' = Head(up) /\ up' = Tail(up)
     \/ up = <<>> /\ ~ Connected /\ UNCHANGED <<requete, up>>
  /\ srv' = CASE requete'.op = "D" -> "open"
              [] requete'.op = "L" -> "list"
              [] requete'.op = "U" -> "size"
              [] OTHER -> "exit"
  /\ UNCHANGED <<program, down, garbled, data_dir, fusion, size, rounds, pos, sfiles,
                 client, offered>>

\* DOWNLOAD of a file that cannot be opened: continue, data_dir is not restored
DownloadMissing ==
  /\ srv = "open" /\ fusion' = Append(data_dir, requete.name)
  /\ fusion' \notin DOMAIN sfiles
  /\ data_dir' = fusion' /\ size' = 0
  /\ Reply(<<Found(FALSE), Size(0)>>)
  /\ srv' = "query"
  /\ UNCHANGED <<program, up, garbled, requete, rounds, pos, sfiles, client, offered>>

DownloadFound ==
  /\ srv = "open" /\ fusion' = Append(data_dir, requete.name)
  /\ fusion' \in DOMAIN sfiles
  /\ data_dir' = fusion' /\ pos' = 0
  /\ offered' = sfiles[fusion']
  /\ Reply(<<Found(TRUE), Size(Len(offered'))>>)
  /\ srv' = "send"
  /\ UNCHANGED <<program, up, garbled, requete, size, rounds, sfiles, client>>

DownloadChunk ==
  /\ srv = "send" /\ pos < Len(sfiles[fusion])
  /\ Reply(<<Data(Chunk(sfiles[fusion], pos))>>)
  /\ pos' = pos + BUFFER_SIZE
  /\ UNCHANGED <<program, up, garbled, srv, requete, data_dir, fusion, size, rounds, sfiles,
                 client, offered>>

DownloadEnd ==
  /\ srv = "send" /\ pos >= Len(sfiles[fusion])
  /\ data_dir' = Root /\ srv' = "query"
  /\ UNCHANGED <<program, up, down, garbled, requete, fusion, size, rounds, pos, sfiles,
                 client, offered>>

\* the files of the directory, "." and ".."; the list of TME07 keeps the last only
Entries == Cardinality({p \in DOMAIN sfiles : Len(p) = 1}) + 2
List ==
  /\ srv = "list" /\ srv' = "query"
  /\ Reply(<<Size(Entries)>>
           \o [i \in 1 .. (IF program = "TME07" THEN 1 ELSE Entries) |-> Item("entry")]
           \o <<Item("eof")>>)
  /\ UNCHANGED <<program, up, garbled, requete, data_dir, fusion, size, rounds, pos, sfiles,
                 client, offered>>

\* content of the file an upload opens
\* fault: without O_TRUNC
Opened_whole(path) == IF path \in DOMAIN sfiles THEN sfiles[path] ELSE <<>>
Opened(path) == <<>>

\* UPLOAD: the size, whose old value stays at the end of the stream, and O_TRUNC
UploadOpen ==
  /\ srv = "size"
  /\ \/ up # <<>> /\ Head(up).k = "size" /\ size' = Head(up).n /\ up' = Tail(up)
     \/ up = <<>> /\ ~ Connected /\ UNCHANGED <<size, up>>
  /\ fusion' = Append(data_dir, requete.name) /\ data_dir' = fusion'
  /\ sfiles' = Create(sfiles, fusion', Opened(fusion'))
  /\ rounds' = Rounds(size') /\ srv' = "receive"
  /\ UNCHANGED <<program, down, garbled, requete, pos, client, offered>>

UploadChunk ==
  /\ srv = "receive" /\ rounds > 0 /\ rounds' = rounds - 1
  /\ \/ /\ up # <<>> /\ up' = Tail(up)
        /\ sfiles' = [sfiles EXCEPT ![fusion] = @ \o Units(Head(up))]
     \/ up = <<>> /\ ~ Connected /\ UNCHANGED <<up, sfiles>>
  /\ UNCHANGED <<program, down, garbled, srv, requete, data_dir, fusion, size, pos,
                 client, offered>>

UploadEnd ==
  /\ srv = "receive" /\ rounds = 0
  /\ data_dir' = Root /\ srv' = "query"
  /\ UNCHANGED <<program, up, down, garbled, requete, fusion, size, rounds, pos, sfiles,
                 client, offered>>

\* SIGPIPE, on a write after the client has closed the connection (the writes
\* that succeed until the reset comes back reach nobody)
Killed ==
  /\ ~ Connected /\ srv \in {"open", "send", "list"} /\ srv' = "exit"
  /\ UNCHANGED <<program, up, down, garbled, requete, data_dir, fusion, size, rounds, pos,
                 sfiles, client, offered>>
-----------------------------------------------------------------------------
(* The client *)

\* a line with another command is refused and the prompt comes back
verif_message == {"D", "U", "L"}

\* a line is typed, accepted by verif_message and sent
Command ==
  /\ cli = "prompt" /\ typed < MaxCmds /\ typed' = typed + 1
  /\ \E op \in verif_message, f \in Names :
       /\ message' = Op(op, f) /\ up' = Append(up, Op(op, f))
       /\ cli' = CASE op = "D" -> "rep" [] op = "L" -> "count" [] op = "U" -> "stat"
  /\ UNCHANGED <<program, down, garbled, server, csize, crounds, cpos, cfiles, offered>>

\* Ctrl-C, or the end of the terminal
Quit ==
  /\ cli = "prompt" /\ cli' = "gone"
  /\ UNCHANGED <<program, up, down, garbled, server, message, csize, crounds, cpos, cfiles,
                 typed, offered>>

\* both reads of the answer to a DOWNLOAD, and O_TRUNC on the local file
ReadRep ==
  /\ cli = "rep" /\ Len(down) >= 2 /\ down[1].k = "rep" /\ down[2].k = "size"
  /\ csize' = down[2].n /\ down' = Tail(Tail(down))
  /\ IF down[1].found
     THEN /\ cfiles' = Create(cfiles, message.name, <<>>)
          /\ crounds' = Rounds(csize') /\ cli' = "chunks"
     ELSE cli' = "prompt" /\ UNCHANGED <<crounds, cfiles>>
  /\ UNCHANGED <<program, up, garbled, server, message, cpos, typed, offered>>

ReadChunk ==
  /\ cli = "chunks" /\ crounds > 0 /\ crounds' = crounds - 1
  /\ down # <<>> /\ down' = Tail(down)
  /\ cfiles' = [cfiles EXCEPT ![message.name] = @ \o Units(Head(down))]
  /\ UNCHANGED <<program, up, garbled, server, cli, message, csize, cpos, typed, offered>>

ReadEnd ==
  /\ cli = "chunks" /\ crounds = 0 /\ cli' = "prompt"
  /\ UNCHANGED <<program, up, down, garbled, server, message, csize, crounds, cpos, cfiles,
                 typed, offered>>

\* LIST: the number of entries, and one read more than that
ReadCount ==
  /\ cli = "count" /\ down # <<>> /\ Head(down).k = "size"
  /\ csize' = Head(down).n /\ crounds' = Head(down).n + 1 /\ down' = Tail(down)
  /\ cli' = "entries"
  /\ UNCHANGED <<program, up, garbled, server, message, cpos, cfiles, typed, offered>>

ReadEntry ==
  /\ cli = "entries" /\ down # <<>> /\ down' = Tail(down)
  /\ crounds' = crounds - 1
  /\ cli' = IF crounds' = 0 THEN "prompt" ELSE "entries"
  /\ UNCHANGED <<program, up, garbled, server, message, csize, cpos, cfiles, typed, offered>>

\* UPLOAD: without a local file fstat fails and the client exits
SendSize ==
  /\ cli = "stat" /\ message.name \in DOMAIN cfiles
  /\ up' = Append(up, Size(Len(cfiles[message.name])))
  /\ cpos' = 0 /\ cli' = "send"
  /\ UNCHANGED <<program, down, garbled, server, message, csize, crounds, cfiles, typed,
                 offered>>

StatFailure ==
  /\ cli = "stat" /\ message.name \notin DOMAIN cfiles /\ cli' = "gone"
  /\ UNCHANGED <<program, up, down, garbled, server, message, csize, crounds, cpos, cfiles,
                 typed, offered>>

SendChunk ==
  /\ cli = "send" /\ cpos < Len(cfiles[message.name])
  /\ up' = Append(up, Data(Chunk(cfiles[message.name], cpos)))
  /\ cpos' = cpos + BUFFER_SIZE
  /\ UNCHANGED <<program, down, garbled, server, cli, message, csize, crounds, cfiles, typed,
                 offered>>

SendEnd ==
  /\ cli = "send" /\ cpos >= Len(cfiles[message.name]) /\ cli' = "prompt"
  /\ UNCHANGED <<program, up, down, garbled, server, message, csize, crounds, cpos, cfiles,
                 typed, offered>>
-----------------------------------------------------------------------------
\* a read of up to 1024 bytes that TCP merges or splits, or of something else
\* than what the reader expects
Garble ==
  /\ \/ srv = "query" /\ (Len(up) >= 2 \/ (up # <<>> /\ Head(up).k # "query"))
     \/ srv = "size" /\ up # <<>> /\ Head(up).k # "size"
     \/ srv = "receive" /\ rounds > 0 /\ up # <<>>
     \/ cli = "chunks" /\ crounds > 0 /\ down # <<>>
  /\ garbled' = TRUE
  /\ UNCHANGED <<program, up, down, server, client, offered>>

Traitement_requete ==
  \/ ReadQuery \/ DownloadMissing \/ DownloadFound \/ DownloadChunk \/ DownloadEnd
  \/ List \/ UploadOpen \/ UploadChunk \/ UploadEnd \/ Killed
ClientStep ==
  \/ ReadRep \/ ReadChunk \/ ReadEnd \/ ReadCount \/ ReadEntry
  \/ SendSize \/ StatFailure \/ SendChunk \/ SendEnd

SessionNext == ~ garbled /\ (Traitement_requete \/ ClientStep \/ Command \/ Quit \/ Garble)

SessionSpec == SessionInit /\ [][SessionNext]_session

(* Both sides run; the user need not type anything.                        *)
FairSessionSpec ==
  /\ SessionSpec
  /\ WF_session(~ garbled /\ Traitement_requete) /\ WF_session(~ garbled /\ ClientStep)
-----------------------------------------------------------------------------
(* The count of the reads is that of the writes only for a file whose last *)
(* buffer is not full.                                                     *)
Fits(n) == n % BUFFER_SIZE # 0

(* When the client is back at its prompt nothing is left in the stream for *)
(* its next command to misread, and a downloaded file is the server's.     *)
DownloadExact ==
  cli = "prompt" =>
    /\ down = <<>>
    /\ message.op = "D" /\ csize > 0 => cfiles[message.name] = offered

(* Once the server has handled an upload, and until it reads the next      *)
(* request, its file is the client's.                                      *)
UploadExact ==
  srv = "query" /\ requete.op = "U" /\ Connected /\ Fits(size) =>
    sfiles[fusion] = cfiles[requete.name]

(* "le serveur n'a jamais entendu parler de votre fichier" (TME08/src/     *)
(* ftpClient.c line 123): the server refuses only what it does not have.   *)
RefusedMeansMissing ==
  down # <<>> /\ Head(down) = Found(FALSE) => <<message.name>> \notin DOMAIN sfiles

(* Every command ends, unless its client is for ever reading a file whose  *)
(* size is a multiple of the buffer, or the list of TME07, or the server   *)
(* has taken the command for the last buffer of such an upload.            *)
Busy == cli \notin {"prompt", "gone"}
Hopeless ==
  \/ cli = "chunks" /\ ~ Fits(csize)
  \/ cli = "entries" /\ program = "TME07"
  \/ srv \in {"receive", "query"} /\ requete.op = "U" /\ ~ Fits(size)
Answered == [](Busy => <>(~ Busy \/ garbled \/ []Hopeless))
-----------------------------------------------------------------------------
(* The type invariant. *)
Query == [k : {"query"}, op : verif_message, name : Names]
Control == Query \cup [k : {"size"}, n : Nat] \cup [k : {"rep"}, found : BOOLEAN]
                 \cup [k : {"entry", "eof"}]
Unit == ({"server", "client"} \X Names \X Nat) \cup Control
Written == Control \cup [k : {"data"}, units : Seq(Unit)]
Path == Seq(Names \cup {"noslash"})

Asking(ops) == {m \in Query : m.op \in ops}

ServerTypeOK ==
  /\ srv \in {"query", "open", "send", "list", "size", "receive", "exit"}
  /\ requete \in Query \cup {NoOp}
  /\ srv \in {"open", "send"} => requete \in Asking({"D"})
  /\ srv = "list" => requete \in Asking({"L"})
  /\ srv \in {"size", "receive"} => requete \in Asking({"U"})
  /\ data_dir \in Path /\ fusion \in Path
  /\ size \in Nat /\ rounds \in Nat /\ pos \in Nat
  /\ sfiles \in [DOMAIN sfiles -> Seq(Unit)]
  /\ DOMAIN sfiles \subseteq Path /\ IsFiniteSet(DOMAIN sfiles)
  /\ srv \in {"send", "receive"} => fusion \in DOMAIN sfiles

ClientTypeOK ==
  /\ cli \in {"prompt", "rep", "chunks", "count", "entries", "stat", "send", "gone"}
  /\ message \in Query \cup {NoOp}
  /\ cli \in {"rep", "chunks"} => message \in Asking({"D"})
  /\ cli \in {"count", "entries"} => message \in Asking({"L"})
  /\ cli \in {"stat", "send"} => message \in Asking({"U"})
  /\ csize \in Nat /\ crounds \in Nat /\ cpos \in Nat /\ typed \in 0 .. MaxCmds
  /\ cfiles \in [DOMAIN cfiles -> Seq(Unit)] /\ DOMAIN cfiles \subseteq Names
  /\ cli \in {"chunks", "send"} => message.name \in DOMAIN cfiles
  /\ cli = "entries" => crounds > 0

SessionTypeOK ==
  /\ program \in Programs /\ garbled \in BOOLEAN
  /\ up \in Seq(Written) /\ down \in Seq(Written) /\ offered \in Seq(Unit)
  /\ ServerTypeOK /\ ClientTypeOK
-----------------------------------------------------------------------------
(* The inductive invariant of the proofs.  While the client is connected   *)
(* the two sides are in one of three situations: what is in the stream to  *)
(* the server is what it is about to read (Uploading), what is in the      *)
(* stream to the client is the answer to its request (Answering), or the   *)
(* server has read one message too many and never finds a request again.   *)

\* part is the beginning of the file, and reads are those to come
Partial(part, file, reads) ==
  /\ Len(part) <= Len(file) /\ part = SubSeq(file, 1, Len(part))
  /\ IF Len(part) < Len(file)
     THEN LET rest == Len(file) - Len(part) IN
          reads = Rounds(rest) /\ (Fits(rest) <=> Fits(Len(file)))
     ELSE reads = IF Fits(Len(file)) THEN 0 ELSE 1

\* what the server is to read next: a query, the rest of one (k is then its
\* operation), or data from a position of a file of the client
Due(k, name, at) == [k |-> k, name |-> name, at |-> at]
QueryDue == Due("query", "none", 0)
DataDue(files, name, at) == IF at < Len(files[name]) THEN Due("data", name, at) ELSE QueryDue
Dues == [k : {"query", "data"} \cup verif_message, name : Names \cup {"none"}, at : Nat]

\* m is what is due at d, and e is due after it
Carries(files, m, d, e) ==
  \/ d = QueryDue /\ m \in Query /\ e = Due(m.op, m.name, 0)
  \/ /\ d.k = "U" /\ d.name \in DOMAIN files
     /\ m = Size(Len(files[d.name])) /\ e = DataDue(files, d.name, 0)
  \/ /\ d.k = "data" /\ d.name \in DOMAIN files /\ m = Data(Chunk(files[d.name], d.at))
     /\ e = DataDue(files, d.name, d.at + BUFFER_SIZE)

\* the messages of a stream, from what is due at d to what is due at e
Stream(files, messages, d, e) ==
  \E due \in [1 .. Len(messages) + 1 -> Dues] :
    /\ due[1] = d /\ due[Len(messages) + 1] = e
    /\ \A i \in 1 .. Len(messages) : Carries(files, messages[i], due[i], due[i + 1])

ServerAt(d) ==
  \/ /\ srv = "query" /\ d = QueryDue
     /\ requete.op = "U" /\ Fits(size) => sfiles[fusion] = cfiles[requete.name]
  \/ srv = "send" /\ pos >= Len(sfiles[fusion]) /\ d = QueryDue
  \/ srv = "size" /\ d = Due("U", requete.name, 0)
  \/ /\ srv = "receive" /\ requete.name \in DOMAIN cfiles
     /\ size = Len(cfiles[requete.name])
     /\ Partial(sfiles[fusion], cfiles[requete.name], rounds)
     /\ d = DataDue(cfiles, requete.name, Len(sfiles[fusion]))

ClientAt(d) ==
  \/ cli = "prompt" /\ d = QueryDue
  \/ cli \in {"stat", "rep", "count"} /\ d = Due(message.op, message.name, 0)
  \/ cli = "send" /\ d = DataDue(cfiles, message.name, cpos)

Uploading ==
  /\ down = <<>>
  /\ \E d, e \in Dues : Stream(cfiles, up, d, e) /\ ServerAt(d) /\ ClientAt(e)
  /\ cli = "prompt" /\ message.op # "U" => up = <<>>
  /\ cli = "prompt" /\ message.op = "D" /\ csize > 0 => cfiles[message.name] = offered

\* the buffers of a file from one position on, up to another
Buffers(file, buffers, from, to) ==
  \E at \in [1 .. Len(buffers) + 1 -> Nat] :
    /\ at[1] = from /\ at[Len(buffers) + 1] = to
    /\ \A i \in 1 .. Len(buffers) :
         /\ at[i] < Len(file) /\ at[i + 1] = at[i] + BUFFER_SIZE
         /\ buffers[i] = Data(Chunk(file, at[i]))

\* the server has written some buffers of the file, of which the client has
\* read so many units and the others are in the stream
Offering(buffers, read) ==
  /\ \/ srv = "send" /\ sfiles[fusion] = offered
     \/ srv = "query" /\ pos >= Len(offered)
  /\ \E from \in Nat :
       /\ read = IF from < Len(offered) THEN from ELSE Len(offered)
       /\ Buffers(offered, buffers, from, pos)

AnswerToDownload ==
  \/ cli = "rep" /\ srv = "open" /\ down = <<>>
  \/ cli = "rep" /\ srv = "query" /\ down = <<Found(FALSE), Size(0)>>
  \/ /\ cli = "rep" /\ Len(down) >= 2
     /\ down[1] = Found(TRUE) /\ down[2] = Size(Len(offered))
     /\ Offering(Tail(Tail(down)), 0)
  \/ /\ cli = "chunks" /\ csize = Len(offered)
     /\ Partial(cfiles[message.name], offered, crounds)
     /\ Offering(down, Len(cfiles[message.name]))

AnswerToList ==
  \/ cli = "count" /\ srv = "list" /\ down = <<>>
  \/ /\ cli = "count" /\ srv = "query" /\ down # <<>>
     /\ Head(down).k = "size" /\ Len(down) <= Head(down).n + 2
  \/ cli = "entries" /\ srv = "query" /\ Len(down) <= crounds

Answering ==
  /\ up = <<>>
  /\ \/ requete.op = "D" /\ AnswerToDownload
     \/ requete.op = "L" /\ AnswerToList

Lost ==
  /\ srv \in {"receive", "query"} /\ requete.op = "U" /\ ~ Fits(size)
  /\ srv = "receive" => rounds = 0
  /\ down = <<>>
  /\ cli \in {"prompt", "stat", "send", "rep", "count"}
  /\ cli = "prompt" => message.op = "U"
  /\ IF up = <<>> THEN cli \in {"stat", "rep", "count"} ELSE Head(up).k # "query"

SessionInv ==
  /\ SessionTypeOK
  /\ Connected => Uploading \/ Answering \/ Lost
=============================================================================
