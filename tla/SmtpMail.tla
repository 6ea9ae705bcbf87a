------------------------------ MODULE SmtpMail ------------------------------
(***************************************************************************)
(* The class SmtpMail: one object keeps the recipients and the attachments *)
(* it was given; SendMail() builds the MIME message, with every attachment *)
(* read from the disk and encoded line by line, and gives it to libcurl.   *)
(* Files may change meanwhile: a monitor attaches what others write.       *)
(*                                                                         *)
(* The text around the attachments is left out.  fread is the C library's: *)
(* it reads a block of the file when its buffer is short of a line, and    *)
(* not again after it has met the end of the file (C99; glibc since 2.28). *)
(*                                                                         *)
(* A definition named A_Something is not part of the model: it is A with a *)
(* fault, kept to show that a property notices the fault.                  *)
(***************************************************************************)
EXTENDS Codec

CONSTANTS Paths,        \* [dir: BOOLEAN, name: a name, type: a type or ""]
          Contents,     \* what a file may hold
          LineBytes,    \* bytes encoded in a line: 54
          BlockBytes,   \* bytes the C library reads at once: 4096
          MaxFiles,     \* bound on the attachments
          MaxMails,     \* bound on the calls of SendMail
          MaxChanges    \* bound on the changes of the disk

ASSUME PathsAssumption ==
  \A p \in Paths : p.dir \in BOOLEAN /\ p.name # "" /\ DOMAIN p = {"dir", "name", "type"}
ASSUME ContentsAssumption == Contents \subseteq Seq(Byte)
ASSUME LineAssumption == LineBytes \in Nat \ {0} /\ LineBytes % 3 = 0
ASSUME BlockAssumption == BlockBytes \in Nat \ {0}
ASSUME BoundsAssumption == {MaxFiles, MaxMails, MaxChanges} \subseteq Nat

Absent == <<-1>>     \* no sequence of bytes
Tries == 5

VARIABLES
  disk,         \* the files
  changes,      \* how often they have changed
  attached,     \* m_vAttachMent, never cleared
  pc,           \* where SendMail is: app, names, open, read, handle, perform,
                \* check
  mails,        \* how many SendMail there were
  next,         \* the attachment in hand
  filename, filetype,   \* locals of CreatMessage
  length,       \* of the file in hand, by ftell
  taken,        \* of the file in hand: all that read() has given the buffer
  eof,          \* the FILE has met the end
  message,      \* the parts of m_strMessage
  nTimes,       \* locals of SendMail
  failed,       \* res # CURLE_OK
  ret,
  \* Not in the program; the properties need them:
  copies,       \* how many copies of the mail the server has taken
  handle,       \* curl_easy_init has succeeded
  held          \* what the file in hand has held since it was measured

object == <<attached, mails>>
file == <<length, taken, eof, held>>
locals == <<next, filename, filetype, message, file>>
sending == <<nTimes, failed, ret, copies, handle>>
files == <<disk, changes>>
vars == <<files, object, pc, locals, sending>>

Init ==
  /\ disk \in [Paths -> Contents \union {Absent}] /\ changes = 0
  /\ attached = <<>> /\ mails = 0 /\ pc = "app"
  /\ next = 1 /\ filename = "" /\ filetype = "" /\ message = <<>>
  /\ length = 0 /\ taken = <<>> /\ eof = FALSE /\ held = {}
  /\ nTimes = 0 /\ failed = FALSE /\ ret = TRUE /\ copies = 0 /\ handle = TRUE

-----------------------------------------------------------------------------
\* Another process writes a file, open or not, or removes one that is not open.
Open(p) == pc = "read" /\ p = attached[next]

Change(p) ==
  /\ changes < MaxChanges
  /\ changes' = changes + 1
  /\ \E c \in Contents \union {Absent} :
       /\ Open(p) => c # Absent
       /\ disk' = [disk EXCEPT ![p] = c]
       /\ held' = IF Open(p) THEN held \union {c} ELSE held
  /\ UNCHANGED <<object, pc, next, filename, filetype, message, length, taken, eof,
                 sending>>

AddAttachment(p) ==
  /\ pc = "app"
  /\ Len(attached) < MaxFiles
  /\ attached' = Append(attached, p)
  /\ UNCHANGED <<files, mails, pc, locals, sending>>

\* CreatMessage starts the message anew and knows no name yet.
SendMail_KeepsName ==
  /\ pc = "app" /\ mails < MaxMails
  /\ pc' = "names" /\ mails' = mails + 1
  /\ next' = 1 /\ filetype' = "" /\ message' = <<>>
  /\ nTimes' = 0 /\ failed' = FALSE /\ ret' = TRUE /\ copies' = 0 /\ handle' = TRUE
  /\ UNCHANGED <<files, attached, filename, file>>
SendMail ==
  /\ pc = "app"
  /\ mails < MaxMails
  /\ pc' = "names"
  /\ mails' = mails + 1
  /\ next' = 1 /\ filename' = "" /\ filetype' = "" /\ message' = <<>>
  /\ nTimes' = 0 /\ failed' = FALSE /\ ret' = TRUE
  /\ copies' = 0 /\ handle' = TRUE
  /\ UNCHANGED <<files, attached, file>>

\* A path without a directory leaves the name of the attachment before it, and
\* one without a dot the type.
GetFileName(p, old) == IF p.dir THEN p.name ELSE old
GetFileType(p, old) == IF p.type = "" THEN old ELSE p.type

\* The case of html has no break.
ContentType(t) ==
  CASE t = "txt" -> "plain/text"
    [] t = "xml" -> "text/xml"
    [] t \in {"html", "jpeg"} -> "image/jpeg"
    [] t = "png" -> "image/png"
    [] t = "gif" -> "image/gif"
    [] t = "exe" -> "application/x-msdownload"
    [] OTHER -> "application/octet-stream"

Part(name, type, lines) == [name |-> name, type |-> type, lines |-> lines,
                            held |-> {}, measured |-> 0]

PartHeader ==
  /\ pc = "names" /\ next <= Len(attached)
  /\ pc' = "open"
  /\ filename' = GetFileName(attached[next], filename)
  /\ filetype' = GetFileType(attached[next], filetype)
  /\ message' = Append(message, Part(filename', ContentType(filetype'), <<>>))
  /\ UNCHANGED <<files, object, next, file, sending>>

\* A file that cannot be opened leaves a part without a line.
OpenFile ==
  /\ pc = "open"
  /\ LET bytes == disk[attached[next]] IN
       IF bytes = Absent
       THEN pc' = "names" /\ next' = next + 1 /\ UNCHANGED file
       ELSE /\ pc' = "read" /\ length' = Len(bytes)
            /\ taken' = <<>> /\ eof' = FALSE /\ held' = {bytes}
            /\ UNCHANGED next
  /\ UNCHANGED <<files, object, filename, filetype, message, sending>>

\* len / 54 + 1 lines, whatever the file holds by now.
LinesToRead_Short(len) == len \div LineBytes
LinesToRead(len) == len \div LineBytes + 1

LinesRead == Len(message[Len(message)].lines)

Chunk(bytes, i) ==
  LET from == LineBytes * (i - 1)
      last == IF Len(bytes) < from + LineBytes THEN Len(bytes) ELSE from + LineBytes
  IN  SubSeq(bytes, from + 1, last)

\* fread, its buffer short of a line, reads the next block as the file is now.
ReadBlock ==
  /\ pc = "read" /\ LinesRead < LinesToRead(length)
  /\ ~eof /\ Len(taken) < LineBytes * (LinesRead + 1)
  /\ LET bytes == disk[attached[next]]
         most  == Len(taken) + BlockBytes
         last  == IF Len(bytes) < most THEN Len(bytes) ELSE most
     IN  taken' = taken \o SubSeq(bytes, Len(taken) + 1, last) /\ eof' = (last <= Len(taken))
  /\ UNCHANGED <<files, object, pc, next, filename, filetype, message, length, held,
                 sending>>

\* fread returns a line, or what there is of it.
ReadLine ==
  /\ pc = "read" /\ LinesRead < LinesToRead(length)
  /\ eof \/ Len(taken) >= LineBytes * (LinesRead + 1)
  /\ message' = [message EXCEPT ![Len(message)].lines =
                    Append(@, base64_encode(Chunk(taken, LinesRead + 1)))]
  /\ UNCHANGED <<files, object, pc, next, filename, filetype, file, sending>>

CloseFile ==
  /\ pc = "read" /\ LinesRead = LinesToRead(length)
  /\ pc' = "names" /\ next' = next + 1
  /\ message' = [message EXCEPT ![Len(message)].held = held,
                                ![Len(message)].measured = length]
  /\ length' = 0 /\ taken' = <<>> /\ eof' = FALSE /\ held' = {}
  /\ UNCHANGED <<files, object, filename, filetype, sending>>

EndMessage ==
  /\ pc = "names" /\ next > Len(attached)
  /\ pc' = "handle"
  /\ UNCHANGED <<files, object, locals, sending>>

-----------------------------------------------------------------------------
\* Without a handle nothing is sent, and ret is still true.
EasyInit ==
  /\ pc = "handle"
  /\ \/ pc' = "perform" /\ UNCHANGED handle
     \/ pc' = "app" /\ handle' = FALSE
  /\ UNCHANGED <<files, object, locals, nTimes, failed, ret, copies>>

\* curl_easy_perform: the server takes the whole of what payload_source reads
\* out of the message, or none of it; its answer may be lost.
Perform ==
  /\ pc = "perform" /\ pc' = "check"
  /\ \/ copies' = copies + 1 /\ failed' \in BOOLEAN
     \/ failed' = TRUE /\ UNCHANGED copies
  /\ UNCHANGED <<files, object, locals, nTimes, ret, handle>>

\* The loop complains five times and does not send again.
Complain_Resends ==
  /\ pc = "check" /\ failed /\ nTimes < Tries
  /\ nTimes' = nTimes + 1 /\ pc' = "perform"
  /\ UNCHANGED <<files, object, locals, failed, ret, copies, handle>>
Complain_ForEver ==
  /\ pc = "check" /\ failed
  /\ nTimes' = (nTimes + 1) % Tries /\ ret' = FALSE
  /\ UNCHANGED <<files, object, pc, locals, failed, copies, handle>>
Complain ==
  /\ pc = "check" /\ failed
  /\ nTimes' = nTimes + 1
  /\ IF nTimes' > Tries THEN pc' = "app" /\ UNCHANGED ret
                        ELSE ret' = FALSE /\ UNCHANGED pc
  /\ UNCHANGED <<files, object, locals, failed, copies, handle>>

Return ==
  /\ pc = "check" /\ ~failed
  /\ pc' = "app"
  /\ UNCHANGED <<files, object, locals, sending>>

Mailer ==
  \/ PartHeader \/ OpenFile \/ ReadBlock \/ ReadLine \/ CloseFile \/ EndMessage
  \/ EasyInit \/ Complain \/ Return

Next ==
  \/ \E p \in Paths : Change(p) \/ AddAttachment(p)
  \/ SendMail \/ Mailer \/ Perform

\* The program runs on; the server may never answer, there is no timeout.
Spec == Init /\ [][Next]_vars /\ WF_vars(Mailer)

-----------------------------------------------------------------------------
\* Type invariant.
TypeOK ==
  /\ disk \in [Paths -> Contents \union {Absent}]
  /\ changes \in 0 .. MaxChanges /\ mails \in 0 .. MaxMails
  /\ attached \in Seq(Paths) /\ Len(attached) <= MaxFiles
  /\ pc \in {"app", "names", "open", "read", "handle", "perform", "check"}
  /\ next \in 1 .. MaxFiles + 1 /\ length \in Nat
  /\ nTimes \in 0 .. Tries + 1
  /\ {failed, ret, handle, eof} \subseteq BOOLEAN
  /\ held \subseteq Contents
  /\ copies \in Nat
  /\ \A i \in 1 .. Len(message) :
       \A k \in 1 .. Len(message[i].lines) :
         message[i].lines[k] \in Seq(Digit \union {Pad})

\* A finished message has a part for every attachment, in their order, and
\* whoever joins the lines of a part and decodes them has the file, if it did not
\* change between measuring and closing.  If it did, he has at every place a byte
\* that the file held there in that time, of one content or of several, and no
\* fewer bytes than were measured unless the file was shorter for a while.
AttachmentsDecode ==
  pc = "handle" =>
    /\ Len(message) = Len(attached)
    /\ \A i \in 1 .. Len(message) :
         LET part == message[i]
             got  == base64_decode(Joined(part.lines))
         IN  /\ \A c \in part.held : part.held = {c} => got = c
             /\ \A k \in 1 .. Len(got) :
                  \E c \in part.held : k <= Len(c) /\ got[k] = c[k]
             /\ \/ Len(got) >= part.measured
                \/ \E c \in part.held : Len(c) < part.measured

\* A part is named after its own path, or, when that has no directory, after
\* an earlier attachment of the same mail; never after one of another mail.
NamesOfThisMail ==
  \A i \in 1 .. Len(message) :
    /\ message[i].name \in {""} \union {attached[k].name : k \in 1 .. i}
    /\ attached[i].dir => message[i].name = attached[i].name

\* SendMail tells the truth when it returns true with a handle: the server has
\* taken the mail; and it never takes a second copy, however many failures the
\* loop counts.  (False may mean that only the answer was lost, and true
\* without a handle that nothing was sent.)
TakenOnce ==
  /\ copies <= 1
  /\ pc = "app" /\ mails > 0 /\ ret /\ handle => copies = 1

\* The two encoders and the two decoders are interchangeable, also for texts
\* that are not base64 of anything, and the one inverts the other.  A base64
\* signature goes through urlEncode unchanged, and any bytes through escapeURL;
\* urlEncode itself is right only for characters 1 to 127.
CodecsAgree ==
  \A p \in Paths : disk[p] # Absent =>
    /\ base64_encode(disk[p]) = base64_encodestr(disk[p])
    /\ base64_decode(base64_encode(disk[p])) = disk[p]
    /\ base64_decode(disk[p]) = base64_decodestr(disk[p])
    /\ LET sig == base64_chars(base64_encode(disk[p]))
       IN  deescapeURL(urlEncode(sig)) = sig
    /\ deescapeURL(escapeURL(disk[p])) = disk[p]
    /\ disk[p] \in Seq(1 .. 127) => deescapeURL(urlEncode(disk[p])) = disk[p]

\* SendMail returns unless the server keeps it waiting for ever.
SendMailReturns == []<>(pc # "perform") => (pc # "app" ~> pc = "app")
=============================================================================
