----------------------------- MODULE Attachments -----------------------------
(***************************************************************************)
(* FileProcessingService: the files attached to a message are downloaded,  *)
(* read and copied to the sandbox in parallel, and the agent's process_file *)
(* tool reads one more file meanwhile.                                      *)
(*                                                                         *)
(* A file is a record [name, stem, kind, plain, source, size]: its name as *)
(* the sandbox takes it and that name without its extension, the category  *)
(* of the type it claims, whether that type is plain text, where it is, and *)
(* the size the client reports (0 when it reports none).  Sizes are counted *)
(* in units; a call of the AI model costs one.                              *)
(***************************************************************************)
EXTENDS Integers, Sequences

CONSTANTS
  Uploads,       (* sequences of files a message may come with                *)
  Named,         (* files the tool may be asked for                          *)
  Sizes,         (* sizes a download may turn out to have                     *)
  MaxFile,       (* MAX_FILE_SIZE                                             *)
  MaxTotal,      (* MAX_TOTAL_SIZE                                            *)
  EmptyAnswers   (* the AI model may answer a URL with an empty text          *)

Visual == {"image", "video"}
Kinds == Visual \cup {"document", "audio"}

AttachmentsAssumption ==
  /\ MaxFile \in Nat \ {0} /\ MaxTotal \in Nat \ {0}
  /\ Sizes \subseteq Nat \ {0}
  /\ EmptyAnswers \in BOOLEAN
  /\ \A u \in Uploads :
       /\ Len(u) \in Nat /\ DOMAIN u = 1..Len(u)
       /\ \A i \in 1..Len(u) : u[i].source \in {"http", "mxc", "event", "none"}
ASSUME AttachmentsAssumption

VARIABLES
  files,     (* the attachments of the message                               *)
  item,      (* item[i]: how far processAttachment got with files[i]          *)
  reply,     (* what processAttachments did: texts, metadata and usage        *)
  tool,      (* the process_file call                                         *)
  sandbox,   (* sandbox[p]: what was uploaded last to path p                  *)
  spent      (* AI calls paid for so far: by attachments and by the tool      *)

fileVars == <<files, item, reply, tool, sandbox, spent>>

Nothing == "nothing"
NoTool == [pc |-> "idle"]
Of(i) == files[i]
Items == DOMAIN files

-----------------------------------------------------------------------------
(* The calls to the outside: each is the set of its possible results.        *)

(* downloadFromUrl, downloadFromMatrix, downloadFromMatrixEvent: the bytes    *)
(* have a size and perhaps a signature; a URL is read up to the size limit.  *)
Bytes == [size : Sizes, magic : Kinds \cup {Nothing}]
DownloadFromUrl == {b \in Bytes : b.size <= MaxFile}
DownloadFromMatrix == Bytes
DownloadFromMatrixEvent == Bytes
Download(source) ==
  CASE source = "http" -> DownloadFromUrl
    [] source = "mxc" -> DownloadFromMatrix
    [] source = "event" -> DownloadFromMatrixEvent

(* aiProcess and aiProcessFromUrl answer with a text, which may be empty, or  *)
(* fail before anything is charged.                                          *)
AiProcess == {"fails", "text"}
AiProcessFromUrl == {"fails", "text"} \cup (IF EmptyAnswers THEN {"empty"} ELSE {})

(* headUrl: the content type the server reports, or none when it fails.       *)
HeadUrl == Kinds \cup {Nothing, "html"}

(* verifyMagicBytes: plain text is not looked at, unknown bytes pass.         *)
VerifyMagicBytes(b, kind, plain) == plain \/ b.magic \in {Nothing, kind}

(* processDocument: plain text is read as it is, other documents by a local   *)
(* parser, which may fail; everything else goes to the AI model.             *)
Reader(kind, plain) ==
  IF kind # "document" THEN {"ai"} ELSE IF plain THEN {"parsed"} ELSE {"parsed", "ai"}

-----------------------------------------------------------------------------
(* processAttachment                                                         *)

Started == [pc |-> "check", down |-> 0, text |-> Nothing, usage |-> 0,
            path |-> {}, analysis |-> {}]

Set(i, r) == item' = [item EXCEPT ![i] = r]
Rest(i) == /\ i \in Items /\ reply.state = "running"
           /\ UNCHANGED <<files, reply, tool>>

(* Whatever is thrown becomes the text of the attachment; nothing counts as   *)
(* downloaded and no usage is reported.                                      *)
Fail(i) == Set(i, [Started EXCEPT !.pc = "done", !.text = "error"])

(* The checks before anything is read, on what the client reports.            *)
Validate(i) ==
  LET f == Of(i) IN
  /\ Rest(i) /\ item[i].pc = "check" /\ UNCHANGED <<sandbox, spent>>
  /\ \/ (f.source = "none" \/ f.size > MaxFile \/ f.size > MaxTotal) /\ Fail(i)
     \/ /\ f.source # "none" /\ f.size <= MaxFile /\ f.size <= MaxTotal
        /\ IF f.kind \notin Kinds
             THEN Set(i, [item[i] EXCEPT !.pc = "done", !.text = "unsupported"])
             ELSE Set(i, [item[i] EXCEPT !.pc =
                    IF f.source = "http" /\ f.kind \in Visual THEN "pass" ELSE "load"])

(* An image or video behind a URL is first shown to the AI model as it is.    *)
PassUrl(i) ==
  /\ Rest(i) /\ item[i].pc = "pass" /\ UNCHANGED sandbox
  /\ \E a \in AiProcessFromUrl :
       /\ spent' = IF a = "fails" THEN spent ELSE [spent EXCEPT !.files = @ + 1]
       /\ Set(i, IF a = "text"
                   THEN [item[i] EXCEPT !.pc = "done", !.text = "content", !.usage = 1]
                   ELSE [item[i] EXCEPT !.pc = "load"])

Load(i) ==
  LET f == Of(i) IN
  /\ Rest(i) /\ item[i].pc = "load" /\ UNCHANGED <<sandbox, spent>>
  /\ \/ Fail(i)
     \/ \E b \in Download(f.source) :
          IF b.size > MaxFile \/ ~VerifyMagicBytes(b, f.kind, f.plain) THEN Fail(i)
          ELSE \E r \in Reader(f.kind, f.plain) :
                 Set(i, [item[i] EXCEPT !.down = b.size, !.text = "content",
                                        !.pc = IF r = "ai" THEN "ask" ELSE "copy"])

Ask(i) ==
  /\ Rest(i) /\ item[i].pc = "ask" /\ UNCHANGED sandbox
  /\ \E a \in AiProcess :
       IF a = "fails" THEN Fail(i) /\ UNCHANGED spent
       ELSE /\ spent' = [spent EXCEPT !.files = @ + 1]
            /\ Set(i, [item[i] EXCEPT !.pc = "copy", !.usage = 1])

(* The file goes to the sandbox under its name; a failure is only noted.      *)
Dest(f) == <<f.name, "file">>
AnalysisDest(f) == <<f.stem, "analysis">>

Copy(i) ==
  LET f == Of(i) IN
  /\ Rest(i) /\ item[i].pc = "copy" /\ UNCHANGED spent
  /\ \/ /\ Set(i, [item[i] EXCEPT !.pc = "done"]) /\ UNCHANGED sandbox
     \/ /\ sandbox' = [sandbox EXCEPT ![Dest(f)] = {i}]
        /\ Set(i, [item[i] EXCEPT !.path = {Dest(f)},
                     !.pc = IF f.kind = "document" THEN "done" ELSE "note"])

(* What the AI model said of it is saved beside it.                           *)
Note(i) ==
  LET f == Of(i) IN
  /\ Rest(i) /\ item[i].pc = "note" /\ UNCHANGED spent
  /\ \/ /\ Set(i, [item[i] EXCEPT !.pc = "done"]) /\ UNCHANGED sandbox
     \/ /\ sandbox' = [sandbox EXCEPT ![AnalysisDest(f)] = {i}]
        /\ Set(i, [item[i] EXCEPT !.pc = "done", !.analysis = {AnalysisDest(f)}])

-----------------------------------------------------------------------------
(* processAttachments, and the caller in sendMessage                          *)

NoReply == [state |-> "idle", texts |-> << >>, metadata |-> << >>, usage |-> 0, billed |-> 0]

Sum(f) ==
  LET s[i \in 0..Len(files)] == IF i = 0 THEN 0 ELSE s[i - 1] + f[i]
  IN s[Len(files)]

Begin ==
  /\ reply.state = "idle"
  /\ UNCHANGED <<files, item, tool, sandbox, spent>>
  /\ reply' = [reply EXCEPT !.state =
       IF Sum([i \in Items |-> Of(i).size]) > MaxTotal THEN "thrown" ELSE "running"]

(* Results are taken in the order of the attachments; a result without a text *)
(* has no metadata either.                                                    *)
InOrder(S) ==
  LET upto[n \in 0..Len(files)] ==
        IF n = 0 THEN << >> ELSE IF n \in S THEN Append(upto[n - 1], n) ELSE upto[n - 1]
  IN upto[Len(files)]

WithText == InOrder({i \in Items : item[i].text # Nothing})
WithMetadata_supported == InOrder({i \in Items : item[i].text = "content"})
WithMetadata == InOrder({i \in Items : item[i].text # Nothing})

Collect ==
  /\ reply.state = "running" /\ \A i \in Items : item[i].pc = "done"
  /\ UNCHANGED <<files, item, tool, sandbox, spent>>
  /\ reply' =
       IF Sum([i \in Items |-> item[i].down]) > MaxTotal
         THEN [reply EXCEPT !.state = "thrown"]
         ELSE [reply EXCEPT !.state = "done", !.texts = WithText, !.metadata = WithMetadata,
                            !.usage = Sum([i \in Items |-> item[i].usage])]

(* The credits of the calls are taken; a failure to do so is only logged.     *)
Deduct ==
  /\ reply.state = "done" /\ UNCHANGED <<files, item, tool, sandbox, spent>>
  /\ \/ reply' = [reply EXCEPT !.state = "sent", !.billed = reply.usage]
     \/ reply' = [reply EXCEPT !.state = "sent"]

-----------------------------------------------------------------------------
(* The process_file tool                                                     *)

Turn(r) == tool' = r /\ UNCHANGED <<files, item, reply>>
Say(text) == Turn([tool EXCEPT !.pc = "end", !.text = text])
Charge(n) == spent' = [spent EXCEPT !.tool = @ + n]

(* processFileFromUrl: a type known from the name decides; otherwise the       *)
(* server is asked for it.  Copies, events and Matrix media are downloaded.   *)
Route(f, copy) ==
  IF copy \/ f.source # "http" THEN "load"
  ELSE IF f.kind \in Visual THEN "pass"
  ELSE IF f.kind \in Kinds THEN "load"
  ELSE "head"

Invoke ==
  /\ tool = NoTool /\ reply.state = "sent" /\ UNCHANGED <<sandbox, spent>>
  /\ \E f \in Named, copy \in BOOLEAN :
       Turn([pc |-> Route(f, copy), file |-> f, copy |-> copy, loads |-> 0, calls |-> 0,
             text |-> Nothing, path |-> {}])

FindType ==
  /\ tool.pc = "head" /\ UNCHANGED <<sandbox, spent>>
  /\ \E h \in HeadUrl :
       Turn([tool EXCEPT !.pc = IF h \in {"document", "audio"} THEN "load" ELSE "pass"])

(* tryUrlPassthrough, and the last attempt with a URL of unknown type.         *)
TryUrlPassthrough ==
  /\ tool.pc = "pass" /\ UNCHANGED sandbox
  /\ \E a \in AiProcessFromUrl :
       /\ Charge(IF a = "fails" THEN 0 ELSE 1)
       /\ IF a = "text" THEN Turn([tool EXCEPT !.pc = "end", !.text = "content", !.calls = @ + 1])
          ELSE Turn([tool EXCEPT !.pc = "load", !.calls = @ + 1])

(* The type of a download: as named, else as its bytes or its server say.      *)
Resolved(f, b, http) ==
  IF f.kind \in Kinds THEN f.kind ELSE IF b.magic # Nothing THEN b.magic ELSE http

(* downloadAndProcess, downloadAndProcessFile, processFileFromEventId.         *)
DownloadAndProcess ==
  LET f == tool.file IN
  /\ tool.pc = "load" /\ UNCHANGED <<sandbox, spent>>
  /\ \/ Say("error")
     \/ \E b \in Download(f.source) :
          \E http \in IF f.source = "http" THEN Kinds \cup {Nothing} ELSE {Nothing} :
            LET kind == Resolved(f, b, http)
                got == [tool EXCEPT !.loads = @ + 1]
            IN CASE b.size > MaxFile -> Say("error")
                 [] kind = Nothing ->
                      Turn([got EXCEPT !.text = "unsupported",
                                       !.pc = IF tool.copy THEN "copy" ELSE "end"])
                 [] kind # Nothing /\ ~VerifyMagicBytes(b, kind, f.plain) -> Say("error")
                 [] OTHER -> \E r \in Reader(kind, f.plain) :
                      Turn([got EXCEPT !.text = "content",
                              !.pc = IF r = "ai" THEN "ask"
                                     ELSE IF tool.copy THEN "copy" ELSE "end"])

ToolAsk ==
  /\ tool.pc = "ask" /\ UNCHANGED sandbox
  /\ \E a \in AiProcess :
       IF a = "fails" THEN Say("error") /\ UNCHANGED spent
       ELSE Charge(1) /\ Turn([tool EXCEPT !.calls = @ + 1,
                                          !.pc = IF tool.copy THEN "copy" ELSE "end"])

ToolCopy ==
  /\ tool.pc = "copy" /\ UNCHANGED spent
  /\ \/ Say(tool.text) /\ UNCHANGED sandbox
     \/ /\ sandbox' = [sandbox EXCEPT ![Dest(tool.file)] = {0}]
        /\ Turn([tool EXCEPT !.pc = "end", !.path = {Dest(tool.file)}])

-----------------------------------------------------------------------------
Paths ==
  LET all == (UNION {{u[i] : i \in DOMAIN u} : u \in Uploads}) \cup Named
  IN {Dest(f) : f \in all} \cup {AnalysisDest(f) : f \in all}

Init ==
  /\ files \in Uploads
  /\ item = [i \in Items |-> Started]
  /\ reply = NoReply
  /\ tool = NoTool
  /\ sandbox = [p \in Paths |-> {}]
  /\ spent = [files |-> 0, tool |-> 0]

Next ==
  \/ Begin \/ Collect \/ Deduct
  \/ \E i \in Items :
       Validate(i) \/ PassUrl(i) \/ Load(i) \/ Ask(i) \/ Copy(i) \/ Note(i)
  \/ Invoke \/ FindType \/ TryUrlPassthrough \/ DownloadAndProcess \/ ToolAsk \/ ToolCopy

Spec == Init /\ [][Next]_fileVars

-----------------------------------------------------------------------------
(* Types of the variables.                                                   *)
TypeOK ==
  /\ files \in Uploads
  /\ \A i \in Items :
       /\ item[i].pc \in {"check", "pass", "load", "ask", "copy", "note", "done"}
       /\ item[i].down \in 0..MaxFile /\ item[i].usage \in 0..1
       /\ item[i].text \in {Nothing, "error", "unsupported", "content"}
  /\ reply.state \in {"idle", "running", "thrown", "done", "sent"}
  /\ tool.pc \in {"idle", "head", "pass", "load", "ask", "copy", "end"}

(* sendMessage pairs texts and metadata by position (messages.service.ts:1171): *)
(* both lists name every attachment once and in order, however each of them    *)
(* ended, so that no text is shown under the source of another file.           *)
TextsArePaired ==
  reply.state \in {"done", "sent"} =>
    reply.texts = [i \in 1..Len(files) |-> i] /\ reply.metadata = reply.texts

(* What processAttachments read into memory for a message it let through stays *)
(* within the limits, although reported sizes may be missing or wrong and the  *)
(* downloads run in parallel.                                                  *)
WithinBudget ==
  reply.state \in {"done", "sent"} =>
    /\ Sum([i \in Items |-> item[i].down]) <= MaxTotal
    /\ \A i \in Items : item[i].down <= MaxFile

(* A path the model is told holds the file it is told to hold, or the analysis  *)
(* of it, although uploads run in parallel and share one directory.            *)
PathsHold ==
  /\ \A i \in Items :
       \A p \in item[i].path \cup item[i].analysis : sandbox[p] = {i}
  /\ tool # NoTool => \A p \in tool.path : sandbox[p] = {0}

(* The tool answers after one download at most ("so we avoid downloading the   *)
(* file twice") and at most two calls of the model, and never throws.          *)
ToolIsFrugal ==
  tool # NoTool =>
    /\ tool.loads <= 1 /\ tool.calls <= 2
    /\ tool.pc = "end" => tool.text # Nothing

(* No message is billed for more than was spent on it.                         *)
BilledWasSpent == reply.billed <= spent.files

(* Violated with EmptyAnswers, and by any message over the total: the usage of  *)
(* calls whose answer was dropped is not deducted.                              *)
SpentIsBilled == reply.state = "sent" /\ reply.billed = reply.usage => reply.billed = spent.files

(* Files that meet in a sandbox have names that differ there, and stems that     *)
(* differ when both are analysed.                                               *)
NamesDiffer ==
  \A u \in Uploads : \A i \in DOMAIN u :
    /\ \A j \in DOMAIN u : i # j =>
         /\ u[i].name # u[j].name
         /\ u[i].stem # u[j].stem \/ u[i].kind = "document" \/ u[j].kind = "document"
    /\ \A f \in Named : f.name # u[i].name

(* Attached files (processAttachments, process_file): each text is shown under *)
(* its own file, what is read stays within the limits, a path that is told      *)
(* holds what it is told to hold, and no more is billed than was spent.         *)
FilesAreRead ==
  TypeOK /\ TextsArePaired /\ WithinBudget /\ PathsHold /\ ToolIsFrugal /\ BilledWasSpent
=============================================================================
