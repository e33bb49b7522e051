------------------------------ MODULE ChatExport ------------------------------
(* Reading a WhatsApp export: intake/whatsapp_export.py. The transcript is   *)
(* read line by line under one calendar, chosen once from all its stamps; a  *)
(* line without a stamp continues the message before it.                     *)
(*                                                                           *)
(* A line is [stamp, from, body]: the first two numbers of its date, or      *)
(* NoStamp; the sender before the first ": ", or NoSender for a system line; *)
(* and what it says, a word, a media marker or nothing. The year, the time   *)
(* of day and its format ladder are left out: they change no decision.       *)
EXTENDS Integers, Sequences, FiniteSets, SequencesExt

CONSTANTS
  Genuine,           \* the chats that were exported: [posts, dayFirst]
  Preamble,          \* the lines an export begins with
  People, Spoken,     \* who writes, and what a line can say
  NoStamp, NoSender,
  Blank, Markers,    \* an empty body; the bodies that name a media file
  Omitted,           \* the body "<Media omitted>"
  ZipMedia           \* the media files the export holds

VARIABLES transcript, at, current, messages
exportVars == <<transcript, at, current, messages>>

-----------------------------------------------------------------------------
(* The calendar. A number above 12 is a day.                                 *)
IsHeader(line) == line.stamp # NoStamp
Headers(lines) == {i \in DOMAIN lines : IsHeader(lines[i])}
DayLeads(stamp) == stamp[1] > 12 /\ stamp[2] <= 12
MonthLeads(stamp) == stamp[2] > 12 /\ stamp[1] <= 12

\* a slip, for the mutation runs: the first stamp decides
DayFirstByFirst(lines) ==
  \A i \in Headers(lines) : (\A j \in Headers(lines) : i <= j) => ~MonthLeads(lines[i].stamp)
DayFirst(lines) ==
  Cardinality({i \in Headers(lines) : MonthLeads(lines[i].stamp)})
    <= Cardinality({i \in Headers(lines) : DayLeads(lines[i].stamp)})

NoDate == <<0, 0>>
\* <<month, day>>, or NoDate when the stamp is no date in this order
Parse(stamp, dayFirst) ==
  LET date == IF dayFirst THEN <<stamp[2], stamp[1]>> ELSE <<stamp[1], stamp[2]>> IN
  IF date[1] \in 1..12 /\ date[2] \in 1..31 THEN date ELSE NoDate

-----------------------------------------------------------------------------
(* A message is turned out when the next one starts.                         *)
NoMessage == [date |-> NoDate, from |-> NoSender, body |-> <<>>]
Said(body) == SelectSeq(body, LAMBDA b : b # Blank)
Marked(body) == body[1] \in Markers

Media(body) ==
  IF Marked(body) THEN (IF body[1] \in ZipMedia THEN "kept" ELSE "missing")
  ELSE IF body[1] = Omitted THEN "missing" ELSE "none"
Text(body) == IF Media(body) = "none" THEN Said(body) ELSE Said(Tail(body))

Flush(m) ==
  IF m.date = NoDate \/ m.from = NoSender THEN <<>>
  ELSE IF Text(m.body) = <<>> /\ Media(m.body) = "none" THEN <<>>
  ELSE <<[date |-> m.date, from |-> m.from, text |-> Text(m.body), media |-> Media(m.body)]>>

(* What WhatsApp writes of a chat: its posts, each [date, from, body], one   *)
(* after the other, the first line of each with a stamp, in one date order.  *)
Concat(first, parts) ==
  LET upto[i \in 0..Len(parts)] == IF i = 0 THEN first ELSE upto[i - 1] \o parts[i]
  IN upto[Len(parts)]
Stamp(date, dayFirst) == IF dayFirst THEN <<date[2], date[1]>> ELSE date
Rendered(post, dayFirst) ==
  [i \in DOMAIN post.body |->
     [stamp |-> IF i = 1 THEN Stamp(post.date, dayFirst) ELSE NoStamp,
      from |-> IF i = 1 THEN post.from ELSE NoSender, body |-> post.body[i]]]
RenderedPosts(chat) == [i \in DOMAIN chat.posts |-> Rendered(chat.posts[i], chat.dayFirst)]
Export(chat) == Concat(Preamble, RenderedPosts(chat))
\* a stamp tells the order when one of its numbers is no month
Telling(chat) == chat.dayFirst \/ \E i \in DOMAIN chat.posts : chat.posts[i].date[2] > 12

Posts == [date : (1..12) \X (1..31), from : People \cup {NoSender}, body : Seq(Spoken) \ {<<>>}]
Lines == [stamp : ((1..31) \X (1..31)) \cup {NoStamp}, from : People \cup {NoSender}, body : Spoken]
ASSUME ExportAssumption ==
  /\ NoStamp \notin (1..31) \X (1..31)
  /\ Preamble \in Seq(Lines) /\ \A i \in DOMAIN Preamble : ~IsHeader(Preamble[i])
  /\ \A chat \in Genuine :
       chat.posts \in Seq(Posts) /\ chat.dayFirst \in BOOLEAN /\ Telling(chat)

ExportInit ==
  /\ transcript \in {Export(chat) : chat \in Genuine} /\ at = 1 /\ current = NoMessage /\ messages = <<>>

Dated(line) == IF IsHeader(line) THEN Parse(line.stamp, DayFirst(transcript)) ELSE NoDate
More == at <= Len(transcript)

Start ==
  /\ More /\ Dated(transcript[at]) # NoDate
  /\ messages' = messages \o Flush(current)
  /\ current' = [date |-> Dated(transcript[at]), from |-> transcript[at].from,
                 body |-> <<transcript[at].body>>]
  /\ at' = at + 1 /\ UNCHANGED transcript

Continued(m, line) == IF m.date = NoDate THEN m ELSE [m EXCEPT !.body = Append(@, line.body)]
Continue ==
  /\ More /\ Dated(transcript[at]) = NoDate
  /\ current' = Continued(current, transcript[at])
  /\ at' = at + 1 /\ UNCHANGED <<transcript, messages>>

Finish ==
  /\ at = Len(transcript) + 1
  /\ messages' = messages \o Flush(current)
  /\ current' = NoMessage /\ at' = at + 1 /\ UNCHANGED transcript

ExportStep == Start \/ Continue \/ Finish
ReadWhole == at > Len(transcript) + 1
ExportSpec == ExportInit /\ [][ExportStep]_exportVars

(* What a post says: what its lines say, but the first when that stands for  *)
(* a picture; the announcements of the app are nobody's.                     *)
Pictured(body) == body[1] \in Markers \cup {Omitted}
Plain(body) == Said(IF Pictured(body) THEN Tail(body) ELSE body)
Meant(post) ==
  IF post.from = NoSender \/ (Plain(post.body) = <<>> /\ ~Pictured(post.body)) THEN <<>>
  ELSE <<[date |-> post.date, from |-> post.from, text |-> Plain(post.body),
          media |-> IF ~Pictured(post.body) THEN "none"
                    ELSE IF post.body[1] \in ZipMedia \cap Markers THEN "kept" ELSE "missing"]>>
MeantPosts(chat) == [i \in DOMAIN chat.posts |-> Meant(chat.posts[i])]

(* An export whose order its stamps tell is read as it was written: every    *)
(* message a person sent, with its date, its text and its picture, and       *)
(* nothing else.                                                             *)
GenuineRead ==
  ReadWhole => \E chat \in Genuine :
    transcript = Export(chat) /\ messages = Concat(<<>>, MeantPosts(chat))

-----------------------------------------------------------------------------
(* The transcript of a zip, and which of two files a marker means. An entry  *)
(* is [dir, base, txt, chat, len]: its folder and name, whether the name     *)
(* ends in ".txt" and in "_chat.txt", and its length.                        *)
PickTranscript(names) ==
  LET txts == SelectSeq(names, LAMBDA n : n.txt)
      chats == SelectSeq(txts, LAMBDA n : n.chat) IN
  IF chats # <<>> THEN chats[1]
  ELSE CHOOSE n \in {txts[i] : i \in DOMAIN txts} :
         LET first == CHOOSE i \in DOMAIN txts : txts[i] = n /\ \A j \in 1..i - 1 : txts[j] # n IN
         \A i \in DOMAIN txts : n.len < txts[i].len \/ (n.len = txts[i].len /\ first <= i)

\* every entry but the transcript, by base name
Resolves(names, base) ==
  LET chosen == PickTranscript(names)
      same == SelectSeq(names, LAMBDA n : n # chosen /\ n.base = base)
      beside == SelectSeq(same, LAMBDA n : n.dir = chosen.dir) IN
  IF beside # <<>> THEN Last(beside) ELSE same[1]
=============================================================================
