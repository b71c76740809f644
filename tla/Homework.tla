------------------------------ MODULE Homework ------------------------------
(***************************************************************************)
(* The homework requests of the server (src/Server/server.cpp) on one      *)
(* course: publish, submit, mark, comment, and the deletions.  The answer  *)
(* and the score of a submission are two files.  The score file holds      *)
(* "Score: ", the score in three characters, "\nComment:\n" and the        *)
(* comment; mark and writeComment change it by position: both take the     *)
(* first ten characters for the score, whatever they are.                  *)
(*                                                                         *)
(* A text is a sequence of symbols.  The label is one symbol and stands    *)
(* for 7 characters, the heading four and stands for 10, so that the score *)
(* and its label are as long as the heading, as they are in the code.      *)
(* A request holds the writer lock (ReaderWriterLock): a step is one       *)
(* request.  The user may do what he asks for; scores are those the code   *)
(* handles, of one to three characters.                                    *)
(***************************************************************************)
EXTENDS Integers, Sequences, SequencesExt

CONSTANTS
  Homeworks, Students,
  Scores, Answers, Comments,  \* texts a client may send
  Digits,
  BlockLength,  \* BLOCK_SIZE - 1: a text as long needs more than its own block
  Leftovers,    \* what a reader may find in a block behind what was written
  MayRunOut,    \* whether the blocks of the file system may run out
  MaxSheet      \* bound on the length of a score file

Blank == "blank"
Label == <<"Score">>
Heading == <<"newline", "Com", "ment", "newline">>
FieldLength == 3
Position == Len(Label) + FieldLength  \* the ten characters

(* The client reads a score up to the next blank.                          *)
Texts == Scores \cup Answers \cup Comments \cup Leftovers \cup {Label, Heading, <<Blank>>}
Symbols == UNION {Range(text) : text \in Texts}

ASSUME TextsAssumption ==
  /\ \A text \in Texts : text \in Seq(Range(text))
  /\ \A score \in Scores : Len(score) \in 1 .. FieldLength /\ Blank \notin Range(score)
  /\ "lost" \notin Symbols  \* stands for no text, see LostGrade
  /\ BlockLength \in Nat /\ BlockLength > Position + Len(Heading)
  /\ MayRunOut \in BOOLEAN
  /\ MaxSheet \in Nat /\ MaxSheet >= Position + Len(Heading)

Submissions == Homeworks \X Students

VARIABLES
  published,  \* the homework directories
  submitted,  \* the directories of students in them
  answers,    \* the files _homework
  sheets,     \* the files _score
  damaged     \* history: the sheets that were once written with no room

vars == <<published, submitted, answers, sheets, damaged>>

Init ==
  /\ published = {} /\ submitted = {}
  /\ answers = <<>> /\ sheets = <<>>
  /\ damaged = {}

-----------------------------------------------------------------------------
(***************************************************************************)
(* writeFile and readFile: what is read after a text was written.  A short *)
(* text is terminated.  A longer one is cut in pieces of a block each, and *)
(* behind every piece the block keeps what it held before; when the blocks *)
(* run out only the first pieces are stored, or none.                      *)
(***************************************************************************)
Pieces(text) == Len(text) \div BlockLength + 1
Piece(text, k) ==
  SubSeq(text, (k - 1) * BlockLength + 1,
         IF k = Pieces(text) THEN Len(text) ELSE k * BlockLength)
Laid(text, n) ==
  {FlattenSeq([k \in 1 .. n |-> Piece(text, k) \o left[k]]) :
     left \in [1 .. n -> Leftovers]}
Stored(text) ==
  IF Len(text) < BlockLength
  THEN {text}
  ELSE UNION {Laid(text, n) :
                n \in IF MayRunOut THEN 0 .. Pieces(text) ELSE {Pieces(text)}}

Drop(text) == SubSeq(text, Position + 1, Len(text))                 \* erase(0, 10)
Take(text) == SubSeq(text, 1, IF Len(text) < Position THEN Len(text)
                                                      ELSE Position) \* substr(0, 10)

(* isScoreValid: three characters are accepted whatever they are.          *)
IsScoreValid(score) == Len(score) >= FieldLength \/ Range(score) \subseteq Digits

Field(score) == [k \in 1 .. FieldLength - Len(score) |-> Blank] \o score
NewSheet == Label \o Field(<<>>) \o Heading

(* Writing the file of submission s, which may not exist.                  *)
WriteSheet(s, text) ==
  IF s \in DOMAIN sheets
  THEN \E stored \in Stored(text) :
         /\ Len(stored) <= MaxSheet
         /\ sheets' = [sheets EXCEPT ![s] = stored]
         /\ damaged' = IF stored = <<>> THEN damaged \cup {s} ELSE damaged
  ELSE UNCHANGED <<sheets, damaged>>
ReadSheet(s) == IF s \in DOMAIN sheets THEN sheets[s] ELSE <<>>

-----------------------------------------------------------------------------
(* publishHomework.  Of what follows a failure to create the directory     *)
(* nothing happens.                                                        *)
Publish(h) ==
  /\ h \notin published
  /\ published' = published \cup {h}
  /\ UNCHANGED <<submitted, answers, sheets, damaged>>

(* Function f with `value' at s.                                           *)
Put(f, s, value) ==
  [t \in DOMAIN f \cup {s} |-> IF t = s THEN value ELSE f[t]]

(* submitHomework for the first time.  The directory and the two files are *)
(* created one after the other and the results are not looked at: when the *)
(* blocks run out only the first `made' of them exist.                     *)
Created == IF MayRunOut THEN 1 .. 3 ELSE {3}

Submit(s, answer) ==
  /\ s[1] \in published /\ s \notin submitted
  /\ submitted' = submitted \cup {s}
  /\ \E made \in Created, stored \in Stored(answer) :
       /\ answers' = IF made >= 2 THEN Put(answers, s, stored) ELSE answers
       /\ sheets' = IF made = 3 THEN Put(sheets, s, NewSheet) ELSE sheets
  /\ UNCHANGED <<published, damaged>>

(* A slip: the sheet is written anew with every answer.                    *)
ResubmitWithNewSheet(s, answer) ==
  /\ s \in submitted
  /\ IF s \in DOMAIN answers
     THEN \E stored \in Stored(answer) : answers' = [answers EXCEPT ![s] = stored]
     ELSE UNCHANGED answers
  /\ WriteSheet(s, NewSheet)
  /\ UNCHANGED <<published, submitted>>

Resubmit(s, answer) ==
  /\ s \in submitted
  /\ IF s \in DOMAIN answers
     THEN \E stored \in Stored(answer) : answers' = [answers EXCEPT ![s] = stored]
     ELSE UNCHANGED answers
  /\ UNCHANGED <<published, submitted, sheets, damaged>>

(* A slip: the score is not padded.                                        *)
MarkWithoutPadding(s, score) ==
  /\ s \in submitted /\ IsScoreValid(score)
  /\ WriteSheet(s, Label \o score \o Drop(ReadSheet(s)))
  /\ UNCHANGED <<published, submitted, answers>>

Mark(s, score) ==
  /\ s \in submitted /\ IsScoreValid(score)
  /\ WriteSheet(s, Label \o Field(score) \o Drop(ReadSheet(s)))
  /\ UNCHANGED <<published, submitted, answers>>

WriteComment(s, content) ==
  /\ s \in submitted
  /\ WriteSheet(s, Take(ReadSheet(s)) \o Heading \o content)
  /\ UNCHANGED <<published, submitted, answers>>

(* deleteDirectory on the directories of the submissions in `gone'.        *)
RemoveAll(gone) ==
  /\ submitted' = submitted \ gone
  /\ answers' = Restrict(answers, DOMAIN answers \ gone)
  /\ sheets' = Restrict(sheets, DOMAIN sheets \ gone)
  /\ damaged' = damaged \ gone

(* A slip: the submissions of the homework are left behind.                *)
DeleteHomeworkAlone(h) ==
  /\ h \in published
  /\ published' = published \ {h}
  /\ UNCHANGED <<submitted, answers, sheets, damaged>>

DeleteHomework(h) ==
  /\ h \in published
  /\ published' = published \ {h}
  /\ RemoveAll({h} \X Students)

(* deleteStudentAssignmentFromCourse, when a student leaves the course.    *)
LeaveCourse(student) ==
  /\ RemoveAll(Homeworks \X {student})
  /\ UNCHANGED published

DeleteCourse == published' = {} /\ RemoveAll(Submissions)

Next ==
  \/ \E h \in Homeworks : Publish(h) \/ DeleteHomework(h)
  \/ \E s \in Submissions :
       \/ \E answer \in Answers : Submit(s, answer) \/ Resubmit(s, answer)
       \/ \E score \in Scores : Mark(s, score)
       \/ \E content \in Comments : WriteComment(s, content)
  \/ \E student \in Students : LeaveCourse(student)
  \/ DeleteCourse

Spec == Init /\ [][Next]_vars

-----------------------------------------------------------------------------
(***************************************************************************)
(* The directories and the files fit together: a submission is in a        *)
(* homework that is published, and has a sheet only with an answer.        *)
(***************************************************************************)
TypeOK ==
  /\ published \subseteq Homeworks
  /\ submitted \subseteq published \X Students
  /\ DOMAIN sheets \subseteq DOMAIN answers
  /\ DOMAIN answers \subseteq submitted
  /\ damaged \subseteq DOMAIN sheets
  /\ \A s \in DOMAIN sheets : Len(sheets[s]) <= MaxSheet

(* What a reader of a sheet takes for the score and for the comment.       *)
IsSheet(text) ==
  /\ IsPrefix(Label, text)
  /\ IsPrefix(Heading, Drop(text))
Shown(field) ==
  LET first == CHOOSE k \in 1 .. FieldLength + 1 :
                 /\ \A j \in 1 .. k - 1 : field[j] = Blank
                 /\ k <= FieldLength => field[k] # Blank
  IN  SubSeq(field, first, FieldLength)
Grade(text) ==
  [score |-> Shown(SubSeq(text, Len(Label) + 1, Position)),
   comment |-> SubSeq(text, Position + Len(Heading) + 1, Len(text))]
LostGrade == [score |-> <<"lost">>, comment |-> <<"lost">>]
Garbled == [score |-> <<"garbled">>, comment |-> <<"garbled">>]
GradesRead ==
  [s \in DOMAIN sheets |->
     CASE IsSheet(sheets[s]) -> Grade(sheets[s])
       [] ~ IsSheet(sheets[s]) /\ s \in damaged -> LostGrade
       [] OTHER -> Garbled]

(***************************************************************************)
(* The texts mark, writeComment and submitHomework cut and join stand for  *)
(* a score and a comment per submission: marking keeps the comment,        *)
(* commenting keeps the score, handing in again keeps both, and what a     *)
(* long text leaves behind it or loses never reaches the score.  Only a    *)
(* sheet that found no block free is lost.  Submissions go by homework, by *)
(* student, or all together.                                               *)
(***************************************************************************)
G == INSTANCE Grades WITH
       Removals <- {{h} \X Students : h \in Homeworks}
                     \cup {Homeworks \X {student} : student \in Students}
                     \cup {Submissions},
       Unmarked <- <<>>,
       Lost <- LostGrade,
       AnswerRoom <- BlockLength,
       CommentRoom <- BlockLength - Position - Len(Heading),
       grades <- GradesRead

ImplementsGrades == G!Spec
=============================================================================
