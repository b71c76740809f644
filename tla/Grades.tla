------------------------------- MODULE Grades -------------------------------
(***************************************************************************)
(* What the homework requests promise to students and teachers: an answer, *)
(* a score and a comment for each submission, each changed by its own      *)
(* request and by nothing else until the submission is removed.  A text of *)
(* `room' symbols or more keeps its first symbols only.                    *)
(***************************************************************************)
EXTENDS Sequences, SequencesExt, Naturals

CONSTANTS
  Submissions, Scores, Answers, Comments,
  Removals,     \* the sets of submissions that are removed together
  Unmarked,     \* the score of what has not been marked
  Lost,         \* the grade of a sheet the file system had no room for
  AnswerRoom, CommentRoom

VARIABLES
  answers,  \* the answers handed in
  grades    \* the score and the comment of the submissions opened

gradeVars == <<answers, grades>>

(* What may be found of a text of which `given' was written.               *)
Kept(given, found, room) ==
  IF Len(given) < room
  THEN found = given
  ELSE Len(found) >= room /\ SubSeq(found, 1, room) = SubSeq(given, 1, room)

(* Function f with `value' at s, whether or not f was defined there.       *)
Put(f, s, value) ==
  [t \in DOMAIN f \cup {s} |-> IF t = s THEN value ELSE f[t]]

Init == answers = <<>> /\ grades = <<>>

NewAnswer(s) ==
  /\ s \in DOMAIN answers'
  /\ answers' = Put(answers, s, answers'[s])
  /\ \E given \in Answers : \/ Kept(given, answers'[s], AnswerRoom)
                            \/ Len(given) >= AnswerRoom /\ answers'[s] = <<>>

Open(s) ==
  /\ s \notin DOMAIN grades
  /\ grades' = Put(grades, s, [score |-> Unmarked, comment |-> <<>>])

(* The first answer opens the sheet of the submission, later ones leave    *)
(* the grade alone.                                                        *)
HandIn(s) == s \notin DOMAIN answers /\ NewAnswer(s) /\ (Open(s) \/ UNCHANGED grades)
HandInAgain(s) == s \in DOMAIN answers /\ NewAnswer(s) /\ UNCHANGED grades

Regrade(s, score, comment) ==
  /\ s \in DOMAIN grades /\ grades[s] # Lost
  /\ s \in DOMAIN grades' /\ grades' = Put(grades, s, grades'[s])
  /\ grades'[s] # Lost
  /\ grades'[s].score = score
  /\ Kept(comment, grades'[s].comment, CommentRoom)
  /\ UNCHANGED answers

Mark(s) == \E score \in Scores : Regrade(s, score, grades[s].comment)
Comment(s) == \E comment \in Comments : Regrade(s, grades[s].score, comment)

(* With no room the whole grade is lost; later requests may mend it.       *)
Lose(s) ==
  /\ s \in DOMAIN grades
  /\ grades' = Put(grades, s, Lost)
  /\ UNCHANGED answers
Mend(s) ==
  /\ s \in DOMAIN grades /\ grades[s] = Lost
  /\ s \in DOMAIN grades' /\ grades' = Put(grades, s, grades'[s])
  /\ UNCHANGED answers

Clear(gone) ==
  /\ answers' = Restrict(answers, DOMAIN answers \ gone)
  /\ grades' = Restrict(grades, DOMAIN grades \ gone)

Next ==
  \/ \E s \in Submissions :
       \/ HandIn(s) \/ HandInAgain(s)
       \/ s \in DOMAIN grades /\ grades[s] # Lost /\ (Mark(s) \/ Comment(s))
       \/ Lose(s) \/ Mend(s)
  \/ \E gone \in Removals : Clear(gone)

Spec == Init /\ [][Next]_gradeVars
=============================================================================
