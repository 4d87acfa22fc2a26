---------------------- MODULE Classification_proofs ----------------------
(***************************************************************************)
(* Theorems about Classification and their proofs, for every table of       *)
(* phrases that satisfies TablesAssumption, every table of codes, errnos    *)
(* and declared tags, and every set of attempts: a failure has the same tag *)
(* on both sides, and one its operation declares.                           *)
(***************************************************************************)
EXTENDS Classification, SequenceTheorems, TLAPS

Sides == {"cli", "native"}

(* What a failure can look like.                                           *)
Failed ==
    /\ \/ \E p \in Phrases, tried \in {{}} \cup {{a} : a \in Attempts} :
             cause = CodeOf(p) /\ stderr = Reads({p} \cup tried)
       \/ cause \notin Phrased /\ stderr = {}
    /\ errno \in {"none"} \cup ErrnosFor(cause)

(* What each side has made of it at each point.                            *)
Recognised(by) == IF by = "cli" THEN classifyKnown(stderr) ELSE knownError(codeOf)

Reported(code) ==
    IF code # "none" /\ Declared(code) THEN errorCodeToTag[code] ELSE "UnknownZfsError"

Course ==
    /\ DOMAIN pc = Sides /\ DOMAIN candidate = Sides /\ DOMAIN verdict = Sides
    /\ \A by \in Sides :
          /\ pc[by] \in {"failed", "candidate", "done"}
          /\ pc[by] # "failed" => candidate[by] = Recognised(by)
          /\ pc[by] = "done" => verdict[by] = Reported(candidate[by])

Inv == Failed /\ Course

LEMMA InvStep == Inv /\ [Next]_vars => Inv'
<1> SUFFICES ASSUME Inv, [Next]_vars PROVE Inv'
    OBVIOUS
<1>1. ASSUME NEW by \in Sides, Recognise(by, Recognised(by))
      PROVE  Inv'
    <2>1. Failed' /\ (Recognised("cli")' = Recognised("cli"))
                  /\ (Recognised("native")' = Recognised("native"))
        BY <1>1 DEF Inv, Failed, Recognise, Recognised, codeOf
    <2>2. \A other \in Sides \ {by} : /\ pc'[other] = pc[other]
                                     /\ candidate'[other] = candidate[other]
                                     /\ verdict'[other] = verdict[other]
        BY <1>1 DEF Inv, Course, Recognise
    <2>3. /\ pc'[by] = "candidate" /\ candidate'[by] = Recognised(by)
          /\ DOMAIN pc' = Sides /\ DOMAIN candidate' = Sides /\ DOMAIN verdict' = Sides
        BY <1>1 DEF Inv, Course, Recognise
    <2>4. \A c : Reported(c)' = Reported(c)
        BY <1>1 DEF Recognise, Reported, Declared
    <2> QED
        BY <2>1, <2>2, <2>3, <2>4 DEF Inv, Course, Sides
<1>2. ASSUME NEW by \in Sides, Report(by)
      PROVE  Inv'
    <2>1. Failed' /\ (Recognised("cli")' = Recognised("cli"))
                  /\ (Recognised("native")' = Recognised("native"))
        BY <1>2 DEF Inv, Failed, Report, Recognised, codeOf
    <2>2. \A other \in Sides \ {by} : /\ pc'[other] = pc[other]
                                     /\ candidate'[other] = candidate[other]
                                     /\ verdict'[other] = verdict[other]
        BY <1>2 DEF Inv, Course, Report
    <2>3. /\ pc[by] = "candidate" /\ pc'[by] = "done" /\ candidate' = candidate
          /\ verdict'[by] = Reported(candidate[by])
          /\ DOMAIN pc' = Sides /\ DOMAIN candidate' = Sides /\ DOMAIN verdict' = Sides
        BY <1>2 DEF Inv, Course, Report, Reported
    <2>4. \A c : Reported(c)' = Reported(c)
        BY <1>2 DEF Report, Reported, Declared
    <2> QED
        BY <2>1, <2>2, <2>3, <2>4 DEF Inv, Course, Sides
<1>3. CASE RecogniseCli
    BY <1>1, <1>3 DEF RecogniseCli, Recognised, Sides
<1>4. CASE RecogniseNative
    BY <1>1, <1>4 DEF RecogniseNative, Recognised, Sides
<1>5. CASE Stop \/ UNCHANGED vars
    <2>1. UNCHANGED vars
        BY <1>5 DEF Stop
    <2> QED
        BY <2>1 DEF vars, Inv, Failed, Course, Recognised, Reported, Declared, codeOf
<1> QED
    BY <1>2, <1>3, <1>4, <1>5 DEF Next, Sides

LEMMA Invariant == Spec => []Inv
<1>1. Init => Inv
    <2> SUFFICES ASSUME Init PROVE Inv
        OBVIOUS
    <2>1. Failed
        BY DEF Init, Failed
    <2>2. Course
        BY DEF Init, Course, Sides
    <2> QED
        BY <2>1, <2>2 DEF Inv
<1> QED
    BY <1>1, InvStep, PTL DEF Spec
-----------------------------------------------------------------------------
(* The table of phrases                                                    *)

LEMMA Table ==
    /\ \A i \in Places : i \in Nat /\ Patterns[i][1] \in Codes
    /\ Phrased \subseteq Codes
<1>1. Len(Patterns) \in Nat
    BY TablesAssumption
<1>2. \A i \in Places : i \in Nat /\ Patterns[i] \in Codes \X SUBSET STRING
    BY <1>1, TablesAssumption DEF Places
<1>3. \A i \in Places : Patterns[i][1] \in Codes
    BY <1>2
<1> QED
    BY <1>2, <1>3 DEF Phrased

(* A phrase is in one place of the table.                                  *)
LEMMA Placed ==
    ASSUME NEW p \in Phrases
    PROVE  /\ Place(p) \in Places /\ p \in Patterns[Place(p)][2]
           /\ \A i \in Places : p \in Patterns[i][2] => i = Place(p)
<1>1. \E i \in Places : p \in Patterns[i][2]
    BY DEF Phrases
<1>2. Place(p) \in Places /\ p \in Patterns[Place(p)][2]
    BY <1>1 DEF Place
<1>3. \A i, j \in Places : Patterns[i][2] \cap Patterns[j][2] # {} => i = j
    BY TablesAssumption
<1> QED
    BY <1>2, <1>3

(* Of the phrases of a text the classifier takes the one tried first.       *)
LEMMA FirstWins ==
    ASSUME NEW text, NEW p \in text,
           \A q \in text : q \in Phrases /\ Place(p) <= Place(q)
    PROVE  classifyKnown(text) = CodeOf(p)
<1> DEFINE hits == {i \in Places : Patterns[i][2] \cap text # {}}
           first == CHOOSE i \in hits : \A j \in hits : i <= j
<1>1. Place(p) \in hits
    BY Placed
<1>2. ASSUME NEW j \in hits PROVE Place(p) <= j
    <2>1. PICK q \in text : q \in Patterns[j][2]
        OBVIOUS
    <2>2. j = Place(q)
        BY <2>1, Placed
    <2> QED
        BY <2>1, <2>2
<1>3. first \in hits /\ \A j \in hits : first <= j
    BY <1>1, <1>2
<1>4. first <= Place(p) /\ Place(p) <= first /\ first \in Nat /\ Place(p) \in Nat
    BY <1>1, <1>2, <1>3, Table
<1>5. first = Place(p)
    BY <1>4
<1>6. classifyKnown(text) = Patterns[first][1]
    BY <1>1 DEF classifyKnown
<1> QED
    BY <1>5, <1>6 DEF CodeOf

(* What a text is read as: the phrases it was printed with, and phrases     *)
(* that are tried after these.                                             *)
LEMMA Reading ==
    ASSUME NEW t, t \subseteq Phrases, NEW q \in Reads(t)
    PROVE  q \in Phrases /\ \E p \in t : Place(p) <= Place(q)
<1>1. CASE q \in t
    BY <1>1, Placed, Table
<1>2. CASE q \notin t
    <2>1. PICK p \in t \cap DOMAIN Within : q = Within[p]
        BY <1>2 DEF Reads
    <2>2. /\ p \in Phrases /\ Within[p] \in Phrases
          /\ Place(p) < Place(Within[p])
        BY <2>1, TablesAssumption
    <2>3. Place(p) \in Nat /\ Place(q) \in Nat
        BY <2>1, <2>2, Placed, Table
    <2> QED
        BY <2>1, <2>2, <2>3
<1> QED
    BY <1>1, <1>2

(* A cause that was printed is recognised, or hidden by what was attempted. *)
LEMMA Hidden ==
    ASSUME NEW p \in Phrases, NEW tried \in {{}} \cup {{a} : a \in Attempts}
    PROVE  \/ classifyKnown(Reads({p} \cup tried)) = CodeOf(p)
           \/ \E a \in tried :
                 /\ a \in Phrases /\ Place(a) < Place(p)
                 /\ classifyKnown(Reads({p} \cup tried)) = CodeOf(a)
<1> DEFINE text == Reads({p} \cup tried)
<1>1. {p} \cup tried \subseteq Phrases /\ {p} \cup tried \subseteq text
    BY TablesAssumption DEF Reads
<1>2. \A q \in text : q \in Phrases /\ \E r \in {p} \cup tried : Place(r) <= Place(q)
    BY <1>1, Reading
<1>3. \A q \in Phrases : Place(q) \in Nat
    BY Placed, Table
<1> HIDE DEF text
<1>4. CASE \A a \in tried : Place(p) <= Place(a)
    <2>1. \A r \in {p} \cup tried : Place(p) <= Place(r)
        BY <1>3, <1>4
    <2>2. ASSUME NEW q \in text PROVE q \in Phrases /\ Place(p) <= Place(q)
        <3>1. PICK r \in {p} \cup tried : Place(r) <= Place(q)
            BY <1>2
        <3> QED
            BY <1>1, <1>2, <1>3, <2>1, <3>1
    <2>3. p \in text
        BY <1>1
    <2> QED
        BY <2>2, <2>3, FirstWins DEF text
<1>5. ASSUME NEW a \in tried, ~(Place(p) <= Place(a))
      PROVE  a \in Phrases /\ Place(a) < Place(p) /\ classifyKnown(text) = CodeOf(a)
    <2>1. tried = {a} /\ a \in Phrases
        BY <1>1
    <2>2. Place(a) < Place(p)
        BY <1>3, <1>5, <2>1
    <2>3. ASSUME NEW q \in text PROVE q \in Phrases /\ Place(a) <= Place(q)
        <3>1. PICK r \in {p} \cup tried : Place(r) <= Place(q)
            BY <1>2
        <3>2. r = p \/ r = a
            BY <2>1
        <3> QED
            BY <1>1, <1>2, <1>3, <2>1, <2>2, <3>1, <3>2
    <2>4. a \in text
        BY <1>1
    <2> QED
        BY <2>1, <2>2, <2>3, <2>4, FirstWins
<1> QED
    BY <1>4, <1>5 DEF text

-----------------------------------------------------------------------------
(* Theorems                                                                *)

(* Both interpreters give a failure the same tag, unless the tool also      *)
(* printed what was attempted and the phrase for that is tried first.       *)
THEOREM Agreement == Spec => []SameTag
<1>1. Inv => SameTag
    <2> SUFFICES ASSUME Inv, Done, CauseReported, cause \in Phrased,
                        verdict["cli"] # verdict["native"]
                 PROVE  \E a \in stderr \cap Attempts, i \in Places :
                           /\ Patterns[i][1] = cause /\ Place(a) < i
                           /\ verdict["cli"] \in {errorCodeToTag[CodeOf(a)], "UnknownZfsError"}
        BY DEF SameTag
    <2>1. PICK p \in Phrases, tried \in {{}} \cup {{a} : a \in Attempts} :
             cause = CodeOf(p) /\ stderr = Reads({p} \cup tried)
        BY DEF Inv, Failed
    <2>2. /\ verdict["cli"] = Reported(classifyKnown(stderr))
          /\ verdict["native"] = Reported(knownError(codeOf))
        BY DEF Inv, Course, Sides, Done, Recognised
    <2>3. knownError(codeOf) = cause
        BY Table DEF knownError, CauseReported
    <2>4. classifyKnown(stderr) # CodeOf(p)
        BY <2>1, <2>2, <2>3
    <2>5. PICK a \in tried : /\ a \in Phrases /\ Place(a) < Place(p)
                             /\ classifyKnown(stderr) = CodeOf(a)
        BY <2>1, <2>4, Hidden
    <2>6. a \in Attempts /\ a \in stderr
        BY <2>1, <2>5 DEF Reads
    <2>7. Place(p) \in Places /\ Patterns[Place(p)][1] = cause
        BY <2>1, Placed DEF CodeOf
    <2>8. verdict["cli"] \in {errorCodeToTag[CodeOf(a)], "UnknownZfsError"}
        BY <2>2, <2>5 DEF Reported
    <2> QED
        BY <2>5, <2>6, <2>7, <2>8
<1> QED
    BY <1>1, Invariant, PTL

(* No caller is handed a tag its operation does not declare, and what       *)
(* nobody recognises stays unknown on both sides.                          *)
THEOREM Declarations == Spec => []OnlyDeclaredTags
<1>1. Inv => OnlyDeclaredTags
    <2> SUFFICES ASSUME Inv, NEW by \in Sides, pc[by] = "done"
                 PROVE  /\ verdict[by] \in OperationError(op)
                        /\ cause = "other" /\ errno # "EINVAL" =>
                              verdict[by] = "UnknownZfsError"
        BY DEF OnlyDeclaredTags, Sides
    <2>1. verdict[by] = Reported(Recognised(by))
        BY DEF Inv, Course
    <2>2. verdict[by] \in OperationError(op)
        BY <2>1 DEF Reported, Declared, OperationError
    <2>3. ASSUME cause = "other", errno # "EINVAL"
          PROVE  Recognised(by) = "none"
        <3>1. CASE by = "cli"
            <4>1. \A p \in Phrases : CodeOf(p) \in Codes
                BY Placed, Table DEF CodeOf
            <4>2. stderr = {}
                BY <2>3, <4>1, TablesAssumption DEF Inv, Failed
            <4> QED
                BY <3>1, <4>2 DEF Recognised, classifyKnown
        <3>2. CASE by = "native"
            <4>1. errno \in {"none", "EIO"}
                BY <2>3, TablesAssumption DEF Inv, Failed, ErrnosFor
            <4>2. codeOf \in {"other", "none"}
                BY <2>3, <4>1, TablesAssumption DEF codeOf
            <4> QED
                BY <3>2, <4>2, TablesAssumption DEF Recognised, knownError
        <3> QED
            BY <3>1, <3>2 DEF Sides
    <2> QED
        BY <2>1, <2>2, <2>3 DEF Reported
<1> QED
    BY <1>1, Invariant, PTL
=============================================================================
