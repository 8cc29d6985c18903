-------------------------- MODULE PublicEdgeProofs --------------------------
(***************************************************************************)
(* PublicEdge for any set of deployments, with chains of any length: what  *)
(* a foreign page gets to see, what is stored, and where addresses go.     *)
(***************************************************************************)
EXTENDS PublicEdge, TLAPS

(* validate_submission against its reference, field by field. *)

LEMMA NothingIsNoValue == Nothing \notin Values /\ Nothing # Short /\ Nothing # 9
BY NamesAssumption

LEMMA NoneIsNoVerdict ==
  /\ None \notin {"raised", "refused", "accepted"}
  /\ \A status \in Statuses, p \in Nat \cup {None} : [status |-> status, provider |-> p] # None
BY NamesAssumption

LEMMA CheckboxFits ==
  ASSUME NEW v \in Values, v \notin {"null", ""}
  PROVE  LET c == CoerceCheckbox(v)
         IN /\ ~c.raises
            /\ ~c.problem <=> v \in Booleans \cup {"yes", "no", "0", "1", "#0", "#1"}
            /\ ~c.problem => c.value \in Booleans
            /\ ~Unstorable(c.value)
BY NothingIsNoValue DEF Values, Booleans, Numbers, Texts, CoerceCheckbox, AsText, Good, Bad, Unstorable

LEMMA NumberFits ==
  ASSUME NEW v \in Values, v \notin {"null", ""}
  PROVE  LET c == CoerceNumber(v)
         IN /\ ~c.raises /\ ~c.problem /\ ~Unstorable(c.value) <=> v \in Booleans \cup {"0", "1", "#0", "#1"}
            /\ ~c.raises /\ ~c.problem /\ ~Unstorable(c.value) => c.value \in {"#0", "#1"}
BY NothingIsNoValue DEF Values, Booleans, Numbers, Texts, CoerceNumber, Good, Bad, Raises, Unstorable

\* A text's length against the two limits.
LEMMA TextLength ==
  ASSUME NEW field \in FieldSpecs, NEW v \in Values
  PROVE  Length(AsText(v)) > LimitOf(field) <=>
           v = "longer" \/ (v \in {"long", "#huge"} /\ field.maxLength = Short)
<1>1. AsText(v) = "longer" <=> v = "longer"
  BY DEF AsText, Values, Booleans, Numbers, Texts
<1>2. AsText(v) = "long" <=> v \in {"long", "#huge"}
  BY DEF AsText, Values, Booleans, Numbers, Texts
<1>3. LimitOf(field) = IF field.maxLength = Short THEN 2 ELSE 6
  BY NothingIsNoValue DEF FieldSpecs, LimitOf, Short, MaxFieldLength
<1>4. Length(AsText(v)) = IF v = "longer" THEN 7 ELSE IF v \in {"long", "#huge"} THEN 4 ELSE 1
  BY <1>1, <1>2 DEF Length, Long, MaxFieldLength
<1> QED BY <1>3, <1>4

LEMMA TextFits ==
  ASSUME NEW field \in FieldSpecs, field.type \notin {"checkbox", "number"},
         NEW v \in Values, v \notin {"null", ""}
  PROVE  LET c == CoerceText(field, v)
         IN /\ ~c.raises
            /\ ~c.problem /\ ~Unstorable(c.value) <=> v \in Takes(field)
            /\ v \in Takes(field) => c.value \in Keeps(field)
<1> DEFINE refused == \/ v = "list"
                      \/ Length(AsText(v)) > LimitOf(field)
                      \/ field.type = "email" /\ AsText(v) # "a@b.co"
                      \/ field.type = "select" /\ AsText(v) \notin Options
<1>1. CoerceText(field, v) = IF refused THEN Bad ELSE Good(AsText(v))
  BY DEF CoerceText
<1>2. ~refused /\ AsText(v) # "nul" <=> v \in Takes(field)
  <2> USE TextLength DEF AsText, Takes, Values, Booleans, Numbers, Texts, Plain, Options
  <2>1. CASE field.type = "email"
    BY <2>1
  <2>2. CASE field.type = "select"
    BY <2>2
  <2>3. CASE field.type \in {"text", "textarea"}
    BY <2>3
  <2> QED BY <2>1, <2>2, <2>3 DEF FieldSpecs, Kinds
<1>3. v \in Takes(field) => AsText(v) \in Keeps(field)
  <2> USE DEF AsText, Takes, Keeps, Values, Booleans, Numbers, Texts, Plain, Options
  <2>1. CASE field.type = "email"
    BY <2>1
  <2>2. CASE field.type = "select"
    BY <2>2
  <2>3. CASE field.type \in {"text", "textarea"}
    BY <2>3
  <2> QED BY <2>1, <2>2, <2>3 DEF FieldSpecs, Kinds
<1>4. Unstorable(AsText(v)) <=> AsText(v) = "nul"
  BY DEF AsText, Unstorable, Values, Booleans, Numbers, Texts
<1> HIDE DEF refused
<1>5. CASE refused
  <2>1. CoerceText(field, v) = Bad /\ v \notin Takes(field)
    BY <1>1, <1>2, <1>5
  <2>2. Bad.raises = FALSE /\ Bad.problem = TRUE
    BY DEF Bad
  <2> QED BY ONLY <2>1, <2>2
<1>6. CASE ~refused
  <2>1. CoerceText(field, v) = Good(AsText(v)) /\ (AsText(v) # "nul" <=> v \in Takes(field))
    BY <1>1, <1>2, <1>6
  <2>2. Good(AsText(v)).raises = FALSE /\ Good(AsText(v)).problem = FALSE /\ Good(AsText(v)).value = AsText(v)
    BY DEF Good
  <2> QED BY ONLY <1>3, <1>4, <2>1, <2>2
<1> QED BY <1>5, <1>6

LEMMA CleanedFits ==
  ASSUME NEW field \in FieldSpecs, NEW v \in Values \cup {Nothing}
  PROVE  LET c == Cleaned(field, v)
         IN /\ ~c.raises /\ ~c.problem /\ ~Unstorable(c.value) <=> Fits(field, v)
            /\ Fits(field, v) => c.value \in Keeps(field) \cup {Nothing}
<1>1. CASE Missing(v)
  <2>0. ~Unstorable(Nothing)
    BY NothingIsNoValue DEF Unstorable, Values, Numbers, Texts
  <2>1. CASE field.required
    <3>1. Cleaned(field, v) = Bad /\ ~Fits(field, v)
      BY <1>1, <2>1 DEF Cleaned, Fits
    <3> QED BY <2>0, <3>1 DEF Bad
  <2>2. CASE ~field.required
    <3>1. Cleaned(field, v) = Good(Nothing) /\ Fits(field, v)
      BY <1>1, <2>2 DEF Cleaned, Fits
    <3> QED BY <2>0, <3>1 DEF Good
  <2> QED BY <2>1, <2>2
<1>2. CASE ~Missing(v)
  <2>0. /\ v \in Values /\ v \notin {"null", ""} /\ Cleaned(field, v) = Coerce(field, v)
        /\ Fits(field, v) <=> v \in Takes(field)
    BY <1>2 DEF Missing, Cleaned, Fits
  <2>1. CASE field.type = "checkbox"
    <3>1. /\ Cleaned(field, v) = CoerceCheckbox(v) /\ Keeps(field) = Booleans
          /\ Takes(field) = Booleans \cup {"yes", "no", "0", "1", "#0", "#1"}
      BY <2>0, <2>1 DEF Coerce, Keeps, Takes
    <3> QED BY <2>0, <3>1, CheckboxFits
  <2>2. CASE field.type = "number"
    <3>1. /\ Cleaned(field, v) = CoerceNumber(v) /\ Keeps(field) = {"#0", "#1"}
          /\ Takes(field) = Booleans \cup {"0", "1", "#0", "#1"}
      BY <2>0, <2>2 DEF Coerce, Keeps, Takes
    <3> DEFINE c == CoerceNumber(v)
    <3>2. /\ ~c.raises /\ ~c.problem /\ ~Unstorable(c.value) <=> v \in Takes(field)
          /\ ~c.raises /\ ~c.problem /\ ~Unstorable(c.value) => c.value \in Keeps(field)
      BY <2>0, <3>1, NumberFits
    <3>3. Cleaned(field, v) = c
      BY <3>1
    <3> HIDE DEF c
    <3> QED BY ONLY <2>0, <3>2, <3>3
  <2>3. CASE field.type \notin {"checkbox", "number"}
    <3>1. Cleaned(field, v) = CoerceText(field, v)
      BY <2>0, <2>3 DEF Coerce
    <3> DEFINE c == CoerceText(field, v)
    <3>2. /\ ~c.raises /\ ~c.problem /\ ~Unstorable(c.value) <=> v \in Takes(field)
          /\ v \in Takes(field) => c.value \in Keeps(field)
      BY <2>0, <2>3, TextFits
    <3> HIDE DEF c
    <3>3. Cleaned(field, v) = c
      BY <3>1 DEF c
    <3> QED BY ONLY <2>0, <3>2, <3>3
  <2> QED BY <2>1, <2>2, <2>3
<1> QED BY <1>1, <1>2
-----------------------------------------------------------------------------
(* A submission's data as a whole. *)

Data == UNION {[names -> Values] : names \in SUBSET {"field", "stray"}}

LEMMA DataFits ==
  ASSUME situation \in Situations, data \in Data
  PROVE  LET cleaned == CleanedData(Declared, data)["field"]
         IN /\ ~ValidationRaises(Declared, data) /\ ~ValidationErrors(Declared, data) /\ ~Unstorable(cleaned)
                 <=> FitsAll(Declared, data)
            /\ FitsAll(Declared, data) => cleaned \in Keeps(situation.field) \cup {Nothing}
<1> DEFINE v == Sent(data, "field")
           c == Cleaned(situation.field, v)
<1>1. situation.field \in FieldSpecs
  BY SituationAssumption
<1>2. v \in Values \cup {Nothing}
  BY DEF Data, Sent
<1>3. /\ DOMAIN Declared = {"field"} /\ Declared["field"] = situation.field
      /\ CleanedData(Declared, data)["field"] = c.value
  BY DEF Declared, CleanedData
<1>4. /\ ValidationRaises(Declared, data) <=> c.raises
      /\ ValidationErrors(Declared, data) <=> DOMAIN data \ {"field"} # {} \/ c.problem
      /\ FitsAll(Declared, data) <=> DOMAIN data \subseteq {"field"} /\ Fits(situation.field, v)
  BY <1>3 DEF ValidationRaises, ValidationErrors, FitsAll
<1> HIDE DEF v
<1>5. /\ ~c.raises /\ ~c.problem /\ ~Unstorable(c.value) <=> Fits(situation.field, v)
      /\ Fits(situation.field, v) => c.value \in Keeps(situation.field) \cup {Nothing}
  BY <1>1, <1>2, CleanedFits
<1> HIDE DEF c
<1> QED BY ONLY <1>3, <1>4, <1>5
-----------------------------------------------------------------------------
(* The invariant. *)

Before == {"start", "preflight", "bodyLimit", "route"}
Inside == {"gates", "validate", "limits", "enrich", "chain", "insert"}
After == {"out", "arrive", "done"}

TypeOK == situation \in Situations /\ pc \in Before \cup Inside \cup After

\* What a foreign page's request gets past, and what its answer carries.
Border ==
  /\ acted => call.path = "admin" /\ call.key = "right"
  /\ pc \notin After => ~allowed /\ code = 0 /\ ~acted
  /\ pc = "preflight" => NeedsPreflight(call)
  /\ pc \notin {"start", "preflight", "done"} /\ call.page = "foreign" =>
       IsPublic(call.path) \/ ~NeedsPreflight(call)
  /\ pc = "out" => ~allowed /\ code # 500
  /\ pc = "arrive" => (allowed <=> code # 500 /\ IsPublic(call.path) /\ HasOrigin)

\* A submission has data from its body on, a plain envelope once past the gates,
\* a verdict from validate on and the good one from there, a row only at its end.
Content ==
  /\ pc \in Inside => data \in Data
  /\ pc \in Before \cup {"gates", "validate"} => verdict = None
  /\ pc \in {"limits", "enrich", "chain", "insert"} =>
       verdict = "accepted" /\ ~ValidationRaises(Declared, data) /\ ~ValidationErrors(Declared, data)
  /\ pc \in Inside \ {"gates"} => call.envelope = "plain"
  /\ verdict \in {None, "raised", "refused", "accepted"}
  /\ pc \notin After => row = None /\ code = 0

\* The loop of enrich: whom it has asked so far.
Tried == {asked[i] : i \in DOMAIN asked}
Untouched == asked = <<>> /\ position = 1 /\ ~attempted /\ location = None
Places ==
  /\ pc \in Before \cup {"gates", "validate", "limits", "enrich"} => Untouched
  /\ pc \in {"gates", "validate", "limits", "enrich"} => ip \in Addresses
  /\ pc = "chain" => /\ location = None /\ ip \in {"public", "private"}
                     /\ position \in 1..(Len(situation.needsPublic) + 1)
                     /\ Tried = {p \in 1..(position - 1) : Eligible(p)}
                     /\ (attempted <=> Tried # {})
  /\ pc = "insert" => location # None
  /\ asked \in Seq(Nat)

IInv == /\ TypeOK /\ Border /\ Content /\ Places
        /\ ForeignPagesSeeThePublicSide /\ OnlyFittingDataIsStored
        /\ LocationTellsWhy /\ AddressesStayHome

LEMMA InitInv == Init => IInv
<1> SUFFICES ASSUME Init PROVE IInv
  OBVIOUS
<1> USE DEF Init
<1>1. TypeOK /\ Border /\ Content
  BY DEF TypeOK, Border, Content, Before, Inside, After
<1>2. Places
  BY DEF Places, Untouched, Before, Inside, After
<1>3. ForeignPagesSeeThePublicSide /\ OnlyFittingDataIsStored /\ LocationTellsWhy /\ AddressesStayHome
  <2>1. ForeignPagesSeeThePublicSide /\ AddressesStayHome
    BY DEF ForeignPagesSeeThePublicSide, AddressesStayHome
  <2>2. OnlyFittingDataIsStored
    BY DEF OnlyFittingDataIsStored
  <2>3. LocationTellsWhy
    BY DEF LocationTellsWhy
  <2> QED BY <2>1, <2>2, <2>3
<1> QED BY <1>1, <1>2, <1>3 DEF IInv
-----------------------------------------------------------------------------
(* The border. *)

LEMMA TypeStep == TypeOK /\ [Next]_vars => TypeOK'
<1> SUFFICES ASSUME TypeOK, [Next]_vars PROVE TypeOK'
  OBVIOUS
<1> USE DEF TypeOK, Before, Inside, After, Goto, Respond, Raise, request
<1>1. CASE Send \/ Preflight \/ BodyLimit \/ Read \/ Admin \/ Body \/ Out \/ Arrive
  BY <1>1 DEF Send, Preflight, BodyLimit, Read, Admin, Body, Out, Arrive
<1>2. CASE Gates \/ Validate \/ Limits \/ Insert \/ DbError
  <2>1. CASE Gates \/ Validate
    BY <2>1 DEF Gates, Validate
  <2>2. CASE Limits \/ DbError
    BY <2>2 DEF Limits, DbError
  <2>3. CASE Insert
    BY <2>3 DEF Insert
  <2> QED BY <1>2, <2>1, <2>2, <2>3
<1>3. CASE Enrich \/ Ask \/ GiveUp
  <2>1. CASE Enrich
    BY <2>1 DEF Enrich
  <2>2. CASE Ask \/ GiveUp
    BY <2>2 DEF Ask, GiveUp
  <2> QED BY <1>3, <2>1, <2>2
<1>4. CASE UNCHANGED vars
  BY <1>4 DEF vars
<1> QED BY <1>1, <1>2, <1>3, <1>4 DEF Next

LEMMA BorderStep ==
  TypeOK /\ Border /\ ForeignPagesSeeThePublicSide /\ [Next]_vars => Border' /\ ForeignPagesSeeThePublicSide'
<1> SUFFICES ASSUME TypeOK, Border, ForeignPagesSeeThePublicSide, [Next]_vars
             PROVE  Border' /\ ForeignPagesSeeThePublicSide'
  OBVIOUS
<1> USE DEF TypeOK, Border, Before, Inside, After, Goto, Respond, Raise, request, answer,
            ForeignPagesSeeThePublicSide, HasOrigin, IsPublic
<1>1. CASE Send
  BY <1>1 DEF Send
<1>2. CASE Preflight
  BY <1>2 DEF Preflight, PublicPaths, NeedsPreflight
<1>3. ASSUME UNCHANGED call, pc \in {"bodyLimit", "route"} \cup Inside, acted' = acted,
             \/ pc' \in {"route"} \cup Inside /\ UNCHANGED <<code, allowed>>
             \/ pc' = "out" /\ code' # 500 /\ UNCHANGED allowed
      PROVE  Border' /\ ForeignPagesSeeThePublicSide'
  BY <1>3
<1>4. CASE BodyLimit \/ Gates \/ Limits
  <2>1. CASE Gates /\ Raise
    BY <2>1 DEF Gates
  <2>2. CASE ~(Gates /\ Raise)
    <3>1. /\ UNCHANGED call /\ pc \in {"bodyLimit", "route"} \cup Inside /\ acted' = acted
          /\ \/ pc' \in {"route"} \cup Inside /\ UNCHANGED <<code, allowed>>
             \/ pc' = "out" /\ code' # 500 /\ UNCHANGED allowed
      BY <1>4, <2>2 DEF BodyLimit, Gates, Limits
    <3> QED BY <1>3, <3>1
  <2> QED BY <2>1, <2>2
<1>5. CASE Read \/ Admin
  <2>1. /\ UNCHANGED call /\ pc' = "out" /\ code' # 500 /\ UNCHANGED <<seen, allowed>>
        /\ pc = "route" /\ (acted' => call.path = "admin" /\ call.key = "right")
    BY <1>5 DEF Read, Codes, Admin
  <2> QED BY <2>1
<1>6. CASE Body
  BY <1>6 DEF Body
<1>7. CASE Validate \/ Enrich \/ Ask \/ GiveUp
  <2>1. CASE Validate
    BY <2>1 DEF Validate
  <2>2. CASE Enrich \/ Ask \/ GiveUp
    <3>1. /\ UNCHANGED <<call, acted, code, allowed>> /\ pc \in Inside /\ pc' \in Inside
      BY <2>2 DEF Enrich, Ask, GiveUp
    <3> QED BY <1>3, <3>1
  <2> QED BY <1>7, <2>1, <2>2
<1>8. CASE Insert
  BY <1>8 DEF Insert
<1>9. CASE Out
  <2>1. /\ pc = "out" /\ pc' = "arrive" /\ UNCHANGED <<call, code, acted>>
        /\ allowed' = (IsPublic(call.path) /\ HasOrigin)
    BY <1>9 DEF Out
  <2>2. code # 500
    BY <2>1
  <2>3. Border'
    BY <2>1, <2>2
  <2>4. ForeignPagesSeeThePublicSide'
    BY <2>1
  <2> QED BY <2>3, <2>4
<1>10. CASE Arrive
  BY <1>10 DEF Arrive, NeedsPreflight, PublicPaths
<1>11. CASE DbError
  BY <1>11 DEF DbError
<1>12. CASE UNCHANGED vars
  BY <1>12 DEF vars, NeedsPreflight
<1> QED BY <1>1, <1>2, <1>3, <1>4, <1>5, <1>6, <1>7, <1>8, <1>9, <1>10, <1>11, <1>12 DEF Next
-----------------------------------------------------------------------------
(* The content. *)

Submitted == <<data, verdict, row>>

Judged == <<FitsAll(Declared, data), ValidationRaises(Declared, data), ValidationErrors(Declared, data),
            Keeps(situation.field)>>

\* What is made of the data depends on the data and the widget only.
LEMMA JudgedAlike == UNCHANGED <<situation, data>> => UNCHANGED Judged
BY DEF Judged, Declared, FitsAll, Fits, Sent, ValidationRaises, ValidationErrors, Cleaned, Keeps, LimitOf

\* Away from the content, a step goes on, or ends in an answer that is no 500,
\* or in the 500 of a fault, or of an envelope that raises.
LEMMA ContentKept ==
  ASSUME TypeOK, Content, OnlyFittingDataIsStored, UNCHANGED <<situation, Submitted>>,
         faulty => faulty',
         \/ pc \in Before /\ pc' \in Before /\ UNCHANGED code
         \/ /\ UNCHANGED call
            /\ \/ pc = "gates" /\ pc' = "validate" /\ call.envelope = "plain" /\ UNCHANGED code
               \/ pc \in {"limits", "enrich", "chain"} /\ pc' \in {"enrich", "chain", "insert"} /\ UNCHANGED code
               \/ pc' \in After /\ (code' = 500 => code = 500 \/ faulty' \/ call.envelope # "plain")
  PROVE  Content' /\ OnlyFittingDataIsStored'
<1>1. UNCHANGED Judged
  BY JudgedAlike DEF Submitted
<1>2. Content'
  BY <1>1 DEF Content, Submitted, Before, Inside, After, Judged
<1>3. OnlyFittingDataIsStored'
  <2>1. CASE pc \in Before /\ pc' \in Before /\ UNCHANGED code
    BY <2>1 DEF Content, OnlyFittingDataIsStored, Submitted, Before, Inside, After
  <2>2. CASE UNCHANGED call /\ (code' = 500 => code = 500 \/ faulty' \/ call.envelope # "plain")
    BY <1>1, <2>2 DEF OnlyFittingDataIsStored, Fitting, Submitted, Judged
  <2>3. pc \notin After => code # 500
    BY DEF Content
  <2> QED BY <2>1, <2>2, <2>3 DEF Before, Inside, After
<1> QED BY <1>2, <1>3

LEMMA ContentStep ==
  TypeOK /\ Content /\ OnlyFittingDataIsStored /\ [Next]_vars => Content' /\ OnlyFittingDataIsStored'
<1> SUFFICES ASSUME TypeOK, Content, OnlyFittingDataIsStored, [Next]_vars
             PROVE  Content' /\ OnlyFittingDataIsStored'
  OBVIOUS
<1> USE DEF Goto, Respond, Raise, request, answer, geo, Before, Inside, After, Submitted
<1>1. CASE Send \/ Preflight \/ BodyLimit \/ Out \/ Arrive
  BY <1>1, ContentKept DEF Send, Preflight, BodyLimit, Out, Arrive
<1>2. CASE Read \/ Admin
  <2>1. UNCHANGED <<situation, call, Submitted, faulty>> /\ pc' = "out" /\ code' # 500
    BY <1>2 DEF Read, Admin, Codes
  <2> QED BY <2>1, ContentKept
<1>3. CASE Gates \/ Limits
  <2>1. /\ UNCHANGED <<situation, call, Submitted, faulty>>
        /\ \/ pc = "gates" /\ pc' = "validate" /\ call.envelope = "plain" /\ UNCHANGED code
           \/ pc = "limits" /\ pc' = "enrich" /\ UNCHANGED code
           \/ pc' = "out" /\ code' # 500
           \/ pc' = "arrive" /\ call.envelope # "plain"
    BY <1>3 DEF Gates, Limits
  <2> QED BY <2>1, ContentKept
<1>4. CASE Enrich \/ Ask \/ GiveUp
  <2>1. /\ UNCHANGED <<situation, call, Submitted, faulty, code>>
        /\ pc \in {"limits", "enrich", "chain"} /\ pc' \in {"enrich", "chain", "insert"}
    BY <1>4 DEF Enrich, Ask, GiveUp
  <2> QED BY <2>1, ContentKept
<1>5. CASE DbError
  BY <1>5, ContentKept DEF DbError
<1>6. CASE UNCHANGED vars
  <2>1. UNCHANGED Judged
    BY <1>6, JudgedAlike DEF vars
  <2> QED BY <1>6, <2>1 DEF vars, Content, OnlyFittingDataIsStored, Fitting, Judged
<1>7. CASE Body
  <2>1. CASE \E status \in {400, 413} : Respond(status) /\ UNCHANGED data
    <3>1. UNCHANGED <<situation, call, Submitted, faulty>> /\ pc' = "out" /\ code' # 500
      BY <1>7, <2>1 DEF Body
    <3> QED BY <3>1, ContentKept
  <2>2. CASE Goto("gates") /\ data' \in Data
    <3>1. verdict' = None /\ row' = None /\ code' = 0 /\ pc' = "gates"
      BY <1>7, <2>2 DEF Body, Content
    <3>2. Content'
      BY <2>2, <3>1 DEF Content
    <3>3. OnlyFittingDataIsStored'
      BY <3>1, NoneIsNoVerdict DEF OnlyFittingDataIsStored
    <3> QED BY <3>2, <3>3
  <2>3. \/ \E status \in {400, 413} : Respond(status) /\ UNCHANGED data
        \/ (Goto("gates") /\ data' \in Data)
    BY <1>7 DEF Body, Data
  <2> QED BY <2>1, <2>2, <2>3
<1>8. CASE Validate
  <2>0. /\ situation \in Situations /\ data \in Data /\ row = None /\ code = 0 /\ call.envelope = "plain"
        /\ UNCHANGED <<situation, call, data, row, faulty>>
    BY <1>8 DEF Validate, TypeOK, Content
  <2>1. UNCHANGED Judged
    BY <2>0, JudgedAlike
  <2>2. CASE ~FitsAll(Declared, data)
    <3>1. /\ pc' \in {"out", "arrive", "limits"} /\ verdict' \in {"raised", "refused", "accepted"}
          /\ pc' = "limits" =>
               /\ verdict' = "accepted" /\ code' = 0
               /\ ~ValidationRaises(Declared, data) /\ ~ValidationErrors(Declared, data)
      BY <1>8, <2>0 DEF Validate
    <3> QED BY <2>0, <2>1, <2>2, <3>1 DEF Content, OnlyFittingDataIsStored, Fitting, Judged
  <2>3. CASE FitsAll(Declared, data)
    <3>1. ~ValidationRaises(Declared, data) /\ ~ValidationErrors(Declared, data)
      BY <2>0, <2>3, DataFits
    <3>2. pc' = "limits" /\ verdict' = "accepted" /\ code' = 0
      BY <1>8, <2>0, <3>1 DEF Validate
    <3> QED BY <2>0, <2>1, <3>1, <3>2 DEF Content, OnlyFittingDataIsStored, Judged
  <2> QED BY <2>2, <2>3
<1>9. CASE Insert
  <2> DEFINE cleaned == CleanedData(Declared, data)
  <2>0. /\ situation \in Situations /\ data \in Data /\ row = None /\ code = 0 /\ verdict = "accepted"
        /\ call.envelope = "plain" /\ UNCHANGED <<situation, call, data, verdict, faulty>>
    BY <1>9 DEF Insert, TypeOK, Content
  <2>1. UNCHANGED Judged
    BY <2>0, JudgedAlike
  <2>2. /\ pc' \in {"out", "arrive"}
        /\ row' = None \/ (row' = cleaned /\ ~Unstorable(cleaned["field"]))
        /\ code' = 500 => Unstorable(cleaned["field"])
    BY <1>9, <2>0 DEF Insert
  <2>3. /\ ~Unstorable(cleaned["field"]) <=> FitsAll(Declared, data)
        /\ FitsAll(Declared, data) => cleaned["field"] \in Keeps(situation.field) \cup {Nothing}
    <3>1. ~ValidationRaises(Declared, data) /\ ~ValidationErrors(Declared, data)
      BY <1>9 DEF Insert, Content
    <3> QED BY <2>0, <3>1, DataFits
  <2> HIDE DEF cleaned
  <2>4. Content'
    BY <2>0, <2>2 DEF Content
  <2>5. OnlyFittingDataIsStored'
    BY <2>0, <2>1, <2>2, <2>3 DEF OnlyFittingDataIsStored, Fitting, Judged
  <2> QED BY <2>4, <2>5
<1> QED BY <1>1, <1>2, <1>3, <1>4, <1>5, <1>6, <1>7, <1>8, <1>9 DEF Next
-----------------------------------------------------------------------------
(* Places and addresses. *)

LEMMA AppendTried ==
  ASSUME NEW s \in Seq(Nat), NEW e \in Nat
  PROVE  /\ Append(s, e) \in Seq(Nat)
         /\ {Append(s, e)[i] : i \in DOMAIN Append(s, e)} = {s[i] : i \in DOMAIN s} \cup {e}
<1>1. /\ Append(s, e) \in Seq(Nat) /\ DOMAIN Append(s, e) = 1..(Len(s) + 1) /\ DOMAIN s = 1..Len(s)
      /\ \A i \in 1..Len(s) : Append(s, e)[i] = s[i]
      /\ Append(s, e)[Len(s) + 1] = e /\ Len(s) \in Nat
  OBVIOUS
<1>2. 1..(Len(s) + 1) = 1..Len(s) \cup {Len(s) + 1}
  BY <1>1
<1> QED BY <1>1, <1>2

Chain == <<position, attempted, asked, location>>

\* Until enrich has begun there is nothing to tell, and after it nothing changes.
LEMMA PlacesKept ==
  ASSUME TypeOK, Content, Places, LocationTellsWhy, AddressesStayHome,
         UNCHANGED <<situation, Chain>>,
         \/ /\ pc \in Before \cup {"gates", "validate", "limits"}
            /\ pc' \in Before \cup {"gates", "validate", "limits", "enrich"} \cup After
            /\ pc' \in {"gates", "validate", "limits", "enrich"} => ip' \in Addresses
            /\ UNCHANGED row
         \/ /\ pc \in {"insert"} \cup After /\ pc' \in After /\ UNCHANGED <<ip, verdict>>
            /\ row' = row \/ pc = "insert"
            /\ code' = code \/ code' \in {200, 201, 202, 500}
  PROVE  Places' /\ LocationTellsWhy' /\ AddressesStayHome'
<1>1. CASE pc \in Before \cup {"gates", "validate", "limits"}
  <2>1. Untouched /\ Untouched' /\ row' = None
    BY <1>1 DEF Places, Content, Untouched, Chain, Before, Inside, After
  <2>2. Places'
    BY <1>1, <2>1 DEF Places, Untouched, Before, Inside, After
  <2>3. LocationTellsWhy' /\ AddressesStayHome'
    BY <2>1 DEF LocationTellsWhy, AddressesStayHome, Untouched
  <2> QED BY <2>2, <2>3
<1>2. CASE /\ pc \in {"insert"} \cup After /\ pc' \in After /\ UNCHANGED <<ip, verdict>>
           /\ row' = row \/ pc = "insert"
           /\ code' = code \/ code' \in {200, 201, 202, 500}
  <2>1. Places'
    BY <1>2 DEF Places, Chain, Before, Inside, After
  <2>2. UNCHANGED <<Len(situation.needsPublic), {asked[i] : i \in DOMAIN asked},
                    {p \in 1..Len(situation.needsPublic) : Eligible(p)}>>
    BY <1>2 DEF Chain, Eligible
  <2>3. row' # None => location' # None
    BY <1>2 DEF Places, LocationTellsWhy, Chain
  <2>4. LocationTellsWhy'
    BY <1>2, <2>2, <2>3 DEF LocationTellsWhy, Chain
  <2>5. AddressesStayHome'
    BY <1>2 DEF AddressesStayHome, Chain
  <2> QED BY <2>1, <2>4, <2>5
<1> QED BY <1>1, <1>2

\* A step of the loop, or to it.
LEMMA ChainStep ==
  ASSUME TypeOK, Content, Places, LocationTellsWhy, AddressesStayHome, Enrich \/ Ask \/ GiveUp
  PROVE  Places' /\ LocationTellsWhy' /\ AddressesStayHome'
<1> USE DEF Before, Inside, After, Goto, request, answer
<1> DEFINE able == {p \in 1..Len(situation.needsPublic) : Eligible(p)}
<1>0. /\ situation \in Situations /\ row = None /\ row' = None /\ code = 0 /\ code' = 0 /\ situation' = situation
      /\ verdict = "accepted" /\ verdict' = "accepted" /\ asked \in Seq(Nat)
  BY DEF TypeOK, Content, Places, Enrich, Ask, GiveUp
<1>1. Len(situation.needsPublic) \in Nat
  <2>1. situation.needsPublic \in Seq(BOOLEAN)
    BY <1>0, SituationAssumption, Zenon
  <2> QED BY <2>1
<1>2. ASSUME NEW status \in Statuses, NEW who \in Nat \cup {None}, Locate(status, who)
      PROVE  location' # None /\ location'.status = status /\ location'.provider = who
  BY <1>2, NoneIsNoVerdict DEF Locate
<1>3. CASE Enrich
  <2> DEFINE lookup == IF situation.forced # "" THEN situation.forced ELSE ip
  <2>1. Untouched /\ lookup \in Addresses /\ ip' = lookup /\ UNCHANGED <<position, attempted, asked>>
    BY <1>0, <1>3, SituationAssumption DEF Enrich, Places, Addresses
  <2>2. CASE lookup = ""
    <3>1. Locate("skipped_no_ip", None) /\ pc' = "insert"
      BY <1>3, <2>2 DEF Enrich
    <3>2. location' # None /\ location'.status = "skipped_no_ip"
      BY <1>2, <3>1 DEF Statuses
    <3>3. Places'
      BY <1>0, <2>1, <3>1, <3>2 DEF Places, Untouched
    <3> HIDE DEF lookup
    <3>4. ip' = "" /\ {asked'[i] : i \in DOMAIN asked'} = {}
      <4>1. ip' = ""
        BY <2>1, <2>2
      <4>2. asked' = <<>>
        BY <2>1 DEF Untouched
      <4>3. DOMAIN <<>> = {}
        OBVIOUS
      <4> QED BY <4>1, <4>2, <4>3
    <3>6. LocationTellsWhy'
      BY <1>0, <3>2, <3>4 DEF LocationTellsWhy
    <3>5. AddressesStayHome'
      BY <2>1 DEF AddressesStayHome, Untouched
    <3> QED BY <3>3, <3>5, <3>6
  <2>3. CASE lookup # ""
    <3>1. UNCHANGED location /\ pc' = "chain"
      BY <1>3, <2>3 DEF Enrich
    <3> HIDE DEF lookup
    <3>2. Tried' = {} /\ {p \in 1..(position - 1) : Eligible(p)}' = {}
      BY <2>1 DEF Tried, Untouched
    <3>3. Places'
      <4>1. location' = None /\ ip' \in {"public", "private"} /\ position' = 1 /\ ~attempted'
        BY <2>1, <2>3, <3>1 DEF Untouched, Addresses
      <4>2. 1 \in 1..(Len(situation'.needsPublic) + 1) /\ asked' \in Seq(Nat)
        BY <1>0, <1>1, <2>1
      <4> QED BY <3>1, <3>2, <4>1, <4>2 DEF Places
    <3>4. LocationTellsWhy' /\ AddressesStayHome'
      BY <1>0, <2>1, <3>1 DEF LocationTellsWhy, AddressesStayHome, Untouched
    <3> QED BY <3>3, <3>4
  <2> QED BY <2>2, <2>3
<1>4. ASSUME pc = "chain"
      PROVE  /\ location = None /\ ip \in {"public", "private"}
             /\ position \in 1..(Len(situation.needsPublic) + 1)
             /\ Tried = {p \in 1..(position - 1) : Eligible(p)} /\ (attempted <=> Tried # {})
             /\ asked # <<>> => ip = "public" \/ \A i \in DOMAIN asked : ~situation.needsPublic[asked[i]]
  BY <1>4 DEF Places, AddressesStayHome
<1>5. CASE Ask
  <2>1. /\ pc = "chain" /\ position \in 1..Len(situation.needsPublic) /\ UNCHANGED ip
        /\ position' = position + 1 /\ position \in Nat
        /\ attempted' = (attempted \/ Eligible(position))
        /\ asked' = IF Eligible(position) THEN Append(asked, position) ELSE asked
    BY <1>1, <1>4, <1>5 DEF Ask
  <2>2. \A p : Eligible(p)' = Eligible(p)
    BY <1>0, <2>1 DEF Eligible
  <2>3. asked' \in Seq(Nat) /\ Tried' = Tried \cup IF Eligible(position) THEN {position} ELSE {}
    <3>1. CASE Eligible(position)
      BY <1>0, <2>1, <3>1, AppendTried DEF Tried
    <3>2. CASE ~Eligible(position)
      BY <1>0, <2>1, <3>2 DEF Tried
    <3> QED BY <3>1, <3>2
  <2>4. Tried' = {p \in 1..position : Eligible(p)}
    <3>1. 1..position = 1..(position - 1) \cup {position}
      BY <2>1
    <3>2. Tried = {p \in 1..(position - 1) : Eligible(p)}
      BY <1>4, <2>1
    <3>3. CASE Eligible(position)
      BY <2>3, <3>1, <3>2, <3>3
    <3>4. CASE ~Eligible(position)
      BY <2>3, <3>1, <3>2, <3>4
    <3> QED BY <3>3, <3>4
  <2>5. attempted' <=> Tried' # {}
    BY <1>4, <2>1, <2>3
  <2>6. AddressesStayHome'
    <3>1. ip = "public" \/ \A p \in Tried' : ~situation.needsPublic[p]
      BY <2>4 DEF Eligible
    <3> QED BY <1>0, <2>1, <3>1 DEF AddressesStayHome, Tried
  <2>7. CASE Eligible(position) /\ Locate("ok", position) /\ Goto("insert")
    <3>1. location' # None /\ location'.status = "ok" /\ location'.provider = position
      BY <1>2, <2>1, <2>7 DEF Statuses
    <3>2. Places'
      BY <2>3, <2>7, <3>1 DEF Places
    <3>3. position \in able /\ Tried' = {p \in able : p <= position}
      BY <1>1, <2>1, <2>4, <2>7
    <3>4. able' = able
      BY <1>0, <2>2
    <3> HIDE DEF able
    <3>5. LocationTellsWhy'
      BY <1>0, <3>1, <3>3, <3>4 DEF LocationTellsWhy, Tried, able
    <3> QED BY <2>6, <3>2, <3>5
  <2>8. CASE UNCHANGED location /\ Goto("chain")
    <3>1. {p \in 1..(position - 1) : Eligible(p)}' = {p \in 1..position : Eligible(p)}
      BY <2>1, <2>2
    <3>2. Places'
      BY <1>0, <1>1, <1>4, <2>1, <2>3, <2>4, <2>5, <2>8, <3>1 DEF Places
    <3>3. LocationTellsWhy'
      BY <1>0, <1>4, <2>1, <2>8 DEF LocationTellsWhy
    <3> QED BY <2>6, <3>2, <3>3
  <2> QED BY <1>5, <2>7, <2>8 DEF Ask
<1>6. CASE GiveUp
  <2>1. /\ pc = "chain" /\ position = Len(situation.needsPublic) + 1 /\ pc' = "insert"
        /\ UNCHANGED <<ip, position, attempted, asked>>
    BY <1>1, <1>4, <1>6 DEF GiveUp
  <2>2. {asked[i] : i \in DOMAIN asked} = able /\ able' = able
    BY <1>0, <1>1, <1>4, <2>1 DEF Tried, Eligible
  <2>3. /\ location' # None /\ location'.status \in {"skipped_private_ip", "unavailable"}
        /\ location'.status = "skipped_private_ip" <=> ~attempted /\ ip # "public"
    BY <1>2, <1>6 DEF GiveUp, Statuses
  <2>4. Places'
    BY <1>0, <2>1, <2>3 DEF Places
  <2>5. attempted <=> able # {}
    BY <1>4, <2>1, <2>2 DEF Tried
  <2>6. AddressesStayHome'
    BY <1>0, <1>4, <2>1 DEF AddressesStayHome
  <2> HIDE DEF able
  <2>7. LocationTellsWhy'
    BY <1>0, <1>4, <2>1, <2>2, <2>3, <2>5 DEF LocationTellsWhy, able
  <2> QED BY <2>4, <2>6, <2>7
<1> QED BY <1>3, <1>5, <1>6

LEMMA PlacesStep ==
  TypeOK /\ Content /\ Places /\ LocationTellsWhy /\ AddressesStayHome /\ [Next]_vars =>
    Places' /\ LocationTellsWhy' /\ AddressesStayHome'
<1> SUFFICES ASSUME TypeOK, Content, Places, LocationTellsWhy, AddressesStayHome, [Next]_vars
             PROVE  Places' /\ LocationTellsWhy' /\ AddressesStayHome'
  OBVIOUS
<1> USE DEF Goto, Respond, Raise, request, answer, geo, Before, Inside, After, Chain
<1>1. CASE Send \/ Preflight \/ BodyLimit \/ Read \/ Admin
  <2>1. /\ UNCHANGED <<situation, Chain, row>> /\ pc \in Before /\ pc' \in Before \cup After
    BY <1>1 DEF Send, Preflight, BodyLimit, Read, Admin
  <2> QED BY <2>1, PlacesKept
<1>2. CASE Body
  <2>1. /\ UNCHANGED <<situation, Chain, row>> /\ pc \in Before
        /\ pc' = "out" \/ (pc' = "gates" /\ ip' \in Addresses)
    BY <1>2 DEF Body, Addresses
  <2> QED BY <2>1, PlacesKept
<1>3. CASE Gates \/ Validate \/ Limits
  <2>1. /\ UNCHANGED <<situation, Chain, row, ip>> /\ pc \in {"gates", "validate", "limits"}
        /\ pc' \in {"gates", "validate", "limits", "enrich"} \cup After
    BY <1>3 DEF Gates, Validate, Limits
  <2> QED BY <2>1, PlacesKept DEF Places
<1>4. CASE Enrich \/ Ask \/ GiveUp
  BY <1>4, ChainStep
<1>5. CASE Insert
  <2>1. /\ UNCHANGED <<situation, Chain, ip, verdict>> /\ pc = "insert" /\ pc' \in After
        /\ code' \in {200, 201, 202, 500}
    BY <1>5 DEF Insert
  <2> QED BY <2>1, PlacesKept
<1>6. CASE Out \/ Arrive
  <2>1. /\ UNCHANGED <<situation, Chain, ip, verdict, row, code>> /\ pc \in After /\ pc' \in After
    BY <1>6 DEF Out, Arrive
  <2> QED BY <2>1, PlacesKept
<1>7. CASE DbError
  <2>1. /\ UNCHANGED <<situation, Chain, ip, verdict, row>> /\ pc' = "arrive" /\ code' = 500
        /\ pc \in {"gates", "limits", "insert", "route"}
    BY <1>7 DEF DbError
  <2> QED BY <2>1, PlacesKept
<1>8. CASE UNCHANGED vars
  <2>1. UNCHANGED <<Len(situation.needsPublic), {asked[i] : i \in DOMAIN asked}, Tried,
                    {p \in 1..Len(situation.needsPublic) : Eligible(p)},
                    {p \in 1..(position - 1) : Eligible(p)}>>
    BY <1>8 DEF vars, Eligible, Tried
  <2>2. Places'
    BY <1>8, <2>1 DEF vars, Places, Untouched
  <2>3. LocationTellsWhy'
    BY <1>8, <2>1 DEF vars, LocationTellsWhy
  <2>4. AddressesStayHome'
    BY <1>8 DEF vars, AddressesStayHome
  <2> QED BY <2>2, <2>3, <2>4
<1> QED BY <1>1, <1>2, <1>3, <1>4, <1>5, <1>6, <1>7, <1>8 DEF Next

LEMMA Invariance == Spec => []IInv
<1>1. IInv /\ [Next]_vars => IInv'
  BY TypeStep, BorderStep, ContentStep, PlacesStep DEF IInv
<1> QED BY InitInv, <1>1, PTL DEF Spec
-----------------------------------------------------------------------------
(* The theorems. *)

\* PublicCORSMiddleware around the routes: whatever a foreign page sends, with
\* or without a key, it runs and reads nothing of the private side, and sees
\* how its own request ended on the public one, but for a 500.
THEOREM TheBorderHolds == Spec => []ForeignPagesSeeThePublicSide
<1>1. IInv => ForeignPagesSeeThePublicSide
  BY DEF IInv
<1> QED BY <1>1, Invariance, PTL

\* validate_submission before the insert: for every declared field and every
\* value, what is stored fits, what fits is not refused for its content, and
\* nothing that fits ends in a 500 but by the database.
THEOREM WhatIsStoredFits == Spec => []OnlyFittingDataIsStored
<1>1. IInv => OnlyFittingDataIsStored
  BY DEF IInv
<1> QED BY <1>1, Invariance, PTL

\* enrich, for a chain of any length, any of its providers down: the status on
\* the row is the reason, and nobody who could have helped was left out.
THEOREM EveryStatusIsTrue == Spec => []LocationTellsWhy
<1>1. IInv => LocationTellsWhy
  BY DEF IInv
<1> QED BY <1>1, Invariance, PTL

\* provider_needs_public_ip, and the order of submit: a private address, or that
\* of a submission that was refused, is not sent to any lookup service.
THEOREM PrivateAddressesStay == Spec => []AddressesStayHome
<1>1. IInv => AddressesStayHome
  BY DEF IInv
<1> QED BY <1>1, Invariance, PTL
=============================================================================
