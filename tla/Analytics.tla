----------------------------- MODULE Analytics ------------------------------
(***************************************************************************)
(* What the analytics service keeps beside its incidents                   *)
(* (src/apps/backend/src/modules/analytics/services/analytics.service.ts): *)
(* forms with their submissions and the resources that are deployed; the   *)
(* reports that are generated in the background; the files a report is     *)
(* exported to, and the bounds of the periods of the metrics.              *)
(*                                                                         *)
(* A call that changes a row loads it and saves the whole of it later.     *)
(*                                                                         *)
(* overlapping: a withdrawal began while another of the same was under way.*)
(* lowered: reports whose classification was asked for below the           *)
(* requester's clearance. unattended: reports whose generator was cut off. *)
(***************************************************************************)
EXTENDS Integers, Sequences

\* Named, so that its operators do not meet those of other modules.
Seqs == INSTANCE SequencesExt

CONSTANTS
  FieldCalls,       \* calls about forms and resources that run at the same time
  MaxFieldCalls,    \* bound: calls begun
  AnalyticReports,  \* reports that can be requested
  Clearances,       \* clearance and classification levels
  CellValues,       \* values in the rows of a report, see Cell
  MaxRows,          \* bound: rows of a report
  MaxOrdinal        \* bound: columns and days looked at

ASSUME AnalyticsAssumption ==
  /\ MaxFieldCalls \in Nat
  /\ Clearances \subseteq Nat
  /\ MaxRows \in Nat /\ MaxOrdinal \in Nat

-----------------------------------------------------------------------------
(* Forms, submissions and resource deployments.                            *)

VARIABLES
  form,          \* status of the form
  submission,    \* its submissions, in order of insertion
  withdrawnAt,   \* NotDeployed, then 0 while the resource is out; each saved withdrawal has a
                 \* later time
  fieldCall,     \* call -> where it is
  fieldCalls, overlapping

fieldVars == <<form, submission, withdrawnAt, fieldCall, fieldCalls, overlapping>>

FormStatuses == {"none", "draft", "published"}
Verdicts == {"under_review", "accepted", "rejected", "requires_revision"}
Submission == [status: {"submitted"} \cup Verdicts, reviewer: FieldCalls \cup {"nobody"}]
NotDeployed == -1
FieldSteps == {"idle", "publish", "submit", "review", "withdraw"}
FieldIdle == [pc |-> "idle", row |-> 0, verdict |-> "none"]

FieldWorkTypeOK ==
  /\ form \in FormStatuses
  /\ submission \in Seq(Submission)
  /\ withdrawnAt \in NotDeployed..MaxFieldCalls
  /\ fieldCall \in [FieldCalls -> [pc: FieldSteps, row: Nat, verdict: Verdicts \cup {"none"}]]
  /\ fieldCalls \in 0..MaxFieldCalls /\ overlapping \in BOOLEAN

FieldWorkInit ==
  /\ form = "none" /\ submission = <<>> /\ withdrawnAt = NotDeployed
  /\ fieldCall = [c \in FieldCalls |-> FieldIdle]
  /\ fieldCalls = 0 /\ overlapping = FALSE

FieldBegin(c, pc, row, verdict) ==
  /\ fieldCall[c] = FieldIdle /\ fieldCalls < MaxFieldCalls
  /\ fieldCall' = [fieldCall EXCEPT ![c] = [pc |-> pc, row |-> row, verdict |-> verdict]]
  /\ fieldCalls' = fieldCalls + 1
FieldEnd(c, pc) ==
  /\ fieldCall[c].pc = pc
  /\ fieldCall' = [fieldCall EXCEPT ![c] = FieldIdle]
  /\ UNCHANGED <<fieldCalls, overlapping>>

\* createForm; a form without fields is refused before.
CreateForm ==
  /\ form = "none" /\ form' = "draft"
  /\ UNCHANGED <<submission, withdrawnAt, fieldCall, fieldCalls, overlapping>>

\* publishForm loads and checks the form, then saves it.
LoadFormToPublish(c) ==
  /\ form = "draft" /\ FieldBegin(c, "publish", 0, "none")
  /\ UNCHANGED <<form, submission, withdrawnAt, overlapping>>
SavePublishedForm(c) ==
  /\ FieldEnd(c, "publish") /\ form' = "published"
  /\ UNCHANGED <<submission, withdrawnAt>>

\* submitForm finds the form among the published ones, then inserts the
\* submission; onFormSubmitted only writes to the log.
MaySubmit == form = "published"
FindPublishedForm(c) ==
  /\ MaySubmit /\ FieldBegin(c, "submit", 0, "none")
  /\ UNCHANGED <<form, submission, withdrawnAt, overlapping>>
InsertSubmission(c) ==
  /\ FieldEnd(c, "submit")
  /\ submission' = Append(submission, [status |-> "submitted", reviewer |-> "nobody"])
  /\ UNCHANGED <<form, withdrawnAt>>

\* reviewSubmission takes any status, whatever the submission's is.
LoadSubmission(c, row, verdict) ==
  /\ FieldBegin(c, "review", row, verdict)
  /\ UNCHANGED <<form, submission, withdrawnAt, overlapping>>
SaveSubmissionReview(c) ==
  /\ FieldEnd(c, "review")
  /\ submission' = [submission EXCEPT
       ![fieldCall[c].row] = [status |-> fieldCall[c].verdict, reviewer |-> c]]
  /\ UNCHANGED <<form, withdrawnAt>>

\* deployResource, once the incident may be read.
DeployResource ==
  /\ withdrawnAt = NotDeployed /\ withdrawnAt' = 0
  /\ UNCHANGED <<form, submission, fieldCall, fieldCalls, overlapping>>

\* withdrawResource refuses a resource that is withdrawn, then saves the time.
MayWithdraw == withdrawnAt = 0
LoadDeployment(c) ==
  /\ MayWithdraw /\ FieldBegin(c, "withdraw", 0, "none")
  /\ overlapping' = (overlapping \/ \E d \in FieldCalls : fieldCall[d].pc = "withdraw")
  /\ UNCHANGED <<form, submission, withdrawnAt>>
SaveWithdrawal(c) ==
  /\ FieldEnd(c, "withdraw") /\ withdrawnAt' = withdrawnAt + 1
  /\ UNCHANGED <<form, submission>>

FieldWorkNext ==
  \/ CreateForm \/ DeployResource
  \/ \E c \in FieldCalls :
       \/ LoadFormToPublish(c) \/ SavePublishedForm(c)
       \/ FindPublishedForm(c) \/ InsertSubmission(c)
       \/ \E row \in DOMAIN submission, verdict \in Verdicts : LoadSubmission(c, row, verdict)
       \/ SaveSubmissionReview(c)
       \/ LoadDeployment(c) \/ SaveWithdrawal(c)

FieldWorkSpec == FieldWorkInit /\ [][FieldWorkNext]_fieldVars

\* The time of a withdrawal is kept unless two withdrawals of the resource
\* overlapped (withdrawResource, analytics.service.ts:267-273), and a form that
\* has submissions is never a draft again (submitForm, publishForm).
WithdrawalStands ==
  [][/\ withdrawnAt \notin {NotDeployed, 0} /\ ~overlapping' => withdrawnAt' = withdrawnAt
     /\ submission' # <<>> => form' = "published"]_fieldVars

-----------------------------------------------------------------------------
(* Generated reports.                                                      *)

VARIABLES
  generated,    \* report -> row of analytics.generated_reports
  generator,    \* report -> what its generateReport is doing
  unattended, lowered,
  downloads     \* what was downloaded: clearance of the reader, report, its data

generatedVars == <<generated, generator, unattended, lowered, downloads>>

ReportTypes == {"incident_summary", "response_performance"}
NoData == -1
NoReport == [status |-> "none", type |-> "none", classification |-> 0, clearance |-> 0, data |-> NoData]
GeneratedRow ==
  [status: {"none", "generating", "ready", "failed"}, type: ReportTypes \cup {"none"},
   classification: Clearances, clearance: Clearances, data: Clearances \cup {NoData}]

GeneratedReportsTypeOK ==
  /\ generated \in [AnalyticReports -> GeneratedRow]
  /\ generator \in [AnalyticReports -> {"none", "scheduled", "built", "failing"}]
  /\ unattended \cup lowered \subseteq AnalyticReports
  /\ downloads \subseteq [clearance: Clearances, report: AnalyticReports, data: Clearances \cup {NoData}]

GeneratedReportsInit ==
  /\ generated = [r \in AnalyticReports |-> NoReport]
  /\ generator = [r \in AnalyticReports |-> "none"]
  /\ unattended = {} /\ lowered = {} /\ downloads = {}

\* requestReport stores the row and schedules the generation (setImmediate).
RequestReport(r, type, clearance, classification) ==
  /\ generated[r] = NoReport
  /\ generated' = [generated EXCEPT ![r] = [status |-> "generating", type |-> type,
       classification |-> classification, clearance |-> clearance, data |-> NoData]]
  /\ generator' = [generator EXCEPT ![r] = "scheduled"]
  /\ lowered' = IF classification < clearance THEN lowered \cup {r} ELSE lowered
  /\ UNCHANGED <<unattended, downloads>>

\* buildReportData: the statistics by region are asked for with two WHERE
\* clauses, which the database refuses.
CanBeBuilt(type) == type # "incident_summary"

BuildReportData(r) ==
  /\ generator[r] = "scheduled" /\ CanBeBuilt(generated[r].type)
  /\ generator' = [generator EXCEPT ![r] = "built"]
  /\ UNCHANGED <<generated, unattended, lowered, downloads>>
BuildReportFails(r) ==
  /\ generator[r] = "scheduled"
  /\ generator' = [generator EXCEPT ![r] = "failing"]
  /\ UNCHANGED <<generated, unattended, lowered, downloads>>

\* The queries keep to incidents within the requester's clearance: in the worst
\* case some are at it.
DataOf(r) == generated[r].clearance
SaveReady(r) == [generated[r] EXCEPT !.status = "ready", !.data = DataOf(r)]

\* The update reports failure or is cut off: the handler of errors goes on.
FinishReport(r) ==
  /\ generator[r] = "built"
  /\ \/ /\ generated' = [generated EXCEPT ![r] = SaveReady(r)]
        /\ generator' = [generator EXCEPT ![r] = "none"]
     \/ generated' = generated /\ generator' = [generator EXCEPT ![r] = "failing"]
  /\ UNCHANGED <<unattended, lowered, downloads>>
FailReport(r) ==
  /\ generator[r] = "failing"
  /\ generator' = [generator EXCEPT ![r] = "none"]
  /\ \/ generated' = [generated EXCEPT ![r].status = "failed"] /\ unattended' = unattended
     \/ generated' = generated /\ unattended' = unattended \cup {r}
  /\ UNCHANGED <<lowered, downloads>>

\* The backend stops: nothing takes up the reports it was generating.
BackendStops ==
  /\ unattended' = unattended \cup {r \in AnalyticReports : generator[r] # "none"}
  /\ unattended' # unattended
  /\ generator' = [r \in AnalyticReports |-> "none"]
  /\ UNCHANGED <<generated, lowered, downloads>>

\* getReport and downloadReport.
IsReadable(r, clearance) == generated[r].classification <= clearance
DownloadReport(r, clearance) ==
  /\ IsReadable(r, clearance) /\ generated[r].status = "ready"
  /\ downloads' = downloads \cup {[clearance |-> clearance, report |-> r, data |-> generated[r].data]}
  /\ UNCHANGED <<generated, generator, unattended, lowered>>

GeneratedReportsNext ==
  \/ \E r \in AnalyticReports :
       \/ \E type \in ReportTypes, clearance, classification \in Clearances :
            RequestReport(r, type, clearance, classification)
       \/ BuildReportData(r) \/ BuildReportFails(r) \/ FinishReport(r) \/ FailReport(r)
       \/ \E clearance \in Clearances : DownloadReport(r, clearance)
  \/ BackendStops

GeneratedReportsSpec == GeneratedReportsInit /\ [][GeneratedReportsNext]_generatedVars

\* A report that is being generated has a generator at work, unless that one
\* was cut off; and what people download is complete, and within their
\* clearance unless the requester asked for a lower classification
\* (requestReport, generateReport, downloadReport).
ReportsAreSettled ==
  /\ \A r \in AnalyticReports :
       generated[r].status = "generating" => generator[r] # "none" \/ r \in unattended
  /\ \A d \in downloads : d.data # NoData /\ (d.data <= d.clearance \/ d.report \in lowered)

-----------------------------------------------------------------------------
(* The files of a report, and the periods of the metrics.                  *)

\* A text is a sequence of characters; one that consists of digits is a number
\* for the spreadsheet.
Quote == "quote"
Comma == "comma"
LineFeed == "lf"
LineEnd == "crlf"
Digits == {"0", "7"}

\* A value of a row: [null: BOOLEAN, number: BOOLEAN, text: a sequence of characters].
Header == << <<"a">>, <<"b">> >>
Columns == Len(Header)

VARIABLES
  cell,      \* the values of the rows, row by row
  ordinal    \* a number whose column name and period bounds are looked at

exportVars == <<cell, ordinal>>

ReportExportsTypeOK ==
  /\ cell \in Seq(CellValues) /\ Len(cell) <= MaxRows * Columns
  /\ ordinal \in 0..MaxOrdinal

ReportExportsInit == cell = <<>> /\ ordinal = 0

\* Rows come with all their columns; ordinals are looked at one after the other.
AddRow(row) ==
  /\ ordinal = 0 /\ Len(cell) < MaxRows * Columns
  /\ cell' = cell \o row /\ ordinal' = ordinal
NextOrdinal ==
  /\ cell = <<>> /\ ordinal < MaxOrdinal
  /\ ordinal' = ordinal + 1 /\ cell' = cell

ReportExportsNext == NextOrdinal \/ \E row \in [1..Columns -> CellValues] : AddRow(row)
ReportExportsSpec == ReportExportsInit /\ [][ReportExportsNext]_exportVars

\* toCsv: null is the empty text, quotes are doubled; lines are joined by CR LF.
EscapeCsv(text) ==
  IF Seqs!ToSet(text) \cap {Comma, Quote, LineFeed} = {} THEN text
  ELSE LET doubled == [i \in DOMAIN text |-> IF text[i] = Quote THEN <<Quote, Quote>> ELSE <<text[i]>>]
       IN  <<Quote>> \o Seqs!FlattenSeq(doubled) \o <<Quote>>
LineOf(texts) == Seqs!FlattenSeq([i \in DOMAIN texts |-> IF i = 1 THEN texts[i] ELSE <<Comma>> \o texts[i]])
RowTexts(n) == [i \in 1..Columns |-> EscapeCsv(cell[(n - 1) * Columns + i].text)]
Rows == Len(cell) \div Columns
ToCsv ==
  IF cell = <<>> THEN <<>>
  ELSE LineOf(Header) \o Seqs!FlattenSeq([n \in 1..Rows |-> <<LineEnd>> \o LineOf(RowTexts(n))])

\* A reader of CSV files: quoted fields may hold anything, with quotes doubled.
ReadCsvCharacter(reader, c) ==
  LET EndOfField == [fields |-> Append(reader.fields, reader.text), text |-> <<>>, mode |-> "plain"]
  IN  CASE reader.mode = "quoted" /\ c = Quote -> [reader EXCEPT !.mode = "closing"]
        [] reader.mode = "quoted" /\ c # Quote -> [reader EXCEPT !.text = Append(@, c)]
        [] reader.mode # "quoted" /\ c \in {Comma, LineEnd} -> EndOfField
        [] reader.mode = "closing" /\ c = Quote ->
             [reader EXCEPT !.mode = "quoted", !.text = Append(@, Quote)]
        [] reader.mode = "plain" /\ c = Quote -> [reader EXCEPT !.mode = "quoted"]
        [] OTHER -> [reader EXCEPT !.text = Append(@, c)]
ReadCsv(characters) ==
  LET end == Seqs!FoldLeft(ReadCsvCharacter, [fields |-> <<>>, text |-> <<>>, mode |-> "plain"], characters)
  IN  Append(end.fields, end.text)

\* toXlsx: a text is stored once in the shared table and a cell refers to it;
\* what looks like a number becomes one, without its leading zeros.
EscXml(text) == [i \in DOMAIN text |-> IF text[i] = "&" THEN "&amp;" ELSE text[i]]
IsNumeric(value) == value.number \/ (value.text # <<>> /\ Seqs!ToSet(value.text) \subseteq Digits)
NumberOf(text) ==
  LET significant == {i \in DOMAIN text : text[i] # "0"}
      first == CHOOSE i \in significant : \A k \in significant : i <= k
  IN  IF significant = {} THEN <<"0">> ELSE SubSeq(text, first, Len(text))
Interned(table, text) == IF Seqs!Contains(table, text) THEN table ELSE Append(table, text)
IndexOfText(table, text) == CHOOSE i \in DOMAIN table : table[i] = text
AddCell(sheet, value) ==
  IF IsNumeric(value)
  THEN [sheet EXCEPT !.cells = Append(@, [number |-> TRUE, text |-> NumberOf(value.text), index |-> 0])]
  ELSE LET text == EscXml(value.text)
           table == Interned(sheet.table, text)
           reference == [number |-> FALSE, text |-> <<>>, index |-> IndexOfText(table, text)]
       IN  [table |-> table, cells |-> Append(sheet.cells, reference)]
Sheet == Seqs!FoldLeft(AddCell, [table |-> Seqs!FoldLeft(Interned, <<>>, Header), cells |-> <<>>], cell)

\* A spreadsheet program: texts come from the table, with the XML undone.
ReadSheetCell(c) ==
  IF c.number THEN c.text
  ELSE LET text == Sheet.table[c.index]
       IN  [i \in DOMAIN text |->
              CASE text[i] = "&amp;" -> "&" [] text[i] = "&" -> "malformed" [] OTHER -> text[i]]

\* buildZip: local headers and contents one after the other, each entry of the
\* central directory with the offset of its local header.
Deflated(size) == size + 5
LocalHeaderSize(file) == 30 + file.name
AddFile(zip, file) ==
  [parts |-> zip.parts \o <<LocalHeaderSize(file), Deflated(file.size)>>,
   directory |-> Append(zip.directory, zip.offset),
   offset |-> zip.offset + LocalHeaderSize(file) + Deflated(file.size)]
Files ==
  <<[name |-> 19, size |-> 900], [name |-> 11, size |-> 300], [name |-> 15, size |-> 320],
    [name |-> 26, size |-> 430], [name |-> 24, size |-> 40 * Len(cell)],
    [name |-> 20, size |-> 30 * Len(Sheet.table)]>>
BuildZip == Seqs!FoldLeft(AddFile, [parts |-> <<>>, directory |-> <<>>, offset |-> 0], Files)
SumOf(sizes) == Seqs!FoldLeft(LAMBDA a, b : a + b, 0, sizes)

\* colLetter: A to Z, then AA and on.
ColLetter(idx) ==
  LET letters[n \in Nat] == IF n = 0 THEN <<>> ELSE Append(letters[(n - 1) \div 26], (n - 1) % 26)
  IN  letters[idx + 1]

\* A spreadsheet program counts A as 1 in a number of base 26.
ColumnNumber(letters) == Seqs!FoldLeft(LAMBDA n, letter : 26 * n + letter + 1, 0, letters)

-----------------------------------------------------------------------------
\* Days are counted from the first of January of a common year, a Sunday; the
\* bounds are whole days.
MonthDays == <<31, 28, 31, 30, 31, 30, 31, 31, 30, 31, 30, 31>>
FirstOf(month) == SumOf(SubSeq(MonthDays, 1, month - 1))
MonthOf(day) == CHOOSE m \in 1..12 : FirstOf(m) <= day /\ day < FirstOf(m) + MonthDays[m]
DayOfMonth(day) == day - FirstOf(MonthOf(day)) + 1
Weekday(day) == day % 7

\* getPeriodBounds: setDate counts from the first of the month the date is in,
\* and the end of a week is set from its beginning's day of the month.
PeriodBounds(period, day) ==
  CASE period = "daily" -> [from |-> day, to |-> day]
    [] period = "weekly" ->
         LET from == day - Weekday(day)
         IN  [from |-> from, to |-> FirstOf(MonthOf(day)) + (DayOfMonth(from) + 6) - 1]
    [] period = "monthly" ->
         [from |-> FirstOf(MonthOf(day)), to |-> FirstOf(MonthOf(day)) + MonthDays[MonthOf(day)] - 1]

\* What is exported reads back: every field of the CSV file, every cell of the
\* sheet (numbers and texts of digits as numbers), every file of the archive
\* behind its directory entry, every column by its name (toCsv, toXlsx,
\* colLetter, buildZip, analytics.service.ts:718-978).
ExportsReadBack ==
  /\ cell # <<>> => ReadCsv(ToCsv) = Header \o [i \in DOMAIN cell |-> cell[i].text]
  /\ \A i \in DOMAIN cell :
       ReadSheetCell(Sheet.cells[i]) =
         IF IsNumeric(cell[i]) THEN NumberOf(cell[i].text) ELSE cell[i].text
  /\ LET zip == BuildZip
     IN  \A n \in DOMAIN Files : zip.directory[n] = SumOf(SubSeq(zip.parts, 1, 2 * (n - 1)))
  /\ ColumnNumber(ColLetter(ordinal)) = ordinal + 1

\* A period holds its day, periods that follow one another leave no day out, and
\* a week that begins in the month of its day ends after seven days
\* (getPeriodBounds, analytics.service.ts:1105-1125).
PeriodsHoldTheirDays ==
  \A period \in {"daily", "weekly", "monthly"} :
    LET bounds == PeriodBounds(period, ordinal)
        next == PeriodBounds(period, ordinal + 1)
    IN  /\ bounds.from <= ordinal /\ ordinal <= bounds.to
        /\ next.from = bounds.from \/ next.from = bounds.from + 7 \/ period # "weekly"
        /\ next.from <= bounds.to + 1
        /\ period = "weekly" /\ MonthOf(bounds.from) = MonthOf(ordinal) => bounds.to = bounds.from + 6

=============================================================================
