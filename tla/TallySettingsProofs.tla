------------------------- MODULE TallySettingsProofs ------------------------
(***************************************************************************)
(* Proofs about TallySettings: the tables keep their types however the     *)
(* administrators' requests overlap; the settings and the active company's *)
(* row stay one configuration and a switch stops posting, for any          *)
(* companies, configurations, masters and administrators, unless a request *)
(* committed on rows that had changed since it read them.                  *)
(***************************************************************************)
EXTENDS TallySettings, TLAPS

\* A request that may go on, with what it has read.
Started(t) == t \in Task /\ t.req \in Requests /\ Allowed(t.req, t.company)

\* ... and the tables are still as it read them.
Ready(t) == Started(t) /\ Current(t)

\* The two copies of the configuration agree.
Matched == Saved(company) # {} =>
    \E c \in Saved(company) : Active(company) = {c} /\ company[c].config = settings.config

\* What a commit on current rows establishes.
Matching == Matched'

LEMMA MatchedIf == SettingsMatchActive <=> (~raced => Matched)
  BY DEF SettingsMatchActive, Matched

LEMMA MatchedIfNext == SettingsMatchActive' <=> (~raced' => Matched')
  BY DEF SettingsMatchActive, Matched

LEMMA SettingsInit == Init => SettingsInv
<1> SUFFICES ASSUME Init PROVE SettingsInv
  OBVIOUS
<1>1. TypeOK
  BY DEF Init, TypeOK, Settings, Table
<1>2. SettingsMatchActive
  BY DEF Init, SettingsMatchActive, Saved
<1>3. AllowedByRead
  BY DEF Init, AllowedByRead
<1>. QED  BY <1>1, <1>2, <1>3 DEF SettingsInv

\* Steps that leave both tables alone.
LEMMA TablesKept ==
    ASSUME SettingsInv, TypeOK', UNCHANGED <<tables, raced>>,
           \A a \in Admin : task'[a] # NoTask => task'[a] = task[a]
    PROVE  SettingsInv'
<1>1. SettingsMatchActive'
  BY DEF SettingsInv, SettingsMatchActive, Saved, Active, tables
<1>2. AllowedByRead'
  BY DEF SettingsInv, AllowedByRead, Allowed, Saved
<1>. QED  BY <1>1, <1>2 DEF SettingsInv

LEMMA RequestType == Requests \subseteq Request
  BY DEF Requests, Request

LEMMA SettingsBegin ==
    ASSUME SettingsInv, NEW a \in Admin, NEW r \in Requests, Begin(a, r)
    PROVE  SettingsInv'
<1> DEFINE t == [req |-> r, settings |-> settings, company |-> company]
<1>1. /\ UNCHANGED <<tables, confirmed, products, raced>>
      /\ Allowed(r, company) /\ task' = [task EXCEPT ![a] = t]
  BY DEF Begin
<1>2. t \in Task
  BY RequestType DEF Task, SettingsInv, TypeOK
<1>3. TypeOK'
  BY <1>1, <1>2 DEF SettingsInv, TypeOK, tables
<1>4. SettingsMatchActive'
  BY <1>1 DEF SettingsInv, SettingsMatchActive, Saved, Active, tables
<1>5. AllowedByRead'
  <2>1. ASSUME NEW b \in Admin, task'[b] # NoTask
        PROVE  task'[b].req \in Requests /\ Allowed(task'[b].req, task'[b].company)
    <3>1. CASE b = a
      <4>1. task'[b] = t
        BY <1>1, <3>1 DEF SettingsInv, TypeOK
      <4>2. task'[b].req = r /\ task'[b].company = company
        BY <4>1
      <4>. QED  BY <1>1, <4>2
    <3>2. CASE b # a
      <4>1. task'[b] = task[b]
        BY <1>1, <3>2 DEF SettingsInv, TypeOK
      <4>. QED  BY <2>1, <4>1 DEF SettingsInv, AllowedByRead
    <3>. QED  BY <3>1, <3>2
  <2>. QED  BY <2>1 DEF AllowedByRead, Allowed, Saved
<1>. QED  BY <1>3, <1>4, <1>5 DEF SettingsInv

-----------------------------------------------------------------------------
(* What the commits write.                                                 *)

LEMMA ColumnType ==
    ASSUME NEW S, NEW new \in S, NEW now \in S, NEW read
    PROVE  Column(new, read, now) \in S
  BY DEF Column

\* Rows of a table of companies.
LEMMA RowOf ==
    ASSUME NEW t \in Table, NEW c \in Company
    PROVE  c \in Saved(t) <=> t[c] \in Row
  BY NoRowAssumption DEF Table, Saved

\* Written rows are rows, whatever has become of the table.
LEMMA WrittenType ==
    ASSUME TypeOK, NEW t, Started(t), NEW new,
           \A c \in Saved(t.company) : new[c] \in Row,
           CompaniesWritten(t, new)
    PROVE  company' \in Table
<1>1. \A c \in Company : company'[c] \in Row \cup {NoCompany}
  <2> SUFFICES ASSUME NEW c \in Company PROVE company'[c] \in Row \cup {NoCompany}
    OBVIOUS
  <2>0. company \in Table
    BY DEF TypeOK
  <2>1. CASE c \in Saved(t.company) /\ company[c] # NoCompany
    <3> DEFINE g == Column(new[c].config, t.company[c].config, company[c].config)
               v == Column(new[c].active, t.company[c].active, company[c].active)
    <3>1. new[c] \in Row /\ company[c] \in Row
      BY <2>0, <2>1 DEF Table
    <3>2. g \in Config /\ v \in BOOLEAN
      BY <3>1, ColumnType DEF Row
    <3>3. company'[c] = [config |-> g, active |-> v]
      BY <2>1 DEF CompaniesWritten
    <3> HIDE DEF g, v
    <3>. QED  BY <3>2, <3>3 DEF Row
  <2>2. CASE ~(c \in Saved(t.company) /\ company[c] # NoCompany)
    <3>1. company'[c] = company[c]
      BY <2>2 DEF CompaniesWritten
    <3>. QED  BY <2>0, <3>1 DEF Table
  <2>. QED  BY <2>1, <2>2
<1>2. company' = [c \in Company |-> company'[c]]
  BY DEF CompaniesWritten
<1>. QED  BY <1>1, <1>2 DEF Table

\* On current rows the written rows are the new ones.
LEMMA WrittenCurrent ==
    ASSUME TypeOK, NEW t, Ready(t), NEW new,
           \A c \in Saved(company) : new[c] \in Row,
           CompaniesWritten(t, new)
    PROVE  /\ \A c \in Saved(company) : company'[c] = new[c]
           /\ \A c \in Company \ Saved(company) : company'[c] = company[c]
           /\ Saved(company)' = Saved(company)
<1>1. t.company = company /\ company \in Table
  BY DEF Ready, Current, TypeOK
<1>2. ASSUME NEW c \in Saved(company) PROVE company'[c] = new[c]
  <2>1. c \in Company /\ company[c] # NoCompany /\ new[c] \in Row
    BY DEF Saved
  <2>2. company'[c] = [config |-> new[c].config, active |-> new[c].active]
    BY <1>1, <2>1 DEF CompaniesWritten, Column
  <2>. QED  BY <2>1, <2>2 DEF Row
<1>3. \A c \in Company \ Saved(company) : company'[c] = company[c]
  BY <1>1 DEF CompaniesWritten
<1>4. Saved(company)' = Saved(company)
  <2>1. \A c \in Saved(company) : c \in Company /\ company'[c] # NoCompany
    BY <1>2, NoRowAssumption DEF Saved
  <2>2. \A c \in Company \ Saved(company) : company'[c] = NoCompany
    BY <1>3 DEF Saved
  <2>. QED  BY <2>1, <2>2 DEF Saved
<1>. QED  BY <1>2, <1>3, <1>4

\* The row of one company with another configuration.
LEMMA EditedRows ==
    ASSUME NEW t \in Table, NEW c \in Saved(t), NEW g \in Config
    PROVE  LET new == [t EXCEPT ![c].config = g] IN
           /\ \A d \in Saved(t) : new[d] \in Row
           /\ new[c].config = g /\ new[c].active = t[c].active
           /\ \A d \in Company \ {c} : new[d] = t[d]
<1>1. c \in Company /\ t[c] \in Row
  BY RowOf DEF Saved
<1>2. \A d \in Saved(t) : t[d] \in Row /\ d \in Company
  BY RowOf DEF Saved
<1> DEFINE new == [t EXCEPT ![c].config = g]
<1>3. new[c] = [t[c] EXCEPT !.config = g] /\ \A d \in Company \ {c} : new[d] = t[d]
  BY <1>1 DEF Table
<1>4. new[c] \in Row /\ new[c].config = g /\ new[c].active = t[c].active
  BY <1>1, <1>3 DEF Row
<1> HIDE DEF new
<1>5. (\A d \in Saved(t) : new[d] \in Row)
  BY <1>2, <1>3, <1>4
<1>6. /\ \A d \in Saved(t) : new[d] \in Row
      /\ new[c].config = g /\ new[c].active = t[c].active
      /\ \A d \in Company \ {c} : new[d] = t[d]
  BY <1>3, <1>4, <1>5
<1>. QED  BY <1>6 DEF new

\* The table after a switch.
LEMMA SwitchedRows ==
    ASSUME NEW t, Started(t)
    PROVE  \A d \in Saved(t.company) :
              /\ Switched(t)[d] \in Row
              /\ Switched(t)[d].config = t.company[d].config
              /\ Switched(t)[d].active <=> d = t.req.about
<1> SUFFICES ASSUME NEW d \in Saved(t.company)
             PROVE  /\ Switched(t)[d] \in Row
                    /\ Switched(t)[d].config = t.company[d].config
                    /\ Switched(t)[d].active <=> d = t.req.about
  OBVIOUS
<1> DEFINE v == d = t.req.about
<1>1. t.company \in Table /\ d \in Company
  BY DEF Started, Task, Saved
<1>2. t.company[d] \in Row
  BY <1>1, RowOf
<1>3. Switched(t)[d] = [t.company[d] EXCEPT !.active = v]
  BY <1>1 DEF Switched
<1>4. v \in BOOLEAN
  OBVIOUS
<1> HIDE DEF v
<1>5. /\ Switched(t)[d] \in Row /\ Switched(t)[d].config = t.company[d].config
      /\ Switched(t)[d].active = v
  BY <1>2, <1>3, <1>4 DEF Row
<1>. QED  BY <1>5 DEF v

-----------------------------------------------------------------------------
(* The commits keep the types.                                             *)

LEMMA CommitType ==
    ASSUME TypeOK, NEW t, Started(t),
           \/ SaveSettings(t) \/ AutosaveSettings(t) \/ AddCompany(t)
           \/ UpdateCompany(t) \/ ActivateCompany(t) \/ DeleteCompany(t)
    PROVE  settings' \in Settings /\ company' \in Table
<1>1. /\ settings \in Settings /\ company \in Table
      /\ t.settings \in Settings /\ t.company \in Table
  BY DEF TypeOK, Started, Task
<1>2. \A g \in Config : ConfigOf(t, g) \in Config \cup {Blank}
  BY <1>1 DEF ConfigOf, Column, Settings
<1>3. ASSUME t.req.op \in {"save", "autosave"}, PersistSettingsAndActiveCompany(t)
      PROVE  settings' \in Settings /\ company' \in Table
  <2>1. t.req.config \in Config /\ t.req.enable \in BOOLEAN
    BY <1>3 DEF Started, Requests
  <2>2. settings' \in Settings
    <3> DEFINE v == IF t.req.op = "save"
                    THEN Column(t.req.enable, t.settings.enabled, settings.enabled)
                    ELSE settings.enabled
    <3>1. v \in BOOLEAN
      BY <1>1, <2>1 DEF Column, Settings
    <3>2. settings' = [config |-> ConfigOf(t, t.req.config), enabled |-> v]
      BY <1>3 DEF PersistSettingsAndActiveCompany
    <3>3. ConfigOf(t, t.req.config) \in Config \cup {Blank}
      BY <1>2, <2>1
    <3> HIDE DEF v
    <3>. QED  BY <3>1, <3>2, <3>3 DEF Settings
  <2>3. company' \in Table
    <3>1. CASE UNCHANGED company
      BY <1>1, <3>1
    <3>2. CASE \E c \in Active(t.company) :
                  CompaniesWritten(t, [t.company EXCEPT ![c].config = t.req.config])
      <4>1. PICK c \in Active(t.company) :
                   CompaniesWritten(t, [t.company EXCEPT ![c].config = t.req.config])
        BY <3>2
      <4>2. c \in Saved(t.company)
        BY DEF Active
      <4> DEFINE new == [t.company EXCEPT ![c].config = t.req.config]
      <4>3. \A d \in Saved(t.company) : new[d] \in Row
        BY <1>1, <2>1, <4>2, EditedRows
      <4>4. CompaniesWritten(t, new)
        BY <4>1
      <4> HIDE DEF new
      <4>. QED  BY <4>3, <4>4, WrittenType
    <3>. QED  BY <1>3, <3>1, <3>2 DEF PersistSettingsAndActiveCompany
  <2>. QED  BY <2>2, <2>3
<1>4. CASE AddCompany(t)
  <2> DEFINE c == t.req.about
             row == [config |-> t.req.config, active |-> Saved(t.company) = {}]
  <2>1. t.req.config \in Config /\ c \in Company
    BY <1>4 DEF Started, Requests, AddCompany
  <2>2. row \in Row
    BY <2>1 DEF Row
  <2>3. company' = [company EXCEPT ![c] = row]
    BY <1>4 DEF AddCompany
  <2>4. company' \in Table
    <3> HIDE DEF row
    <3>. QED  BY <1>1, <2>2, <2>3 DEF Table
  <2>5. settings' \in Settings
    BY <1>1, <1>2, <1>4, <2>1 DEF AddCompany, Settings
  <2>. QED  BY <2>4, <2>5
<1>5. CASE UpdateCompany(t)
  <2> DEFINE c == t.req.about
  <2>1. t.req.config \in Config /\ c \in Saved(t.company)
    BY <1>5 DEF Started, Requests, UpdateCompany, Allowed, Saved
  <2>2. company' \in Table
    BY <1>1, <1>5, <2>1, EditedRows, WrittenType DEF UpdateCompany
  <2>3. settings' \in Settings
    BY <1>1, <1>2, <1>5, <2>1 DEF UpdateCompany, Settings
  <2>. QED  BY <2>2, <2>3
<1>6. CASE ActivateCompany(t)
  <2> DEFINE c == t.req.about
  <2>1. c \in Saved(t.company)
    BY <1>6 DEF Started, Requests, ActivateCompany, Allowed, Saved
  <2>2. t.company[c].config \in Config
    <3>1. t.company[c] \in Row
      BY <1>1, <2>1, RowOf DEF Saved
    <3>. QED  BY <3>1 DEF Row
  <2>3. settings' \in Settings
    <3>1. Column(FALSE, t.settings.enabled, settings.enabled) \in BOOLEAN
      BY <1>1 DEF Column, Settings
    <3>. QED  BY <1>2, <1>6, <2>2, <3>1 DEF ActivateCompany, SwitchedSettings, Settings
  <2>4. company' \in Table
    <3>1. CompaniesWritten(t, Switched(t))
      BY <1>6 DEF ActivateCompany
    <3>2. \A d \in Saved(t.company) : Switched(t)[d] \in Row
      BY SwitchedRows
    <3>. QED  BY <3>1, <3>2, WrittenType
  <2>. QED  BY <2>3, <2>4
<1>7. CASE DeleteCompany(t)
  BY <1>1, <1>7 DEF DeleteCompany, Table
<1>. QED  BY <1>3, <1>4, <1>5, <1>6, <1>7 DEF SaveSettings, AutosaveSettings

-----------------------------------------------------------------------------
(* The commits on current rows.                                            *)

\* The form's configuration is written to the active company and the settings.
LEMMA PersistMatches ==
    ASSUME TypeOK, Matched, NEW t, Ready(t), t.req.op \in {"save", "autosave"},
           PersistSettingsAndActiveCompany(t)
    PROVE  Matching /\ Active(company)' = Active(company)
<1> DEFINE g == t.req.config
<1>1. g \in Config /\ t.company = company /\ company \in Table
  BY DEF Ready, Started, Current, Requests, TypeOK
<1>2. settings'.config = g
  BY DEF PersistSettingsAndActiveCompany, Ready, Current, ConfigOf, Column
<1>3. CASE Active(company) = {}
  <2>1. Saved(company) = {}
    BY <1>3 DEF Matched
  <2>2. UNCHANGED company
    BY <1>1, <1>3 DEF PersistSettingsAndActiveCompany
  <2>. QED  BY <2>1, <2>2 DEF Matching, Matched, Saved, Active
<1>4. ASSUME NEW c \in Active(company),
             CompaniesWritten(t, [company EXCEPT ![c].config = g])
      PROVE  Matching /\ Active(company)' = Active(company)
  <2> DEFINE new == [company EXCEPT ![c].config = g]
  <2>1. c \in Saved(company) /\ Active(company) = {c}
    BY DEF Active, Matched
  <2>2. /\ \A d \in Saved(company) : new[d] \in Row
        /\ new[c].config = g /\ new[c].active = company[c].active
        /\ \A d \in Company \ {c} : new[d] = company[d]
    BY <1>1, <2>1, EditedRows
  <2>3. CompaniesWritten(t, new)
    BY <1>4
  <2> HIDE DEF new
  <2>4. /\ \A d \in Saved(company) : company'[d] = new[d]
        /\ Saved(company)' = Saved(company)
    BY <2>2, <2>3, WrittenCurrent
  <2>5. \A d \in Saved(company) : company'[d].active = company[d].active
    BY <2>2, <2>4 DEF Saved
  <2>6. Active(company)' = Active(company)
    BY <2>4, <2>5 DEF Active
  <2>. QED  BY <1>2, <2>1, <2>2, <2>4, <2>6 DEF Matching, Matched
<1>. QED  BY <1>1, <1>3, <1>4 DEF PersistSettingsAndActiveCompany

LEMMA AddMatches ==
    ASSUME TypeOK, Matched, NEW t, Ready(t), AddCompany(t)
    PROVE  Matching /\ (Active(company) # {} => Active(company)' = Active(company))
<1> DEFINE g == t.req.config
           c == t.req.about
           first == Saved(company) = {}
<1>1. g \in Config /\ c \in Company /\ company[c] = NoCompany
  BY DEF Ready, Started, Current, Requests, AddCompany
<1>2. settings \in Settings /\ company \in Table
  BY DEF TypeOK
<1>3. /\ company' = [company EXCEPT ![c] = [config |-> g, active |-> first]]
      /\ settings' = IF first THEN [settings EXCEPT !.config = g] ELSE settings
  BY DEF AddCompany, Ready, Current, ConfigOf, Column
<1>4. [config |-> g, active |-> first] \in Row
  BY <1>1 DEF Row
<1>5. company' \in Table /\ settings' \in Settings
  BY <1>1, <1>2, <1>3, <1>4 DEF Table, Settings
<1>6. /\ company'[c] \in Row /\ company'[c].config = g /\ company'[c].active = first
      /\ \A d \in Company \ {c} : company'[d] = company[d]
  BY <1>1, <1>2, <1>3, <1>4 DEF Table
<1>7. Saved(company)' = Saved(company) \cup {c} /\ c \notin Saved(company)
  BY <1>1, <1>6, NoRowAssumption DEF Saved
<1>8. CASE first
  <2>1. Active(company) = {} /\ Active(company)' = {c}
    <3>1. Active(company) = {} /\ Saved(company)' = {c}
      BY <1>7, <1>8 DEF Active
    <3>2. company'[c].active
      BY <1>6, <1>8
    <3>. QED  BY <3>1, <3>2 DEF Active
  <2>2. settings'.config = g
    BY <1>2, <1>3, <1>8 DEF Settings
  <2>. QED  BY <1>5, <1>6, <1>7, <2>1, <2>2 DEF Matching, Matched
<1>9. CASE ~first
  <2>1. Active(company)' = Active(company) /\ settings' = settings
    <3>1. ~company'[c].active /\ settings' = settings
      BY <1>3, <1>6, <1>9
    <3>2. \A d \in Saved(company) : d \in Company \ {c} /\ company'[d] = company[d]
      BY <1>6, <1>7 DEF Saved
    <3>. QED  BY <1>7, <3>1, <3>2 DEF Active
  <2>2. PICK d \in Saved(company) : Active(company) = {d} /\ company[d].config = settings.config
    BY <1>9 DEF Matched
  <2>3. company'[d] = company[d]
    BY <1>6, <1>7, <2>2 DEF Saved
  <2>. QED  BY <1>5, <1>7, <2>1, <2>2, <2>3 DEF Matching, Matched
<1>. QED  BY <1>8, <1>9

LEMMA UpdateMatches ==
    ASSUME TypeOK, Matched, NEW t, Ready(t), UpdateCompany(t)
    PROVE  Matching /\ Active(company)' = Active(company)
<1> DEFINE g == t.req.config
           c == t.req.about
           new == [company EXCEPT ![c].config = g]
<1>1. g \in Config /\ t.company = company /\ company \in Table /\ c \in Saved(company)
  BY DEF Ready, Started, Current, Requests, Allowed, UpdateCompany, Saved, TypeOK
<1>2. /\ \A d \in Saved(company) : new[d] \in Row
      /\ new[c].config = g /\ new[c].active = company[c].active
      /\ \A d \in Company \ {c} : new[d] = company[d]
  BY <1>1, EditedRows
<1>3. CompaniesWritten(t, new)
  BY <1>1 DEF UpdateCompany
<1> HIDE DEF new
<1>4. /\ \A d \in Saved(company) : company'[d] = new[d]
      /\ Saved(company)' = Saved(company)
  BY <1>2, <1>3, WrittenCurrent
<1>5. \A d \in Saved(company) : company'[d].active = company[d].active
  BY <1>2, <1>4 DEF Saved
<1>6. Active(company)' = Active(company)
  BY <1>4, <1>5 DEF Active
<1>7. PICK d \in Saved(company) : Active(company) = {d} /\ company[d].config = settings.config
  BY <1>1 DEF Matched
<1>8. settings' = IF company[c].active THEN [settings EXCEPT !.config = g] ELSE settings
  BY <1>1 DEF UpdateCompany, Ready, Current, ConfigOf, Column
<1>9. company'[d].config = settings'.config
  <2>1. CASE d = c
    <3>1. company[c].active
      BY <1>7, <2>1 DEF Active
    <3>2. settings'.config = g
      BY <1>8, <3>1 DEF TypeOK, Settings
    <3>. QED  BY <1>2, <1>4, <2>1, <3>2
  <2>2. CASE d # c
    <3>1. ~company[c].active
      BY <1>1, <1>7, <2>2 DEF Active
    <3>2. company'[d] = company[d]
      BY <1>2, <1>4, <2>2 DEF Saved
    <3>. QED  BY <1>7, <1>8, <3>1, <3>2
  <2>. QED  BY <2>1, <2>2
<1>. QED  BY <1>4, <1>6, <1>7, <1>9 DEF Matching, Matched

\* The company that is switched to is the only active one, the settings are
\* its configuration, and posting is off, whatever was there before.
LEMMA ActivateMatches ==
    ASSUME TypeOK, NEW t, Ready(t), ActivateCompany(t)
    PROVE  Matching /\ ~settings'.enabled
<1> DEFINE c == t.req.about
<1>1. t.company = company /\ t.settings = settings /\ c \in Saved(company)
  BY DEF Ready, Started, Current, Requests, Allowed, ActivateCompany, Saved
<1>2. settings' = [config |-> company[c].config, enabled |-> FALSE]
  <2>1. settings.enabled \in BOOLEAN
    BY DEF TypeOK, Settings
  <2>. QED  BY <1>1, <2>1 DEF ActivateCompany, SwitchedSettings, ConfigOf, Column
<1>3. \A d \in Saved(company) :
         /\ Switched(t)[d] \in Row
         /\ Switched(t)[d].config = company[d].config
         /\ Switched(t)[d].active <=> d = c
  BY <1>1, SwitchedRows DEF Ready
<1>4. /\ \A d \in Saved(company) : company'[d] = Switched(t)[d]
      /\ Saved(company)' = Saved(company)
  BY <1>3, WrittenCurrent DEF ActivateCompany
<1>5. Active(company)' = {c}
  BY <1>1, <1>3, <1>4 DEF Active
<1>6. settings'.config = company'[c].config /\ ~settings'.enabled
  BY <1>1, <1>2, <1>3, <1>4
<1>. QED  BY <1>1, <1>4, <1>5, <1>6 DEF Matching, Matched

LEMMA DeleteMatches ==
    ASSUME TypeOK, Matched, NEW t, Ready(t), DeleteCompany(t)
    PROVE  Matching /\ Active(company)' = Active(company)
<1> DEFINE c == t.req.about
<1>1. c \in Company /\ company[c] # NoCompany /\ ~company[c].active
  BY DEF Ready, Started, Current, Requests, DeleteCompany, Allowed
<1>2. settings \in Settings /\ company \in Table
  BY DEF TypeOK
<1>3. company' = [company EXCEPT ![c] = NoCompany] /\ settings' = settings
  BY DEF DeleteCompany
<1>4. company' \in Table /\ settings' \in Settings
  BY <1>1, <1>2, <1>3 DEF Table
<1>5. company'[c] = NoCompany /\ \A d \in Company \ {c} : company'[d] = company[d]
  BY <1>1, <1>2, <1>3 DEF Table
<1>6. Saved(company)' = Saved(company) \ {c} /\ Active(company)' = Active(company)
  BY <1>1, <1>5 DEF Saved, Active
<1>7. PICK d \in Saved(company) : Active(company) = {d} /\ company[d].config = settings.config
  BY <1>1 DEF Matched, Saved
<1>8. d # c /\ company'[d] = company[d]
  BY <1>1, <1>5, <1>7 DEF Active, Saved
<1>. QED  BY <1>3, <1>4, <1>6, <1>7, <1>8 DEF Matching, Matched

LEMMA SettingsCommit ==
    ASSUME SettingsInv, NEW a \in Admin, Commit(a)
    PROVE  SettingsInv' /\ (Active(company) # {} /\ Active(company)' # Active(company)
                               => ~settings'.enabled \/ raced')
<1> DEFINE t == task[a]
<1>0. TypeOK
  BY DEF SettingsInv
<1>1. Started(t)
  BY DEF Commit, SettingsInv, TypeOK, AllowedByRead, Started
<1>2. /\ UNCHANGED <<confirmed, products>> /\ task' = [task EXCEPT ![a] = NoTask]
      /\ Remember(t)
  BY DEF Commit
<1> HIDE DEF t
<1>3. \/ SaveSettings(t) \/ AutosaveSettings(t) \/ AddCompany(t)
      \/ UpdateCompany(t) \/ ActivateCompany(t) \/ DeleteCompany(t)
  BY DEF Commit, t
<1>4. TypeOK'
  <2>1. settings' \in Settings /\ company' \in Table
    BY <1>0, <1>1, <1>3, CommitType
  <2>2. raced' \in BOOLEAN
    BY <1>0, <1>2, Zenon DEF Remember, TypeOK
  <2>. QED  BY <1>0, <1>2, <2>1, <2>2 DEF TypeOK
<1>5. AllowedByRead'
  <2>1. ASSUME NEW b \in Admin, task'[b] # NoTask
        PROVE  task'[b].req \in Requests /\ Allowed(task'[b].req, task'[b].company)
    <3>1. task'[b] = task[b]
      BY <1>0, <1>2, <2>1 DEF TypeOK
    <3>. QED  BY <2>1, <3>1 DEF SettingsInv, AllowedByRead
  <2>. QED  BY <2>1 DEF AllowedByRead, Allowed, Saved
<1>6. (~raced' => Matched') /\ (Active(company) # {} /\ Active(company)' # Active(company)
                                  => ~settings'.enabled \/ raced')
  <2>1. CASE ~Current(t)
    BY <1>2, <2>1 DEF Remember
  <2>2. CASE Current(t) /\ ActivateCompany(t)
    BY <1>0, <1>1, <2>2, ActivateMatches DEF Ready, Matching
  <2>3. CASE Current(t) /\ ~ActivateCompany(t)
    <3>1. Ready(t)
      BY <1>1, <2>3 DEF Ready
    <3>2. t.req.op # "activate"
      BY <1>3, <2>3 DEF SaveSettings, AutosaveSettings, AddCompany, UpdateCompany, DeleteCompany
    <3>3. raced' = raced
      <4>1. raced \in BOOLEAN
        BY <1>0 DEF TypeOK
      <4>. QED  BY <1>2, <2>3, <3>2, <4>1 DEF Remember
    <3>4. CASE raced
      BY <3>3, <3>4
    <3>5. CASE ~raced
      <4>1. Matched
        BY <3>5, MatchedIf DEF SettingsInv
      <4>2. CASE SaveSettings(t)
        BY <1>0, <3>1, <4>1, <4>2, PersistMatches DEF SaveSettings, Matching
      <4>3. CASE AutosaveSettings(t)
        BY <1>0, <3>1, <4>1, <4>3, PersistMatches DEF AutosaveSettings, Matching
      <4>4. CASE AddCompany(t)
        BY <1>0, <3>1, <4>1, <4>4, AddMatches DEF Matching
      <4>5. CASE UpdateCompany(t)
        BY <1>0, <3>1, <4>1, <4>5, UpdateMatches DEF Matching
      <4>6. CASE DeleteCompany(t)
        BY <1>0, <3>1, <4>1, <4>6, DeleteMatches DEF Matching
      <4>. QED  BY <1>3, <2>3, <4>2, <4>3, <4>4, <4>5, <4>6
    <3>. QED  BY <3>4, <3>5
  <2>. QED  BY <2>1, <2>2, <2>3
<1>. QED  BY <1>4, <1>5, <1>6, MatchedIfNext DEF SettingsInv

LEMMA SettingsRestart ==
    ASSUME SettingsInv, Restart
    PROVE  SettingsInv' /\ (Active(company) # {} => Active(company)' = Active(company))
<1>1. UNCHANGED <<settings, confirmed, products, raced>> /\ task' = [b \in Admin |-> NoTask]
  BY DEF Restart
<1>2. settings \in Settings /\ company \in Table
  BY DEF SettingsInv, TypeOK
<1>3. AllowedByRead'
  BY <1>1 DEF AllowedByRead
<1>4. CASE ActivateFirst
  <2>1. PICK c \in Saved(company) : company' = [company EXCEPT ![c].active = TRUE]
    BY <1>4 DEF ActivateFirst
  <2>2. c \in Company /\ company[c] \in Row
    BY <1>2, RowOf DEF Saved
  <2>3. [company[c] EXCEPT !.active = TRUE] \in Row
    BY <2>2 DEF Row
  <2>4. company' \in Table
    BY <1>2, <2>1, <2>2, <2>3 DEF Table
  <2>5. raced /\ Active(company) = {}
    BY <1>4 DEF ActivateFirst, SettingsInv, SettingsMatchActive
  <2>6. SettingsMatchActive'
    BY <1>1, <2>5 DEF SettingsMatchActive
  <2>. QED  BY <1>1, <1>3, <2>4, <2>5, <2>6 DEF SettingsInv, TypeOK
<1>5. CASE CompanyFromSettings
  <2>1. PICK c \in Company :
           company' = [company EXCEPT ![c] = [config |-> settings.config, active |-> TRUE]]
    BY <1>5 DEF CompanyFromSettings
  <2>2. Saved(company) = {} /\ settings.config \in Config
    BY <1>2, <1>5 DEF CompanyFromSettings, Settings
  <2>3. [config |-> settings.config, active |-> TRUE] \in Row
    BY <2>2 DEF Row
  <2>4. company' \in Table
    BY <1>2, <2>1, <2>3 DEF Table
  <2>5. /\ company'[c] \in Row /\ company'[c].config = settings.config /\ company'[c].active
        /\ \A d \in Company \ {c} : company'[d] = NoCompany
    BY <1>2, <2>1, <2>2, <2>3 DEF Table, Saved
  <2>6. Saved(company)' = {c} /\ Active(company)' = {c}
    <3>1. Saved(company)' = {c}
      BY <2>5, NoRowAssumption DEF Saved
    <3>. QED  BY <2>5, <3>1 DEF Active
  <2>7. SettingsMatchActive'
    BY <1>1, <2>5, <2>6 DEF SettingsMatchActive
  <2>8. Active(company) = {}
    BY <2>2 DEF Active
  <2>. QED  BY <1>1, <1>3, <2>4, <2>7, <2>8 DEF SettingsInv, TypeOK
<1>6. CASE NothingToEnsure
  <2>1. /\ TypeOK' /\ UNCHANGED <<tables, raced>>
        /\ \A b \in Admin : task'[b] = NoTask
    BY <1>1, <1>6 DEF NothingToEnsure, SettingsInv, TypeOK, tables
  <2>2. SettingsInv'
    BY <2>1, TablesKept
  <2>. QED  BY <2>1, <2>2 DEF tables, Active, Saved
<1>. QED  BY <1>4, <1>5, <1>6 DEF Restart

LEMMA SettingsNext ==
    ASSUME SettingsInv, [Next]_vars
    PROVE  SettingsInv' /\ (Active(company) # {} /\ Active(company)' # Active(company)
                               => ~settings'.enabled \/ raced')
<1>1. CASE \/ UNCHANGED vars
           \/ \E m \in Master : ConfirmMaster(m) \/ RemoveConfirmation(m)
           \/ \E ms \in Catalog : ProductsChange(ms)
           \/ \E a \in Admin : Rollback(a)
  <2>1. /\ UNCHANGED <<tables, raced>>
        /\ \A b \in Admin : task'[b] # NoTask => task'[b] = task[b]
    BY <1>1 DEF vars, tables, ConfirmMaster, RemoveConfirmation, ProductsChange, Rollback,
                SettingsInv, TypeOK
  <2>2. TypeOK'
    <3>1. CASE \E ms \in Catalog : ProductsChange(ms)
      BY <3>1, SettingsConstants DEF ProductsChange, tables, SettingsInv, TypeOK
    <3>2. CASE ~\E ms \in Catalog : ProductsChange(ms)
      BY <1>1, <3>2 DEF vars, tables, ConfirmMaster, RemoveConfirmation, Rollback,
                        SettingsInv, TypeOK
    <3>. QED  BY <3>1, <3>2
  <2>3. SettingsInv'
    BY <2>1, <2>2, TablesKept
  <2>. QED  BY <2>1, <2>3 DEF tables, Active, Saved
<1>2. ASSUME NEW a \in Admin, NEW r \in Requests, Begin(a, r)
      PROVE  SettingsInv' /\ Active(company)' = Active(company)
  BY <1>2, SettingsBegin DEF Begin, tables, Active, Saved
<1>. QED  BY <1>1, <1>2, SettingsCommit, SettingsRestart DEF Next

\* Type correctness, however requests of the settings pages overlap with each
\* other and with startup.
THEOREM TypeCorrect == Spec => []TypeOK
<1>1. SettingsInv /\ [Next]_vars => SettingsInv'
  BY SettingsNext
<1>2. SettingsInv => TypeOK
  BY DEF SettingsInv
<1>. QED  BY <1>1, <1>2, SettingsInit, PTL DEF Spec

\* The settings are the configuration of the one active company
\* (save_settings, autosave, add_company, update_company, activate_company,
\* delete_company and ensure_company_records), unless a request committed on
\* rows that had changed since it read them and no switch has followed.
THEOREM SettingsMatchActiveHolds == Spec => []SettingsMatchActive
<1>1. SettingsInv /\ [Next]_vars => SettingsInv'
  BY SettingsNext
<1>2. SettingsInv => SettingsMatchActive
  BY DEF SettingsInv
<1>. QED  BY <1>1, <1>2, SettingsInit, PTL DEF Spec

\* No step makes another company active and leaves posting on
\* (activate_company turns tally_enabled off), unless it commits on rows that
\* have changed since it read them.
THEOREM SwitchStopsPostingHolds == Spec => SwitchStopsPosting
<1>1. SettingsInv /\ [Next]_vars => SettingsInv'
  BY SettingsNext
<1>2. SettingsInv /\ [Next]_vars =>
         [Active(company) # {} /\ Active(company)' # Active(company)
            => ~settings'.enabled \/ raced']_vars
  BY SettingsNext
<1>. QED  BY <1>1, <1>2, SettingsInit, PTL DEF Spec, SwitchStopsPosting
=============================================================================
