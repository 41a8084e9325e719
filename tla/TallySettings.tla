--------------------------- MODULE TallySettings ----------------------------
(***************************************************************************)
(* The Tally settings, the saved companies and the check of masters before *)
(* posting is turned on (settings.py, tally_masters.py and their routers). *)
(*                                                                         *)
(* The settings table says where vouchers are posted; the active company's *)
(* row says where products are read.  They are two copies of one           *)
(* configuration, kept in step by every operation below.                   *)
(*                                                                         *)
(* A request reads its rows in one step and commits in another; SQLAlchemy *)
(* writes the columns that differ from what it read.  A request that is    *)
(* refused, or finds a row that it has to write gone when it commits,      *)
(* changes nothing.  Requests of several administrators, or an autosave    *)
(* and another page, overlap.                                              *)
(*                                                                         *)
(* Abstractions.  A configuration (company name, gateway, voucher types,   *)
(* ledgers) is one value with the masters it needs.  Labels of companies   *)
(* are the companies.  Fields the form leaves out keep their values, so a  *)
(* form is a configuration.  Placeholders of old installations are left    *)
(* out.                                                                    *)
(***************************************************************************)
EXTENDS Naturals, FiniteSets

CONSTANTS
    Company,     \* companies that can be saved
    NoCompany,   \* no company, or a company that is not saved
    Config,      \* configurations that pass validate_settings
    Blank,       \* the default configuration, which does not
    Master,      \* Tally masters: company, ledgers, stock items, units, HSN
    NoMaster,    \* a master whose name is left blank: nobody can confirm it
    Needs,       \* masters a configuration names
    Catalog,     \* sets of masters that the active products can name
    Admin,       \* console threads
    NoTask       \* the thread has no request

ASSUME SettingsConstants ==
    /\ NoCompany \notin Company
    /\ Blank \notin Config
    /\ NoMaster \notin Master
    /\ Needs \in [Config -> SUBSET (Master \cup {NoMaster})]
    /\ Catalog \subseteq SUBSET (Master \cup {NoMaster})

VARIABLES
    settings,   \* the settings table: configuration and tally_enabled
    company,    \* saved companies: configuration and is_active
    confirmed,  \* tally_master_confirmations
    products,   \* masters that active products name
    task,       \* per thread: the request with the rows it has read
    raced       \* history: a request committed on rows changed since it read them

tables == <<settings, company>>
vars   == <<settings, company, confirmed, products, task, raced>>

Row      == [config : Config, active : BOOLEAN]
Settings == [config : Config \cup {Blank}, enabled : BOOLEAN]
Table    == [Company -> Row \cup {NoCompany}]
Request  == [op : {"save", "autosave", "add", "update", "activate", "delete"},
             about : Company \cup {NoCompany}, config : Config \cup {Blank}, enable : BOOLEAN]
Task     == [req : Request, settings : Settings, company : Table]

ASSUME NoRowAssumption == NoCompany \notin Row /\ NoTask \notin Task

Saved(t)  == {c \in Company : t[c] # NoCompany}
Active(t) == {c \in Saved(t) : t[c].active}

Init ==
    /\ settings = [config |-> Blank, enabled |-> FALSE]
    /\ company = [c \in Company |-> NoCompany]
    /\ confirmed = {}
    /\ products = {}
    /\ task = [a \in Admin |-> NoTask]
    /\ raced = FALSE

-----------------------------------------------------------------------------
(* Readiness.                                                              *)

ConfirmMaster(m) ==
    /\ confirmed' = confirmed \cup {m}
    /\ UNCHANGED <<tables, products, task, raced>>

RemoveConfirmation(m) ==
    /\ confirmed' = confirmed \ {m}
    /\ UNCHANGED <<tables, products, task, raced>>

\* Products are imported, renamed or disabled; a stock item, unit or HSN code
\* may be blank.
ProductsChange(ms) ==
    /\ products' = ms
    /\ UNCHANGED <<tables, confirmed, task, raced>>

\* live_sync_readiness under a configuration: every master is named and
\* confirmed.
LiveSyncReadiness(config) == Needs[config] \cup products \subseteq confirmed

-----------------------------------------------------------------------------
(* Requests: what they read decides whether they go on.                    *)

\* A request goes on if the table of companies it has read allows it.
Allowed(r, t) ==
    CASE r.op \in {"save", "autosave"} -> TRUE
      [] r.op = "add"      -> t[r.about] = NoCompany
      [] r.op \in {"update", "activate"} -> t[r.about] # NoCompany
      [] r.op = "delete"   -> /\ t[r.about] # NoCompany
                              /\ Cardinality(Saved(t)) > 1
                              /\ ~t[r.about].active

\* Threads are interchangeable: the first free one is taken.
Begin(a, r) ==
    /\ task[a] = NoTask
    /\ a = CHOOSE b \in Admin : task[b] = NoTask
    /\ Allowed(r, company)
    /\ task' = [task EXCEPT ![a] = [req |-> r, settings |-> settings, company |-> company]]
    /\ UNCHANGED <<tables, confirmed, products, raced>>

\* A column is written if its new value differs from the one that was read.
Column(new, read, now) == IF new # read THEN new ELSE now

ConfigOf(t, new) == Column(new, t.settings.config, settings.config)

\* The companies after a request that gives the rows it has read the values
\* `new`.  A row that it has to write must still be there.
CompaniesWritten(t, new) ==
    /\ \A c \in Saved(t.company) : new[c] # t.company[c] => company[c] # NoCompany
    /\ company' = [c \in Company |->
          IF c \in Saved(t.company) /\ company[c] # NoCompany
          THEN [config |-> Column(new[c].config, t.company[c].config, company[c].config),
                active |-> Column(new[c].active, t.company[c].active, company[c].active)]
          ELSE company[c]]

\* Each commit: what becomes of the two tables.
\* persist_settings_and_active_company with the form's values; of several
\* active companies get_active_company takes one.
PersistSettingsAndActiveCompany(t) ==
    /\ \/ Active(t.company) = {} /\ UNCHANGED company
       \/ \E c \in Active(t.company) :
             CompaniesWritten(t, [t.company EXCEPT ![c].config = t.req.config])
    /\ settings' = [config  |-> ConfigOf(t, t.req.config),
                    enabled |-> IF t.req.op = "save"
                                THEN Column(t.req.enable, t.settings.enabled, settings.enabled)
                                ELSE settings.enabled]

SaveSettings(t) ==
    /\ t.req.op = "save"
    /\ t.req.enable => LiveSyncReadiness(t.req.config)
    /\ PersistSettingsAndActiveCompany(t)

AutosaveSettings(t) ==
    /\ t.req.op = "autosave"
    /\ PersistSettingsAndActiveCompany(t)

\* The first company becomes active and brings its settings.
AddCompany(t) ==
    LET first == Saved(t.company) = {} IN
    /\ t.req.op = "add"
    /\ company[t.req.about] = NoCompany
    /\ company' = [company EXCEPT ![t.req.about] = [config |-> t.req.config, active |-> first]]
    /\ settings' = IF first THEN [settings EXCEPT !.config = ConfigOf(t, t.req.config)]
                   ELSE settings

\* Mutant of UpdateCompany: the settings of the active company are forgotten.
UpdateCompanyOnly(t) ==
    /\ t.req.op = "update"
    /\ CompaniesWritten(t, [t.company EXCEPT ![t.req.about].config = t.req.config])
    /\ UNCHANGED settings

UpdateCompany(t) ==
    LET c == t.req.about IN
    /\ t.req.op = "update"
    /\ CompaniesWritten(t, [t.company EXCEPT ![c].config = t.req.config])
    /\ settings' = IF t.company[c].active
                   THEN [settings EXCEPT !.config = ConfigOf(t, t.req.config)]
                   ELSE settings

\* is_active of every company after the switch.
Switched(t) ==
    [c \in Company |-> IF c \in Saved(t.company)
                       THEN [t.company[c] EXCEPT !.active = (c = t.req.about)]
                       ELSE NoCompany]

\* Mutant of SwitchedSettings: posting goes on.
SwitchedSettingsOnly(t) ==
    [settings EXCEPT !.config = ConfigOf(t, t.company[t.req.about].config)]

\* The settings after the switch: the company's, and posting is off.
SwitchedSettings(t) ==
    [config  |-> ConfigOf(t, t.company[t.req.about].config),
     enabled |-> Column(FALSE, t.settings.enabled, settings.enabled)]

ActivateCompany(t) ==
    /\ t.req.op = "activate"
    /\ CompaniesWritten(t, Switched(t))
    /\ settings' = SwitchedSettings(t)

DeleteCompany(t) ==
    /\ t.req.op = "delete"
    /\ company' = [company EXCEPT ![t.req.about] = NoCompany]
    /\ UNCHANGED settings

\* The request has read both tables as they still are.
Current(t) == t.settings = settings /\ t.company = company

\* A switch on current rows writes everything anew.
Remember(t) ==
    raced' = IF Current(t) THEN raced /\ t.req.op # "activate" ELSE TRUE

Commit(a) ==
    /\ task[a] # NoTask
    /\ \/ SaveSettings(task[a])
       \/ AutosaveSettings(task[a])
       \/ AddCompany(task[a])
       \/ UpdateCompany(task[a])
       \/ ActivateCompany(task[a])
       \/ DeleteCompany(task[a])
    /\ Remember(task[a])
    /\ task' = [task EXCEPT ![a] = NoTask]
    /\ UNCHANGED <<confirmed, products>>

\* The masters are not ready, a row is gone or the commit raises: rollback.
Rollback(a) ==
    /\ task[a] # NoTask
    /\ task' = [task EXCEPT ![a] = NoTask]
    /\ UNCHANGED <<tables, confirmed, products, raced>>

-----------------------------------------------------------------------------
(* Startup: ensure_company_records.                                        *)

\* Nothing is active: the first company is made active.
ActivateFirst ==
    /\ Saved(company) # {}
    /\ Active(company) = {}
    /\ \E c \in Saved(company) : company' = [company EXCEPT ![c].active = TRUE]

\* Mutant of CompanyFromSettings: also from the defaults.
CompanyFromDefaults ==
    /\ Saved(company) = {}
    /\ \E c \in Company :
          company' = [company EXCEPT ![c] = [config |-> settings.config, active |-> TRUE]]

\* Settings without a company: they become one.
CompanyFromSettings ==
    /\ Saved(company) = {}
    /\ settings.config # Blank
    /\ \E c \in Company :
          company' = [company EXCEPT ![c] = [config |-> settings.config, active |-> TRUE]]

NothingToEnsure ==
    /\ Active(company) # {} \/ (Saved(company) = {} /\ settings.config = Blank)
    /\ UNCHANGED company

Restart ==
    /\ ActivateFirst \/ CompanyFromSettings \/ NothingToEnsure
    /\ task' = [a \in Admin |-> NoTask]
    /\ UNCHANGED <<settings, confirmed, products, raced>>

-----------------------------------------------------------------------------
Requests ==
    LET R(ops, abouts, configs, enables) ==
            [op : ops, about : abouts, config : configs, enable : enables] IN
    R({"save"}, {NoCompany}, Config, BOOLEAN)
        \cup R({"autosave"}, {NoCompany}, Config, {FALSE})
        \cup R({"add", "update"}, Company, Config, {FALSE})
        \cup R({"activate", "delete"}, Company, {Blank}, {FALSE})

Next ==
    \/ \E m \in Master : ConfirmMaster(m) \/ RemoveConfirmation(m)
    \/ \E ms \in Catalog : ProductsChange(ms)
    \/ \E a \in Admin, r \in Requests : Begin(a, r)
    \/ \E a \in Admin : Commit(a) \/ Rollback(a)
    \/ Restart

Spec == Init /\ [][Next]_vars

-----------------------------------------------------------------------------
(* Properties.                                                             *)

\* Both copies of the configuration and every request have their types; a
\* saved company never has the blank default configuration.
TypeOK ==
    /\ settings \in Settings
    /\ company \in Table
    /\ confirmed \subseteq Master
    /\ products \subseteq Master \cup {NoMaster}
    /\ task \in [Admin -> Task \cup {NoTask}]
    /\ raced \in BOOLEAN

\* Vouchers are posted where products are read: as soon as companies are
\* saved exactly one of them is active, and the settings are its
\* configuration, whichever page edited, switched or deleted companies.
\* Requests may overlap as long as none commits on rows that another one
\* has changed; after one that did, the next switch on current rows
\* restores it.
SettingsMatchActive ==
    ~raced /\ Saved(company) # {} =>
        \E c \in Saved(company) : Active(company) = {c} /\ company[c].config = settings.config

\* Switching companies stops posting: it goes on only after a new check.
\* A switch on rows that have changed since it read them may leave it on.
SwitchStopsPosting ==
    [][Active(company) # {} /\ Active(company)' # Active(company)
          => ~settings'.enabled \/ raced']_vars

-----------------------------------------------------------------------------
(* The inductive invariant of the proofs in TallySettingsProofs.           *)

\* What a request has read lets it go on.
AllowedByRead == \A a \in Admin :
    task[a] # NoTask => task[a].req \in Requests /\ Allowed(task[a].req, task[a].company)

SettingsInv == TypeOK /\ SettingsMatchActive /\ AllowedByRead
=============================================================================
