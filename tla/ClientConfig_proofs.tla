------------------------ MODULE ClientConfig_proofs ------------------------
(***************************************************************************)
(* Theorems about ClientConfig, for any number of open pages and edits,    *)
(* and whatever can be typed.                                              *)
(***************************************************************************)
EXTENDS ClientConfig, TLAPS

(***************************************************************************)
(* Type correctness.                                                       *)
(***************************************************************************)

\* The configuration, or the part of it a page submits.
Copy == UNION {[K -> Value] : K \in SUBSET Keys}
\* Requests that have not been answered, and all.
Active == {"sent", "read", "written"}
Pending == [at : Active, body : Copy, config : Config]
Put == Pending \cup {Done}
Form == [page : Pages, config : Copy]

\* What TypeOK leaves out: what the pages show and the requests carry, when a
\* handler works on the loaded configuration, and that messages need a link.
TypeInv ==
    /\ TypeOK
    /\ form \in [Tabs -> {NoForm} \cup Form]
    /\ \A t \in Tabs : form[t] # NoForm => DOMAIN form[t].config = Fields(form[t].page)
    /\ put \in Seq(Put)
    /\ Len(put) = Len(typed)
    /\ handler.at \in {"detect", "write", "send"} => loaded
    /\ handler.at \in {"load", "alarm"} => ~loaded
    /\ channel # <<>> => link

\* An answered request is one, and its configuration the default.
LEMMA DoneIs == Done.at = "done" /\ Done.config = Default /\ Default \in Config
BY ConstantsOK DEF Done, Default, Config, Value, Elsewhere

\* A request that is not answered has a body and a configuration.
LEMMA PutIs ==
    ASSUME put \in Seq(Put), NEW n \in DOMAIN put
    PROVE  /\ n \in 1..Len(put)
           /\ put[n] \in Put
           /\ put[n].at # "done" => put[n] \in Pending
BY DEF Put, Done

\* A part of the configuration is a function on some of the keys.
LEMMA CopyIs ==
    ASSUME NEW c \in Copy
    PROVE  /\ DOMAIN c \subseteq Keys
           /\ c \in [DOMAIN c -> Value]
           /\ \A k \in DOMAIN c : c[k] \in Value
BY DEF Copy

\* And such a function is a part of the configuration.
LEMMA CopyMade ==
    ASSUME NEW K, K \subseteq Keys, NEW c \in [K -> Value]
    PROVE  c \in Copy
BY DEF Copy

\* A page submits keys of the configuration.
LEMMA FieldsAreKeys ==
    ASSUME NEW page \in Pages
    PROVE  Fields(page) \subseteq Keys
BY DEF Pages, Fields, Keys, Shared

\* A page that is open shows a part of the configuration.
LEMMA FormIs ==
    ASSUME form \in [Tabs -> {NoForm} \cup Form], NEW t \in Tabs, form[t] # NoForm
    PROVE  form[t] \in Form
OBVIOUS

\* Edits, the default and what is detected are numbers.
LEMMA Numbers ==
    Detected \in Nat /\ Value \subseteq Nat /\ 0 \in Value /\ Detected \in Value /\ Elsewhere \in Value
BY ConstantsOK DEF Detected, Elsewhere, Value

\* A body merged into the row is a configuration.
LEMMA MergedIs ==
    ASSUME NEW n, put[n].body \in Copy, row \in Config
    PROVE  Merged(n) \in Config
BY CopyIs DEF Config, Merged, Spread

\* What a page shows of the row.
LEMMA RestrictedIs ==
    ASSUME NEW K, K \subseteq Keys, row \in Config
    PROVE  /\ Restricted(row, K) \in [K -> Value]
           /\ \A k \in K : Restricted(row, K)[k] = row[k]
BY DEF Restricted, Config

\* And of the row of the first client.
LEMMA ShowsIs ==
    ASSUME NEW page \in Pages, row \in Config, NEW c \in Shows(page)
    PROVE  /\ c \in [Fields(page) -> Value]
           /\ \A k \in Fields(page) : c[k] \in {row[k], Elsewhere}
<1>1. CASE page = "alerts"
  BY <1>1 DEF Shows, Fields
<1>2. CASE page # "alerts"
  BY <1>2, FieldsAreKeys, RestrictedIs DEF Shows
<1> QED
  BY <1>1, <1>2

\* The types of the pages alone.
FormsTyped ==
    /\ form \in [Tabs -> {NoForm} \cup Form]
    /\ \A t \in Tabs : form[t] # NoForm =>
         /\ DOMAIN form[t].config = Fields(form[t].page)
         /\ form[t].page \in Pages /\ form[t].config \in [Fields(form[t].page) -> Value]

\* A page opened on the row, or started again, is well typed.
LEMMA FormsSet ==
    ASSUME FormsTyped, NEW t \in Tabs, NEW page \in Pages, NEW c \in [Fields(page) -> Value],
           form' = [form EXCEPT ![t] = [page |-> page, config |-> c]]
    PROVE  FormsTyped'
<1>1. c \in [Fields(page) -> Value] /\ c \in Copy
  BY FieldsAreKeys, CopyMade
<1> DEFINE f == [page |-> page, config |-> c]
<1>2. f \in Form /\ f.page = page /\ f.config = c
  BY <1>1 DEF Form
<1>3. DOMAIN c = Fields(page)
  BY <1>1
<1>4. form' = [form EXCEPT ![t] = f]
  OBVIOUS
<1> HIDE DEF f
<1>5. form' \in [Tabs -> {NoForm} \cup Form]
  BY <1>2, <1>4 DEF FormsTyped
<1>6. ASSUME NEW s \in Tabs, form'[s] # NoForm
      PROVE  /\ DOMAIN form'[s].config = Fields(form'[s].page)
             /\ form'[s].page \in Pages /\ form'[s].config \in [Fields(form'[s].page) -> Value]
  <2>1. CASE s = t
    BY <1>1, <1>2, <1>3, <1>4, <2>1 DEF FormsTyped
  <2>2. CASE s # t
    BY <1>4, <1>6, <2>2 DEF FormsTyped
  <2> QED BY <2>1, <2>2
<1> QED
  BY <1>5, <1>6 DEF FormsTyped

\* The types of the pages, as FormsTyped states them.
LEMMA TypeForms == TypeInv <=> TypeInv /\ FormsTyped
BY DEF TypeInv, TypeOK, FormsTyped, NoForm

\* Opening a page keeps the types.
LEMMA OpenTypes == ASSUME TypeInv, NEW t \in Tabs, NEW page \in Pages, Open(t, page) PROVE TypeInv'
<1>1. PICK c \in Shows(page) : form' = [form EXCEPT ![t] = [page |-> page, config |-> c]]
  BY DEF Open
<1>2. c \in [Fields(page) -> Value]
  BY ShowsIs DEF TypeInv, TypeOK
<1>3. FormsTyped'
  BY <1>1, <1>2, FormsSet, TypeForms
<1> QED
  BY <1>3 DEF TypeInv, TypeOK, Open, copies, handlers, history, FormsTyped

\* So does the editor starting again.
LEMMA EditorRemountsTypes == ASSUME TypeInv, NEW t \in Tabs, EditorRemounts(t) PROVE TypeInv'
<1>1. form[t] \in Form
  BY DEF TypeInv, EditorRemounts, NoForm
<1>2. form' = [form EXCEPT ![t] = [page |-> "editor", config |-> Restricted(row, Fields("editor"))]]
  <2>1. [form[t] EXCEPT !.config = Restricted(row, Fields("editor"))]
           = [page |-> "editor", config |-> Restricted(row, Fields("editor"))]
    BY <1>1 DEF Form, EditorRemounts
  <2> QED
    BY <2>1 DEF EditorRemounts, TypeInv
<1>3. FormsTyped'
  <2>1. "editor" \in Pages /\ Restricted(row, Fields("editor")) \in [Fields("editor") -> Value]
    BY FieldsAreKeys, RestrictedIs DEF Pages, TypeInv, TypeOK
  <2> QED
    BY <1>2, <2>1, FormsSet, TypeForms
<1> QED
  BY <1>3 DEF TypeInv, TypeOK, EditorRemounts, copies, handlers, history, FormsTyped

\* The fields of a request.
LEMMA PutTyped ==
    ASSUME NEW r \in Put
    PROVE  r.at \in {"sent", "read", "written", "done"} /\ r.config \in Config
BY DoneIs DEF Put, Pending, Active

\* Changing a request keeps the types of the requests.
LEMMA PutsSet ==
    ASSUME put \in Seq(Put), NEW n \in DOMAIN put, NEW r \in Put, put' = [put EXCEPT ![n] = r]
    PROVE  /\ put' \in Seq(Put) /\ Len(put') = Len(put) /\ DOMAIN put' = DOMAIN put
           /\ \A m \in DOMAIN put' : /\ put'[m].at \in {"sent", "read", "written", "done"}
                                     /\ put'[m].config \in Config
<1>1. put' \in Seq(Put) /\ Len(put') = Len(put) /\ DOMAIN put' = DOMAIN put
  OBVIOUS
<1>2. \A m \in DOMAIN put' : put'[m] \in Put
  BY <1>1
<1> QED
  BY <1>1, <1>2, PutTyped

\* So does a new request.
LEMMA PutsAppended ==
    ASSUME put \in Seq(Put), NEW r \in Put, put' = Append(put, r)
    PROVE  /\ put' \in Seq(Put) /\ Len(put') = Len(put) + 1
           /\ \A m \in DOMAIN put' : /\ put'[m].at \in {"sent", "read", "written", "done"}
                                     /\ put'[m].config \in Config
<1>1. put' \in Seq(Put) /\ Len(put') = Len(put) + 1
  OBVIOUS
<1>2. \A m \in DOMAIN put' : put'[m] \in Put
  BY <1>1
<1> QED
  BY <1>1, <1>2, PutTyped

\* An edit keeps the types, and its number is a value nobody has detected.
LEMMA RequestTypes ==
    ASSUME TypeInv, NEW r \in Put, NEW k \in Keys, NEW what \in Kinds, Request(r, k, what)
    PROVE  /\ put' \in Seq(Put) /\ Len(put') = Len(typed') /\ Len(typed') = Len(typed) + 1
           /\ \A m \in DOMAIN put' : /\ put'[m].at \in {"sent", "read", "written", "done"}
                                     /\ put'[m].config \in Config
           /\ typed' \in Seq(Kinds) /\ Len(typed') <= MaxEdits
           /\ Len(typed) + 1 \in Value /\ Len(typed) + 1 # Detected
           /\ wanted' \in Config /\ wanted' = [wanted EXCEPT ![k] = Len(typed) + 1]
<1>1. Len(typed) \in Nat /\ Len(typed) < MaxEdits
  BY DEF Request, TypeInv, TypeOK
<1>2. Len(typed) + 1 \in Value /\ Len(typed) + 1 # Detected
  BY <1>1, ConstantsOK DEF Value, Detected, Elsewhere
<1>3. typed' \in Seq(Kinds) /\ Len(typed') = Len(typed) + 1 /\ Len(typed') <= MaxEdits
  BY <1>1, ConstantsOK DEF Request, TypeInv, TypeOK
<1>4. wanted' \in Config /\ wanted' = [wanted EXCEPT ![k] = Len(typed) + 1]
  BY <1>2 DEF Request, TypeInv, TypeOK, Config
<1> QED
  BY <1>2, <1>3, <1>4, PutsAppended DEF Request, TypeInv

\* Submitting a page keeps the types.
LEMMA SubmitTypes ==
    ASSUME TypeInv, NEW t \in Tabs, NEW k \in Keys, NEW what \in Kinds, Submit(t, k, what)
    PROVE  /\ TypeInv'
           /\ form[t] \in Form /\ k \in DOMAIN form[t].config
           /\ Len(typed') = Len(typed) + 1 /\ Len(put') = Len(put) + 1
           /\ [form[t].config EXCEPT ![k] = Len(typed) + 1] \in Copy
<1> DEFINE b == [form[t].config EXCEPT ![k] = Len(typed) + 1]
           r == [at |-> "sent", body |-> b, config |-> Default]
<1>1. form[t] \in Form /\ k \in DOMAIN form[t].config
  BY DEF Submit, TypeInv
<1>2. Request(r, k, what)
  BY DEF Submit
<1>3. Len(typed) + 1 \in Value
  <2>1. Len(typed) \in Nat /\ Len(typed) < MaxEdits
    BY <1>2 DEF Request, TypeInv, TypeOK
  <2> QED
    BY <2>1, ConstantsOK DEF Value, Detected, Elsewhere
<1>4. b \in Copy
  <2>1. form[t].config \in Copy
    BY <1>1 DEF Form
  <2>2. b \in [DOMAIN form[t].config -> Value]
    BY <1>3, <2>1, CopyIs
  <2> QED
    BY <2>1, <2>2, CopyIs, CopyMade
<1> HIDE DEF b
<1>5. r \in Put
  BY <1>4, DoneIs DEF Put, Pending, Active
<1> HIDE DEF r
<1>6. /\ put' \in Seq(Put) /\ Len(put') = Len(typed') /\ Len(typed') = Len(typed) + 1
      /\ \A m \in DOMAIN put' : /\ put'[m].at \in {"sent", "read", "written", "done"}
                                /\ put'[m].config \in Config
      /\ typed' \in Seq(Kinds) /\ Len(typed') <= MaxEdits
      /\ wanted' \in Config
  BY <1>2, <1>5, RequestTypes
<1>7. undone' \subseteq Allowed /\ strayed' \in BOOLEAN
  BY DEF Submit
<1>8. /\ form' = [form EXCEPT ![t] = NoForm]
      /\ UNCHANGED <<copies, handlers>>
  BY DEF Submit
<1>9. FormsTyped'
  BY <1>8, TypeForms DEF FormsTyped
<1>10. TypeInv'
  BY <1>6, <1>7, <1>8, <1>9 DEF TypeInv, TypeOK, copies, handlers, FormsTyped
<1> QED
  BY <1>1, <1>4, <1>6, <1>10 DEF b, TypeInv

\* So does the default threshold of the alerts page.
LEMMA DefaultThresholdTypes ==
    ASSUME TypeInv, DefaultThreshold
    PROVE  TypeInv' /\ Len(typed') = Len(typed) + 1 /\ Len(put') = Len(put) + 1
<1>1. Done \in Put /\ "threshold" \in Keys /\ "good" \in Kinds
  BY ConstantsOK DEF Put, Keys
<1>2. Request(Done, "threshold", "good")
  BY DEF DefaultThreshold
<1>3. /\ put' \in Seq(Put) /\ Len(put') = Len(typed') /\ Len(typed') = Len(typed) + 1
      /\ \A m \in DOMAIN put' : /\ put'[m].at \in {"sent", "read", "written", "done"}
                                /\ put'[m].config \in Config
      /\ typed' \in Seq(Kinds) /\ Len(typed') <= MaxEdits
      /\ wanted' \in Config /\ Len(typed) + 1 \in Value
  BY <1>1, <1>2, RequestTypes
<1>4. row' \in Config
  BY <1>1, <1>3 DEF DefaultThreshold, TypeInv, TypeOK, Config
<1>5. undone' \subseteq Allowed /\ strayed' \in BOOLEAN
  BY DEF DefaultThreshold, TypeInv, TypeOK, Allowed, Keys
<1> QED
  BY <1>3, <1>4, <1>5 DEF TypeInv, TypeOK, DefaultThreshold, handlers

\* So does each step of a request: reading the row,
LEMMA ReadTypes == ASSUME TypeInv, NEW n \in DOMAIN put, Read(n) PROVE TypeInv'
<1>1. put[n] \in Pending
  BY PutIs DEF TypeInv, Read
<1>2. Merged(n) \in Config
  BY <1>1, MergedIs DEF TypeInv, TypeOK, Pending
<1> DEFINE r == [at |-> "read", body |-> put[n].body, config |-> Merged(n)]
<1>3. r \in Put
  BY <1>1, <1>2 DEF Put, Pending, Active
<1>4. put' = [put EXCEPT ![n] = r]
  BY DEF Read, TypeInv
<1> HIDE DEF r
<1> QED
  BY <1>3, <1>4, PutsSet DEF TypeInv, TypeOK, Read, copies, handlers, history

\* writing it,
LEMMA WriteTypes == ASSUME TypeInv, NEW n \in DOMAIN put, Write(n) PROVE TypeInv'
<1>1. put[n] \in Pending
  BY PutIs DEF TypeInv, Write
<1> DEFINE r == [put[n] EXCEPT !.at = "written"]
<1>2. r \in Put
  BY <1>1 DEF Put, Pending, Active
<1>3. put' = [put EXCEPT ![n] = r]
  BY DEF Write, TypeInv
<1> HIDE DEF r
<1>4. row' \in Config
  BY DEF Write, TypeInv, TypeOK
<1> QED
  BY <1>2, <1>3, <1>4, PutsSet DEF TypeInv, TypeOK, Write, handlers, history

\* telling the object,
LEMMA UpdateConfigTypes == ASSUME TypeInv, NEW n \in DOMAIN put, UpdateConfig(n) PROVE TypeInv'
<1>1. Done \in Put
  BY DEF Put
<1>2. object' \in Config
  BY DEF UpdateConfig, TypeInv, TypeOK, Config, Allowed
<1>3. channel' \in Seq(Config)
  BY <1>2 DEF UpdateConfig, Sent, TypeInv, TypeOK
<1>4. put' = [put EXCEPT ![n] = Done]
  BY DEF UpdateConfig
<1>5. strayed' \in BOOLEAN /\ (channel' # <<>> => link')
  BY DEF UpdateConfig, Sent, TypeInv
<1> QED
  BY <1>1, <1>2, <1>3, <1>4, <1>5, PutsSet DEF TypeInv, TypeOK, UpdateConfig

\* and failing to.
LEMMA UpdateConfigFailsTypes ==
    ASSUME TypeInv, NEW n \in DOMAIN put, UpdateConfigFails(n) PROVE TypeInv'
<1>1. Done \in Put
  BY DEF Put
<1> QED
  BY <1>1, PutsSet DEF TypeInv, TypeOK, UpdateConfigFails, copies, handlers

\* The object keeps the types.
LEMMA HandlerTypes ==
    ASSUME TypeInv,
           AlarmLoads \/ Loaded \/ Connect \/ Detect \/ WriteBack \/ Greet \/ Hibernate
    PROVE  TypeInv'
<1>1. CASE AlarmLoads
  BY <1>1 DEF TypeInv, TypeOK, AlarmLoads, copies, requests, history
<1>2. CASE Loaded
  BY <1>2 DEF TypeInv, TypeOK, Loaded, requests, history
<1>3. CASE Connect
  BY <1>3 DEF TypeInv, TypeOK, Connect, Works, copies, requests, history
<1>4. CASE Detect
  <2>1. object' \in Config /\ loaded
    <3>1. object \in [Keys -> Value] /\ loaded
      BY <1>4 DEF TypeInv, TypeOK, Detect, Config
    <3>2. object' = object \/ object' = [object EXCEPT !["timezone"] = Detected]
      BY <1>4 DEF Detect
    <3>3. object' \in [Keys -> Value]
      BY <3>1, <3>2, Numbers
    <3> QED
      BY <3>1, <3>3 DEF Config
  <2>2. \/ handler' = [at |-> "write", config |-> object']
        \/ handler' = [at |-> "send"]
    BY <1>4 DEF Detect
  <2>3. handler' \in {[at |-> s] : s \in {"none", "detect", "send"}}
                   \cup [at : {"load", "alarm", "write"}, config : Config]
    BY <2>1, <2>2
  <2>4. handler'.at \in {"write", "send"}
    BY <2>2
  <2>5. UNCHANGED <<row, loaded, client, channel, link, form, put, typed, wanted, undone, strayed>>
    BY <1>4 DEF Detect, requests, history
  <2> QED
    BY <2>1, <2>3, <2>4, <2>5 DEF TypeInv, TypeOK
<1>5. CASE WriteBack
  BY <1>5 DEF TypeInv, TypeOK, WriteBack, requests
<1>6. CASE Greet
  BY <1>6 DEF TypeInv, TypeOK, Greet, Greeted, Sent, copies, requests, history
<1>7. CASE Hibernate
  BY <1>7, DoneIs DEF TypeInv, TypeOK, Hibernate, handlers, requests, history
<1> QED
  BY <1>1, <1>2, <1>3, <1>4, <1>5, <1>6, <1>7

\* So do the daemon and its connection.
LEMMA DaemonTypes == ASSUME TypeInv, Apply \/ Disconnect PROVE TypeInv'
<1>1. CASE Apply
  <2>1. Head(channel) \in Config /\ Tail(channel) \in Seq(Config)
    BY <1>1 DEF Apply, TypeInv, TypeOK
  <2>2. [k \in Pushed |-> Head(channel)[k]] \in [Pushed -> Value]
    BY <2>1 DEF Config, Pushed, Keys
  <2>3. client' \in [Pushed -> Value] /\ link' \in BOOLEAN /\ channel' \in Seq(Config)
    <3>1. <<>> \in Seq(Config) /\ link \in BOOLEAN /\ client \in [Pushed -> Value]
      BY DEF TypeInv, TypeOK
    <3>2. CASE Readable(Head(channel))
      BY <1>1, <2>1, <2>2, <3>1, <3>2 DEF Apply, Works
    <3>3. CASE ~Readable(Head(channel))
      BY <1>1, <2>1, <3>1, <3>3 DEF Apply
    <3> QED
      BY <3>2, <3>3
  <2> QED
    BY <1>1, <2>3 DEF TypeInv, TypeOK, Apply, requests, history
<1>2. CASE Disconnect
  <2>1. channel' = <<>> /\ link' = FALSE
    BY <1>2 DEF Disconnect
  <2>2. channel' \in Seq(Config)
    BY <2>1
  <2> QED
    BY <1>2, <2>1, <2>2 DEF TypeInv, TypeOK, Disconnect, copies, requests, history
<1> QED
  BY <1>1, <1>2

\* The types hold at the start.
LEMMA TypeInit == ASSUME Init PROVE TypeInv
<1>1. <<>> \in Seq(Config) /\ <<>> \in Seq(Kinds) /\ <<>> \in Seq(Put) /\ Len(<<>>) = 0
  OBVIOUS
<1>2. [k \in Pushed |-> 0] \in [Pushed -> Value]
  BY Numbers
<1> QED
  <2>1. form \in [Tabs -> {NoForm} \cup Form] /\ \A t \in Tabs : form[t] = NoForm
    BY DEF Init
  <2>2. put \in Seq(Put) /\ Len(put) = 0 /\ DOMAIN put = {} /\ Len(typed) = 0
    BY <1>1 DEF Init
  <2>3. channel \in Seq(Config) /\ typed \in Seq(Kinds) /\ Len(typed) <= MaxEdits
    BY <1>1, ConstantsOK DEF Init
  <2>4. handler \in {[at |-> s] : s \in {"none", "detect", "send"}} /\ handler.at = "none"
    BY DEF Init
  <2> QED
    BY <1>2, <2>1, <2>2, <2>3, <2>4, DoneIs DEF Init, TypeInv, TypeOK

\* And every step keeps them.
LEMMA TypeStep == ASSUME TypeInv, [Next]_vars PROVE TypeInv'
<1>1. CASE UNCHANGED vars
  BY <1>1 DEF TypeInv, TypeOK, vars, copies, handlers, requests, history
<1>2. CASE Next
  <2>1. ASSUME NEW t \in Tabs, NEW page \in Pages, Open(t, page) PROVE TypeInv'
    BY <2>1, OpenTypes
  <2>2. ASSUME NEW t \in Tabs, EditorRemounts(t) PROVE TypeInv'
    BY <2>2, EditorRemountsTypes
  <2>3. ASSUME NEW t \in Tabs, NEW k \in Keys, NEW what \in Kinds, Submit(t, k, what) PROVE TypeInv'
    BY <2>3, SubmitTypes
  <2>4. ASSUME NEW n \in DOMAIN put, Read(n) \/ Write(n) \/ UpdateConfig(n) \/ UpdateConfigFails(n)
        PROVE  TypeInv'
    BY <2>4, ReadTypes, WriteTypes, UpdateConfigTypes, UpdateConfigFailsTypes
  <2> QED
    BY <1>2, <2>1, <2>2, <2>3, <2>4, DefaultThresholdTypes, HandlerTypes, DaemonTypes DEF Next
<1> QED
  BY <1>1, <1>2

(***************************************************************************)
(* No copy of the configuration is newer than what was wanted last.        *)
(***************************************************************************)
\* A value is the number of its edit, detected, or another client's.
OldTo(c, w) == \A k \in DOMAIN c : c[k] \in 0..w[k] \cup {Detected, Elsewhere}

\* It holds of every copy there is: the row, the object's, what a handler has
\* read, what pages show and requests carry.
OldInv ==
    /\ \A k \in Keys : wanted[k] \in 0..Len(typed)
    /\ OldTo(row, wanted) /\ OldTo(object, wanted)
    /\ handler.at \in {"load", "alarm", "write"} => OldTo(handler.config, wanted)
    /\ \A t \in Tabs : form[t] # NoForm => OldTo(form[t].config, wanted)
    /\ \A n \in DOMAIN put : put[n].at # "done" =>
         OldTo(put[n].body, wanted) /\ OldTo(put[n].config, wanted)

\* The default is older than any edit.
LEMMA DefaultOld == ASSUME NEW w \in Config PROVE OldTo(Default, w)
<1>1. \A k \in Keys : w[k] \in Value
  BY DEF Config
<1>2. ASSUME NEW k \in Keys PROVE 0 \in 0..w[k]
  <2>1. w[k] \in Nat
    BY <1>1, Numbers
  <2> QED
    BY <2>1
<1> QED
  BY <1>2 DEF OldTo, Default

\* A page shows nothing newer than the row.
LEMMA RestrictedOld ==
    ASSUME row \in Config, OldTo(row, wanted), NEW K, K \subseteq Keys
    PROVE  OldTo(Restricted(row, K), wanted)
BY DEF OldTo, Restricted, Config

\* Nor than the row of the first client.
LEMMA ShowsOld ==
    ASSUME row \in Config, OldTo(row, wanted), NEW page \in Pages, NEW c \in Shows(page)
    PROVE  OldTo(c, wanted)
<1>1. /\ DOMAIN c = Fields(page) /\ Fields(page) \subseteq Keys
      /\ \A k \in Fields(page) : c[k] \in {row[k], Elsewhere}
  BY ShowsIs, FieldsAreKeys
<1> QED
  BY <1>1 DEF OldTo, Config

\* An edit makes no copy newer than what is wanted.
LEMMA OldStays ==
    ASSUME TypeInv, OldInv, NEW k \in Keys, wanted' = [wanted EXCEPT ![k] = Len(typed) + 1],
           NEW c, DOMAIN c \subseteq Keys, OldTo(c, wanted)
    PROVE  OldTo(c, wanted')
<1>1. \A f \in Keys : wanted[f] \in Nat /\ wanted'[f] \in Nat /\ wanted[f] <= wanted'[f]
  BY DEF TypeInv, TypeOK, OldInv, Config
<1>2. ASSUME NEW f \in DOMAIN c PROVE c[f] \in 0..wanted'[f] \cup {Detected, Elsewhere}
  BY <1>1 DEF OldTo
<1> QED
  BY <1>2 DEF OldTo

\* The keys of the copies.
LEMMA DomainsOfCopies ==
    ASSUME TypeInv
    PROVE  /\ DOMAIN row = Keys /\ DOMAIN object = Keys
           /\ handler.at \in {"load", "alarm", "write"} =>
                handler.config \in Config /\ DOMAIN handler.config = Keys
           /\ \A t \in Tabs : form[t] # NoForm => DOMAIN form[t].config \subseteq Keys
           /\ \A n \in DOMAIN put : put[n].at # "done" =>
                put[n] \in Pending /\ DOMAIN put[n].body \subseteq Keys /\ DOMAIN put[n].config = Keys
<1>1. \A t \in Tabs : form[t] # NoForm => DOMAIN form[t].config \subseteq Keys
  BY CopyIs DEF TypeInv, Form
<1>2. ASSUME NEW n \in DOMAIN put, put[n].at # "done"
      PROVE  put[n] \in Pending /\ DOMAIN put[n].body \subseteq Keys /\ DOMAIN put[n].config = Keys
  <2>1. put[n] \in Pending
    BY <1>2, PutIs DEF TypeInv
  <2> QED
    BY <2>1, CopyIs DEF Pending, Config
<1>3. handler.at \in {"load", "alarm", "write"} =>
        handler.config \in Config /\ DOMAIN handler.config = Keys
  BY DEF TypeInv, TypeOK, Config
<1> QED
  BY <1>1, <1>2, <1>3 DEF TypeInv, TypeOK, Config

\* The part an edit leaves as it was.
LEMMA RequestOld ==
    ASSUME TypeInv, OldInv, NEW k \in Keys, NEW what, NEW r, Request(r, k, what),
           UNCHANGED <<object, handler>>
    PROVE  /\ \A f \in Keys : wanted'[f] \in 0..Len(typed')
           /\ OldTo(row, wanted') /\ OldTo(object', wanted')
           /\ handler'.at \in {"load", "alarm", "write"} => OldTo(handler'.config, wanted')
           /\ \A t \in Tabs : form[t] # NoForm => OldTo(form[t].config, wanted')
           /\ \A n \in DOMAIN put : put'[n] = put[n] /\ (put[n].at # "done" =>
                OldTo(put[n].body, wanted') /\ OldTo(put[n].config, wanted'))
           /\ DOMAIN put' = DOMAIN put \cup {Len(put) + 1} /\ put'[Len(put) + 1] = r
<1>1. wanted' = [wanted EXCEPT ![k] = Len(typed) + 1]
  BY DEF Request
<1>2. \A f \in Keys : wanted'[f] \in 0..Len(typed')
  BY DEF Request, TypeInv, TypeOK, OldInv, Config
<1>3. ASSUME NEW c, DOMAIN c \subseteq Keys, OldTo(c, wanted) PROVE OldTo(c, wanted')
  BY <1>1, <1>3, OldStays
<1>4. OldTo(row, wanted') /\ OldTo(object, wanted')
  BY <1>3, DomainsOfCopies DEF OldInv
<1>5. handler.at \in {"load", "alarm", "write"} => OldTo(handler.config, wanted')
  BY <1>3, DomainsOfCopies DEF OldInv
<1>6. \A t \in Tabs : form[t] # NoForm => OldTo(form[t].config, wanted')
  BY <1>3, DomainsOfCopies DEF OldInv
<1>7. \A n \in DOMAIN put : put[n].at # "done" =>
        OldTo(put[n].body, wanted') /\ OldTo(put[n].config, wanted')
  BY <1>3, DomainsOfCopies DEF OldInv
<1>8. /\ DOMAIN put' = DOMAIN put \cup {Len(put) + 1} /\ put'[Len(put) + 1] = r
      /\ \A n \in DOMAIN put : put'[n] = put[n]
  BY DEF Request, TypeInv
<1> QED
  BY <1>2, <1>4, <1>5, <1>6, <1>7, <1>8

\* Submitting a page makes no copy newer than what was wanted last.
LEMMA SubmitOld ==
    ASSUME TypeInv, OldInv, NEW t \in Tabs, NEW k \in Keys, NEW what \in Kinds, Submit(t, k, what)
    PROVE  OldInv'
<1> DEFINE b == [form[t].config EXCEPT ![k] = Len(typed) + 1]
           r == [at |-> "sent", body |-> b, config |-> Default]
<1>1. Request(r, k, what) /\ UNCHANGED <<row, object, handler>>
  BY DEF Submit, copies, handlers
<1>2. wanted' = [wanted EXCEPT ![k] = Len(typed) + 1] /\ wanted' \in Config
  BY <1>1, SubmitTypes DEF Request, TypeInv, TypeOK
<1>3. OldTo(b, wanted')
  <2>1. form[t] # NoForm /\ DOMAIN form[t].config \subseteq Keys
    BY DomainsOfCopies DEF Submit
  <2>2. OldTo(form[t].config, wanted')
    BY <1>2, <2>1, OldStays DEF OldInv
  <2>3. Len(typed) + 1 \in 0..wanted'[k]
    BY <1>2 DEF TypeInv, TypeOK, Config
  <2> QED
    BY <2>2, <2>3 DEF OldTo
<1>4. OldTo(Default, wanted')
  BY <1>2, DefaultOld
<1>5. r.body = b /\ r.config = Default
  OBVIOUS
<1> HIDE DEF b, r
<1>6. \A s \in Tabs : form'[s] # NoForm => form[s] # NoForm /\ form'[s] = form[s]
  BY DEF Submit, TypeInv
<1> QED
  BY <1>1, <1>3, <1>4, <1>5, <1>6, RequestOld DEF OldInv

\* Nor does the default threshold.
LEMMA DefaultThresholdOld == ASSUME TypeInv, OldInv, DefaultThreshold PROVE OldInv'
<1>1. /\ Request(Done, "threshold", "good") /\ UNCHANGED <<object, handler, form>>
      /\ row' = [row EXCEPT !["threshold"] = Len(typed) + 1]
      /\ "threshold" \in Keys
  BY DEF DefaultThreshold, handlers, Keys
<1>2. wanted'["threshold"] = Len(typed) + 1 /\ Len(typed) \in Nat
  BY <1>1 DEF Request, TypeInv, TypeOK, Config
<1>3. OldTo(row', wanted')
  BY <1>1, <1>2, RequestOld DEF OldTo
<1> QED
  BY <1>1, <1>3, RequestOld, DoneIs DEF OldInv

\* Nor does a step of a request.
LEMMA PutOld ==
    ASSUME TypeInv, OldInv, NEW n \in DOMAIN put,
           Read(n) \/ Write(n) \/ UpdateConfig(n) \/ UpdateConfigFails(n)
    PROVE  OldInv'
<1>1. UNCHANGED <<handler, form, typed, wanted>>
  BY DEF Read, Write, UpdateConfig, UpdateConfigFails, handlers, history, copies
<1>2. put[n] \in Pending /\ OldTo(put[n].body, wanted) /\ OldTo(put[n].config, wanted)
  BY DomainsOfCopies DEF OldInv, Read, Write, UpdateConfig, UpdateConfigFails
<1>3. OldTo(row', wanted)
  BY <1>2 DEF Read, Write, UpdateConfig, UpdateConfigFails, copies, OldInv
<1>4. OldTo(object', wanted)
  <2>1. ASSUME object' = [k \in Keys |-> IF k \in Allowed THEN put[n].config[k] ELSE object[k]]
        PROVE  OldTo(object', wanted)
    BY <1>2, <2>1, DomainsOfCopies DEF OldInv, OldTo, Pending, Config
  <2> QED
    BY <2>1 DEF Read, Write, UpdateConfig, UpdateConfigFails, copies, OldInv
<1>5. ASSUME NEW m \in DOMAIN put', put'[m].at # "done"
      PROVE  OldTo(put'[m].body, wanted) /\ OldTo(put'[m].config, wanted)
  <2>1. CASE Read(n)
    <3>1. OldTo(Merged(n), wanted)
      BY <1>2, DomainsOfCopies DEF OldTo, Merged, Spread, OldInv
    <3> DEFINE r == [at |-> "read", body |-> put[n].body, config |-> Merged(n)]
    <3>2. put' = [put EXCEPT ![n] = r] /\ r.body = put[n].body /\ r.config = Merged(n)
      BY <2>1 DEF Read, TypeInv
    <3> HIDE DEF r
    <3> QED
      BY <1>2, <1>5, <3>1, <3>2 DEF OldInv, TypeInv
  <2>2. CASE Write(n)
    <3> DEFINE r == [put[n] EXCEPT !.at = "written"]
    <3>1. put' = [put EXCEPT ![n] = r] /\ r.body = put[n].body /\ r.config = put[n].config
      BY <1>2, <2>2 DEF Write, TypeInv, Pending
    <3> HIDE DEF r
    <3> QED
      BY <1>2, <1>5, <3>1 DEF OldInv, TypeInv
  <2>3. CASE UpdateConfig(n) \/ UpdateConfigFails(n)
    <3>1. put' = [put EXCEPT ![n] = Done]
      BY <2>3 DEF UpdateConfig, UpdateConfigFails
    <3> QED
      BY <1>5, <3>1, DoneIs DEF OldInv, TypeInv
  <2> QED
    BY <2>1, <2>2, <2>3
<1> QED
  BY <1>1, <1>3, <1>4, <1>5 DEF OldInv

\* Nor does the object.
LEMMA HandlerOld ==
    ASSUME TypeInv, OldInv,
           AlarmLoads \/ Loaded \/ Connect \/ Detect \/ WriteBack \/ Greet \/ Hibernate
    PROVE  OldInv'
<1>1. UNCHANGED <<form, put, typed, wanted>>
  BY DEF AlarmLoads, Loaded, Connect, Detect, WriteBack, Greet, Hibernate, requests, history
<1>2. OldTo(row', wanted)
  BY DEF AlarmLoads, Loaded, Connect, Detect, WriteBack, Greet, Hibernate, copies, OldInv
<1>3. OldTo(object', wanted)
  <2>1. CASE Detect
    <3>1. object' = object \/ object' = [object EXCEPT !["timezone"] = Detected]
      BY <2>1 DEF Detect
    <3> QED
      BY <3>1 DEF OldInv, OldTo
  <2>2. CASE Hibernate
    BY <2>2, DefaultOld DEF Hibernate, TypeInv, TypeOK
  <2> QED
    BY <2>1, <2>2 DEF AlarmLoads, Loaded, Connect, WriteBack, Greet, copies, OldInv
<1>4. handler'.at \in {"load", "alarm", "write"} => OldTo(handler'.config, wanted)
  <2>1. \/ handler' = handler
        \/ handler'.at \notin {"load", "alarm", "write"}
        \/ handler'.config \in {row, object'}
    BY DEF AlarmLoads, Loaded, Connect, Detect, WriteBack, Greet, Hibernate, handlers
  <2> QED
    BY <1>3, <2>1 DEF OldInv
<1> QED
  BY <1>1, <1>2, <1>3, <1>4 DEF OldInv

\* Nor does any step.
LEMMA OldStep == ASSUME TypeInv, OldInv, [Next]_vars PROVE OldInv'
<1>1. CASE UNCHANGED vars
  BY <1>1 DEF OldInv, vars, copies, handlers, requests, history
<1>2. CASE Next
  <2>1. ASSUME NEW t \in Tabs, NEW page \in Pages, Open(t, page) PROVE OldInv'
    <3>1. PICK c \in Shows(page) : form' = [form EXCEPT ![t] = [page |-> page, config |-> c]]
      BY <2>1 DEF Open
    <3>2. \A s \in Tabs : form'[s] = form[s] \/ form'[s].config = c
      BY <3>1 DEF TypeInv
    <3>3. OldTo(c, wanted)
      BY ShowsOld DEF TypeInv, TypeOK, OldInv
    <3>4. \A s \in Tabs : form'[s] # NoForm => OldTo(form'[s].config, wanted)
      BY <3>2, <3>3 DEF OldInv
    <3> QED
      BY <2>1, <3>4 DEF Open, OldInv, copies, handlers, history
  <2>2. ASSUME NEW t \in Tabs, EditorRemounts(t) PROVE OldInv'
    <3>1. form' = [form EXCEPT ![t].config = Restricted(row, Fields("editor"))]
      BY <2>2 DEF EditorRemounts
    <3>2. form[t] \in Form
      BY <2>2 DEF TypeInv, EditorRemounts, NoForm
    <3>3. \A s \in Tabs : form'[s] = form[s] \/ form'[s].config = Restricted(row, Fields("editor"))
      BY <3>1, <3>2 DEF TypeInv, Form
    <3>4. OldTo(Restricted(row, Fields("editor")), wanted)
      BY FieldsAreKeys, RestrictedOld DEF TypeInv, TypeOK, OldInv, Pages
    <3>5. \A s \in Tabs : form'[s] # NoForm => OldTo(form'[s].config, wanted)
      BY <3>3, <3>4 DEF OldInv
    <3> QED
      BY <2>2, <3>5 DEF EditorRemounts, OldInv, copies, handlers, history
  <2>3. ASSUME NEW t \in Tabs, NEW k \in Keys, NEW what \in Kinds, Submit(t, k, what) PROVE OldInv'
    BY <2>3, SubmitOld
  <2>4. ASSUME NEW n \in DOMAIN put, Read(n) \/ Write(n) \/ UpdateConfig(n) \/ UpdateConfigFails(n)
        PROVE  OldInv'
    BY <2>4, PutOld
  <2>5. CASE Apply \/ Disconnect
    BY <2>5 DEF Apply, Disconnect, OldInv, copies, requests, history
  <2> QED
    BY <1>2, <2>1, <2>2, <2>3, <2>4, <2>5, DefaultThresholdOld, HandlerOld DEF Next
<1> QED
  BY <1>1, <1>2

(***************************************************************************)
(* ChangesSurvive.                                                         *)
(***************************************************************************)
Same(c, d) == \A k \in Allowed : c[k] = d[k]

\* Of a key of which no edit may have been undone: a request between its read and
\* its write that carries it is the only one and carries what is wanted, and what
\* a request has merged is wanted; if none carries it, the row has it.
SurviveInv == \A k \in Allowed \ undone :
    /\ \A n \in Racing : k \in DOMAIN put[n].body => Racing = {n} /\ put[n].body[k] = wanted[k]
    /\ \A n \in Racing : put[n].at = "read" => put[n].config[k] = wanted[k]
    /\ (\A n \in Racing : k \notin DOMAIN put[n].body) => row[k] = wanted[k]

\* A request moves on in `put'.
LEMMA Moves ==
    ASSUME TypeInv, NEW n \in DOMAIN put,
           Read(n) \/ Write(n) \/ UpdateConfig(n) \/ UpdateConfigFails(n)
    PROVE  /\ DOMAIN put' = DOMAIN put /\ Len(put') = Len(put)
           /\ \A m \in DOMAIN put : m # n => put'[m] = put[m]
           /\ put[n] \in Pending
           /\ put'[n] = IF put[n].at = "sent"
                        THEN [at |-> "read", body |-> put[n].body, config |-> Merged(n)]
                        ELSE IF put[n].at = "read"
                        THEN [at |-> "written", body |-> put[n].body, config |-> put[n].config]
                        ELSE Done
           /\ Read(n) => put[n].at = "sent"
           /\ Write(n) => put[n].at = "read"
           /\ UpdateConfig(n) \/ UpdateConfigFails(n) => put[n].at = "written"
<1>1. put[n] \in Pending
  BY PutIs DEF TypeInv, Read, Write, UpdateConfig, UpdateConfigFails
<1>2. CASE Read(n)
  <2> DEFINE r == [at |-> "read", body |-> put[n].body, config |-> Merged(n)]
  <2>1. put[n].at = "sent" /\ put' = [put EXCEPT ![n] = r]
    BY <1>2 DEF Read, TypeInv
  <2>2. UNCHANGED <<row, typed>> /\ ~Write(n) /\ ~UpdateConfig(n) /\ ~UpdateConfigFails(n)
    BY <1>2, <2>1 DEF Read, copies, Write, UpdateConfig, UpdateConfigFails
  <2> HIDE DEF r
  <2>3. put'[n] = r /\ DOMAIN put' = DOMAIN put /\ Len(put') = Len(put)
        /\ \A m \in DOMAIN put : m # n => put'[m] = put[m]
    BY <2>1 DEF TypeInv
  <2> QED
    BY <1>1, <2>1, <2>2, <2>3 DEF r
<1>3. CASE Write(n)
  <2> DEFINE r == [put[n] EXCEPT !.at = "written"]
  <2>1. put[n].at = "read" /\ put' = [put EXCEPT ![n] = r] 
    BY <1>3 DEF Write, TypeInv
  <2>2. r = [at |-> "written", body |-> put[n].body, config |-> put[n].config]
    BY <1>1 DEF Pending
  <2> HIDE DEF r
  <2>3. put'[n] = r /\ DOMAIN put' = DOMAIN put /\ Len(put') = Len(put)
        /\ \A m \in DOMAIN put : m # n => put'[m] = put[m]
    BY <2>1 DEF TypeInv
  <2>4. ~Read(n) /\ ~UpdateConfig(n) /\ ~UpdateConfigFails(n)
    BY <2>1 DEF Read, UpdateConfig, UpdateConfigFails
  <2> QED
    BY <1>1, <2>1, <2>2, <2>3, <2>4
<1>4. CASE UpdateConfig(n) \/ UpdateConfigFails(n)
  <2>1. put[n].at = "written" /\ put' = [put EXCEPT ![n] = Done]
    BY <1>4 DEF UpdateConfig, UpdateConfigFails
  <2>2. put'[n] = Done /\ DOMAIN put' = DOMAIN put /\ Len(put') = Len(put)
        /\ \A m \in DOMAIN put : m # n => put'[m] = put[m]
    BY <2>1 DEF TypeInv
  <2>3. ~Read(n) /\ ~Write(n)
    BY <2>1 DEF Read, Write
  <2> QED
    BY <1>1, <2>1, <2>2, <2>3
<1> QED
  BY <1>2, <1>3, <1>4

\* A page submitted while no other request is on its way carries what is wanted,
\* but for the keys it shows other values of; otherwise all keys of the requests
\* are marked.
LEMMA SubmitSurvives ==
    ASSUME TypeInv, SurviveInv,
           NEW t \in Tabs, NEW k \in Keys, NEW what \in Kinds, Submit(t, k, what)
    PROVE  SurviveInv'
<1> DEFINE b == [form[t].config EXCEPT ![k] = Len(typed) + 1]
           r == [at |-> "sent", body |-> b, config |-> Default]
           N == Len(put) + 1
<1>1. Request(r, k, what) /\ row' = row
  BY DEF Submit, copies
<1>2. undone' = Allowed \cap (IF Racing = {}
                              THEN (undone \ DOMAIN b) \cup (Foreign(t) \ {k})
                              ELSE undone \cup DOMAIN b
                                   \cup UNION {DOMAIN put[n].body : n \in Racing})
  BY DEF Submit
<1>3. /\ DOMAIN put' = DOMAIN put \cup {N} /\ put'[N] = r /\ N \notin DOMAIN put
      /\ \A n \in DOMAIN put : put'[n] = put[n]
  BY <1>1 DEF Request, TypeInv
<1>4. r.at = "sent" /\ r.body = b
  OBVIOUS
<1>5. wanted'[k] = Len(typed) + 1 /\ \A f \in Keys \ {k} : wanted'[f] = wanted[f]
  BY <1>1 DEF Request, TypeInv, TypeOK, Config
<1>6. DOMAIN b = DOMAIN form[t].config /\ k \in DOMAIN b /\ b[k] = Len(typed) + 1
      /\ \A f \in DOMAIN b \ {k} : b[f] = form[t].config[f]
  <2>1. k \in DOMAIN form[t].config
    BY SubmitTypes
  <2> QED
    BY <2>1
<1> HIDE DEF r, b
<1>7. Racing' = Racing \cup {N} /\ N \notin Racing
  BY <1>3, <1>4 DEF Racing
<1> SUFFICES ASSUME NEW f \in Allowed \ undone'
             PROVE  /\ \A n \in Racing' : f \in DOMAIN put'[n].body =>
                         Racing' = {n} /\ put'[n].body[f] = wanted'[f]
                    /\ \A n \in Racing' : put'[n].at = "read" => put'[n].config[f] = wanted'[f]
                    /\ (\A n \in Racing' : f \notin DOMAIN put'[n].body) => row'[f] = wanted'[f]
  BY DEF SurviveInv, Racing
<1>8. f \in Allowed /\ f \in Keys
  BY DEF Allowed
<1>9. CASE Racing = {}
  <2>1. f \in DOMAIN b => b[f] = wanted'[f]
    BY <1>2, <1>5, <1>6, <1>8, <1>9 DEF Foreign
  <2>2. f \notin DOMAIN b => row'[f] = wanted'[f]
    BY <1>1, <1>2, <1>5, <1>6, <1>8, <1>9 DEF SurviveInv
  <2> QED
    BY <1>3, <1>4, <1>7, <1>9, <2>1, <2>2
<1>10. CASE Racing # {}
  <2>1. f \notin undone /\ f \notin DOMAIN b /\ \A n \in Racing : f \notin DOMAIN put[n].body
    BY <1>2, <1>8, <1>10
  <2>2. wanted'[f] = wanted[f] /\ row[f] = wanted[f]
    BY <1>5, <1>6, <1>8, <2>1 DEF SurviveInv
  <2>3. \A n \in Racing : put'[n] = put[n] /\ (put[n].at = "read" => put[n].config[f] = wanted[f])
    BY <1>3, <1>8, <2>1 DEF SurviveInv, Racing
  <2> QED
    BY <1>1, <1>3, <1>4, <1>7, <2>1, <2>2, <2>3
<1> QED
  BY <1>9, <1>10

\* The default threshold is written in one statement.
LEMMA DefaultThresholdSurvives ==
    ASSUME TypeInv, SurviveInv, DefaultThreshold PROVE SurviveInv'
<1> DEFINE N == Len(put) + 1
<1>1. /\ Request(Done, "threshold", "good")
      /\ row' = [row EXCEPT !["threshold"] = Len(typed) + 1]
      /\ undone' = IF Racing = {} THEN undone \ {"threshold"} ELSE undone \cup {"threshold"}
  BY DEF DefaultThreshold
<1>2. /\ DOMAIN put' = DOMAIN put \cup {N} /\ put'[N].at = "done"
      /\ \A n \in DOMAIN put : put'[n] = put[n]
  BY <1>1, DoneIs DEF Request, TypeInv
<1>3. Racing' = Racing /\ \A n \in Racing : put'[n] = put[n]
  BY <1>2 DEF Racing
<1>4. /\ row'["threshold"] = wanted'["threshold"]
      /\ \A k \in Keys \ {"threshold"} : row'[k] = row[k] /\ wanted'[k] = wanted[k]
  BY <1>1 DEF Request, TypeInv, TypeOK, Config, Keys
<1>5. \A k \in Allowed : k \in Keys
  BY DEF Allowed
<1> QED
  BY <1>1, <1>3, <1>4, <1>5 DEF SurviveInv

\* A request merges what is wanted, for there is none beside it that carries a
\* key it does not; and what it writes is wanted.
LEMMA PutSurvives ==
    ASSUME TypeInv, SurviveInv, NEW n \in DOMAIN put,
           Read(n) \/ Write(n) \/ UpdateConfig(n) \/ UpdateConfigFails(n)
    PROVE  SurviveInv'
<1>1. UNCHANGED <<wanted, undone>>
  BY DEF Read, Write, UpdateConfig, UpdateConfigFails, history
<1>2. DOMAIN put' = DOMAIN put /\ \A m \in DOMAIN put : m # n => put'[m] = put[m]
  BY Moves
<1> SUFFICES ASSUME NEW k \in Allowed \ undone
             PROVE  /\ \A m \in Racing' : k \in DOMAIN put'[m].body =>
                         Racing' = {m} /\ put'[m].body[k] = wanted[k]
                    /\ \A m \in Racing' : put'[m].at = "read" => put'[m].config[k] = wanted[k]
                    /\ (\A m \in Racing' : k \notin DOMAIN put'[m].body) => row'[k] = wanted[k]
  BY <1>1 DEF SurviveInv
<1>3. /\ \A m \in Racing : k \in DOMAIN put[m].body => Racing = {m} /\ put[m].body[k] = wanted[k]
      /\ \A m \in Racing : put[m].at = "read" => put[m].config[k] = wanted[k]
      /\ (\A m \in Racing : k \notin DOMAIN put[m].body) => row[k] = wanted[k]
  BY DEF SurviveInv
<1>4. CASE Read(n)
  <2>1. /\ put[n].at = "sent" /\ put'[n].at = "read" /\ row' = row
        /\ put'[n].body = put[n].body /\ put'[n].config = Merged(n)
    <3>1. /\ put[n].at = "sent" /\ row' = row
          /\ put'[n] = [at |-> "read", body |-> put[n].body, config |-> Merged(n)]
      BY <1>4, Moves DEF Read, copies
    <3> QED
      BY <3>1
  <2>2. Racing' = Racing /\ n \in Racing
    BY <1>2, <2>1 DEF Racing
  <2>3. Merged(n)[k] = wanted[k]
    <3>1. Merged(n)[k] = IF k \in DOMAIN put[n].body THEN put[n].body[k] ELSE row[k]
      BY DEF Merged, Spread, Allowed
    <3> QED
      BY <1>3, <2>2, <3>1
  <2> QED
    BY <1>2, <1>3, <2>1, <2>2, <2>3 DEF Racing
<1>5. CASE Write(n)
  <2>1. put'[n].at = "written" /\ put[n].at = "read" /\ row' = put[n].config
    BY <1>5, Moves DEF Write
  <2>2. Racing' = Racing \ {n} /\ n \in Racing
    BY <1>2, <2>1 DEF Racing
  <2>3. row'[k] = wanted[k]
    BY <1>3, <2>1, <2>2
  <2> QED
    BY <1>2, <1>3, <2>2, <2>3 DEF Racing
<1>6. CASE UpdateConfig(n) \/ UpdateConfigFails(n)
  <2>1. put'[n].at = "done" /\ put[n].at = "written" /\ row' = row
    BY <1>6, Moves, DoneIs DEF UpdateConfig, UpdateConfigFails, copies
  <2>2. Racing' = Racing /\ n \notin Racing
    BY <1>2, <2>1 DEF Racing
  <2> QED
    BY <1>2, <1>3, <2>1, <2>2 DEF Racing
<1> QED
  BY <1>4, <1>5, <1>6

\* The write for the time zone marks what it changes.
LEMMA WriteBackSurvives == ASSUME TypeInv, SurviveInv, WriteBack PROVE SurviveInv'
<1>1. UNCHANGED <<put, wanted>> /\ Racing' = Racing
  BY DEF WriteBack, requests, Racing
<1>2. undone' = undone \cup (Allowed \cap {k \in Keys : row'[k] # row[k]})
  BY DEF WriteBack
<1>3. \A k \in Allowed \ undone' : k \in Allowed \ undone /\ row'[k] = row[k]
  BY <1>2 DEF Allowed
<1> QED
  BY <1>1, <1>3 DEF SurviveInv

\* Every step keeps the requests and the row on what is wanted.
LEMMA SurviveStep == ASSUME TypeInv, SurviveInv, [Next]_vars PROVE SurviveInv'
<1>1. ASSUME UNCHANGED <<row, put, wanted, undone>> PROVE SurviveInv'
  BY <1>1 DEF SurviveInv, Racing
<1>2. CASE UNCHANGED vars
  BY <1>1, <1>2 DEF vars, copies, requests, history
<1>3. CASE Next
  <2>1. ASSUME NEW t \in Tabs, NEW page \in Pages, Open(t, page) PROVE SurviveInv'
    BY <1>1, <2>1 DEF Open, copies, history
  <2>2. ASSUME NEW t \in Tabs, EditorRemounts(t) PROVE SurviveInv'
    BY <1>1, <2>2 DEF EditorRemounts, copies, history
  <2>3. ASSUME NEW t \in Tabs, NEW k \in Keys, NEW what \in Kinds, Submit(t, k, what) PROVE SurviveInv'
    BY <2>3, SubmitSurvives
  <2>4. ASSUME NEW n \in DOMAIN put, Read(n) \/ Write(n) \/ UpdateConfig(n) \/ UpdateConfigFails(n)
        PROVE  SurviveInv'
    BY <2>4, PutSurvives
  <2>5. CASE AlarmLoads \/ Loaded \/ Connect \/ Detect \/ Greet \/ Hibernate \/ Apply \/ Disconnect
    BY <1>1, <2>5 DEF AlarmLoads, Loaded, Connect, Detect, Greet, Hibernate, Apply, Disconnect,
                      copies, requests, history
  <2> QED
    BY <1>3, <2>1, <2>2, <2>3, <2>4, <2>5, DefaultThresholdSurvives, WriteBackSurvives DEF Next
<1> QED
  BY <1>2, <1>3

\* At the start all copies are the default.
LEMMA OldInit == ASSUME Init PROVE OldInv
<1>1. wanted \in Config /\ DOMAIN put = {} /\ typed = <<>> /\ \A k \in Keys : wanted[k] = 0
  BY DoneIs DEF Init, Default
<1>2. \A k \in Keys : wanted[k] \in 0..Len(typed)
  BY <1>1
<1> QED
  BY <1>1, <1>2, DefaultOld DEF Init, OldInv

\* When no request is between its read and its write, the row has the last
\* change of every key, unless a request overlapped with one that carries the
\* key, a page carried it that was older than the change or showed another
\* client's value, or the object wrote its own copy back for the time zone, and
\* the key was not changed undisturbed since (clients.ts, Alerts.tsx, fetch).
THEOREM EditsSurvive == Spec => []ChangesSurvive
<1>1. Init => TypeInv /\ SurviveInv
  <2> SUFFICES ASSUME Init PROVE SurviveInv
    BY TypeInit
  <2>1. Racing = {} /\ row = wanted
    BY DEF Init, Racing
  <2> QED
    BY <2>1 DEF SurviveInv
<1>2. TypeInv /\ SurviveInv /\ [Next]_vars => (TypeInv /\ SurviveInv)'
  BY TypeStep, SurviveStep
<1>3. SurviveInv => ChangesSurvive
  BY DEF SurviveInv, ChangesSurvive
<1> QED
  BY <1>1, <1>2, <1>3, PTL DEF Spec

(***************************************************************************)
(* CopiesFollow.                                                           *)
(***************************************************************************)
\* The row has an edit the copy has not; the copy never had the edit n.
Behind(c) == \E k \in Keys : row[k] \in Edits /\ c[k] # row[k]
Never(n, c) == \A k \in Keys : c[k] # n
\* A request has written the row, and not told the object yet; a connection is
\* being set up, and has the greeting before it.
Written == \E n \in DOMAIN put : put[n].at = "written"
Greeting == handler.at \in {"load", "detect", "write", "send"}
\* The last the daemon will have been told.
LastIs(c) == IF channel # <<>> THEN \A k \in Pushed : channel[Len(channel)][k] = c[k]
             ELSE Readable(c) => \A k \in Pushed : client[k] = c[k]
\* A copy is the row, or will be replaced by a request that has written it.
Follows(c) == Same(c, row) \/ (Behind(c) /\ Written)

\* Only the last request is on its way.  Until it writes the row, no copy has
\* its edit, and it has; so the row it writes is one the copies are behind.
LastActive == \A n \in DOMAIN put : put[n].at # "done" => n = Len(put)
PutFollows(n) ==
    /\ put[n].at \in {"sent", "read"} =>
         /\ Never(n, row) /\ Never(n, object)
         /\ handler.at \in {"load", "alarm", "write"} => Never(n, handler.config)
    /\ put[n].at = "sent" => \E k \in DOMAIN put[n].body : put[n].body[k] = n
    /\ put[n].at = "read" => \E k \in Keys : put[n].config[k] = n
    /\ put[n].at = "written" => Same(row, put[n].config)

\* A copy that was behind when a handler took it to write it back would undo an
\* edit, and the step is marked; hence the two cases for `write'.
FollowInv == ~strayed =>
    /\ LastActive
    /\ \A n \in DOMAIN put : PutFollows(n)
    /\ loaded => Follows(object)
    /\ handler.at \in {"load", "alarm"} => Follows(handler.config)
    /\ handler.at = "write" => Same(handler.config, row) \/ Behind(handler.config)
    /\ link /\ ~Greeting /\ ~Written => LastIs(row)

\* The daemon reads keys that update_config takes over.
LEMMA PushedAllowed == Pushed \subseteq Allowed /\ Allowed \subseteq Keys /\ Pushed \subseteq Keys
BY DEF Pushed, Allowed, Keys

\* A new edit is in no copy yet, and the copies are those of the row.
LEMMA SubmitFollows ==
    ASSUME TypeInv, OldInv, FollowInv,
           NEW t \in Tabs, NEW k \in Keys, NEW what \in Kinds, Submit(t, k, what)
    PROVE  FollowInv'
<1> SUFFICES ASSUME ~strayed' PROVE FollowInv'
  BY DEF FollowInv
<1> DEFINE b == [form[t].config EXCEPT ![k] = Len(typed) + 1]
           r == [at |-> "sent", body |-> b, config |-> Default]
<1>1. /\ Request(r, k, what)
      /\ UNCHANGED <<row, object, loaded, client, handler, channel, link>>
  BY DEF Submit, copies, handlers
<1>2. ~strayed /\ Idle /\ ~Written
  BY DEF Submit, Overlap, Idle, Written
<1>3. Len(put) = Len(typed) /\ Len(typed) \in Nat /\ Len(typed) < MaxEdits /\ MaxEdits \in Nat
  BY <1>1, ConstantsOK DEF Request, TypeInv, TypeOK
<1>4. /\ DOMAIN put' = DOMAIN put \cup {Len(put) + 1} /\ put'[Len(put) + 1] = r
      /\ \A n \in DOMAIN put : put'[n].at = "done"
      /\ Len(put') = Len(put) + 1
  BY <1>1, <1>2, RequestOld, SubmitTypes DEF Idle
<1>5. r.at = "sent" /\ r.body = b
  OBVIOUS
<1>6. k \in DOMAIN b /\ b[k] = Len(put) + 1
  <2>1. k \in DOMAIN form[t].config
    BY SubmitTypes
  <2> QED
    BY <1>3, <2>1
<1> HIDE DEF r, b
<1>7. ~Written'
  BY <1>4, <1>5 DEF Written
<1>8. LastActive'
  BY <1>4 DEF LastActive
<1>9. ASSUME NEW n \in DOMAIN put' PROVE PutFollows(n)'
  <2>1. CASE n = Len(put) + 1
    <3>1. ASSUME NEW c, DOMAIN c = Keys, OldTo(c, wanted) PROVE Never(n, c)
      <4> SUFFICES ASSUME NEW f \in Keys, c[f] = n PROVE FALSE
        BY DEF Never
      <4>1. wanted[f] \in 0..Len(typed) /\ n # Detected /\ n # Elsewhere
        BY <1>3, <2>1 DEF OldInv, Detected, Elsewhere
      <4> QED
        BY <1>3, <2>1, <3>1, <4>1 DEF OldTo
    <3>2. Never(n, row) /\ Never(n, object)
      BY <3>1, DomainsOfCopies DEF OldInv
    <3>3. handler.at \in {"load", "alarm", "write"} => Never(n, handler.config)
      BY <3>1, DomainsOfCopies DEF OldInv
    <3>4. put'[n].at = "sent" /\ \E f \in DOMAIN put'[n].body : put'[n].body[f] = n
      BY <1>4, <1>5, <1>6, <2>1
    <3> QED
      BY <1>1, <3>2, <3>3, <3>4 DEF PutFollows, Never
  <2>2. CASE n # Len(put) + 1
    BY <1>4, <2>2 DEF PutFollows
  <2> QED
    BY <2>1, <2>2
<1>10. ASSUME NEW c, Follows(c) PROVE Same(c, row)
  BY <1>2, <1>10 DEF Follows
<1>11. ASSUME NEW c, Behind(c) PROVE Behind(c)'
  <2>1. \A n \in Edits : n \in Edits'
    BY <1>1, <1>3 DEF Edits, Request, TypeInv, TypeOK
  <2> QED
    BY <1>1, <1>11, <2>1 DEF Behind
<1>12. LastIs(row) => LastIs(row)'
  <2>1. Readable(row)' => Readable(row)
    <3> SUFFICES ASSUME Readable(row)', NEW f \in Pushed, row[f] \in Edits
                 PROVE  typed[row[f]] # "empty"
      BY DEF Readable
    <3>1. typed'[row[f]] = typed[row[f]] /\ row[f] \in Edits'
      BY <1>1, <1>3 DEF Edits, Request, TypeInv, TypeOK
    <3> QED
      BY <1>1, <3>1 DEF Readable
  <2> QED
    BY <1>1, <2>1 DEF LastIs
<1>13. loaded' => Follows(object)'
  BY <1>1, <1>2, <1>10 DEF FollowInv, Follows, Same
<1>14. handler'.at \in {"load", "alarm"} => Follows(handler.config)'
  BY <1>1, <1>2, <1>10 DEF FollowInv, Follows, Same
<1>15. handler'.at = "write" => Same(handler.config, row)' \/ Behind(handler.config)'
  BY <1>1, <1>2, <1>11 DEF FollowInv, Same, Behind, Edits
<1>16. link' /\ ~Greeting' /\ ~Written' => LastIs(row)'
  BY <1>1, <1>2, <1>12 DEF FollowInv, Greeting
<1> QED
  BY <1>8, <1>9, <1>13, <1>14, <1>15, <1>16 DEF FollowInv

\* Reading the row puts the edit into the configuration to be written.
LEMMA ReadFollows ==
    ASSUME TypeInv, OldInv, FollowInv, NEW n \in DOMAIN put, Read(n) PROVE FollowInv'
<1> SUFFICES ASSUME ~strayed' PROVE FollowInv'
  BY DEF FollowInv
<1>1. ~strayed /\ UNCHANGED <<row, object, loaded, client, handler, channel, link, typed>>
  BY DEF Read, copies, handlers, history
<1>2. /\ put[n].at = "sent" /\ put'[n].at = "read" /\ put'[n].config = Merged(n)
      /\ DOMAIN put' = DOMAIN put /\ Len(put') = Len(put) /\ put[n] \in Pending
      /\ \A m \in DOMAIN put : m # n => put'[m] = put[m]
  <2>1. /\ put[n].at = "sent" /\ put[n] \in Pending
        /\ put'[n] = [at |-> "read", body |-> put[n].body, config |-> Merged(n)]
    BY Moves DEF Read
  <2>2. put'[n].at = "read" /\ put'[n].config = Merged(n)
    BY <2>1
  <2> QED
    BY <2>1, <2>2, Moves
<1>3. Written' <=> Written
  BY <1>2 DEF Written
<1>4. LastActive'
  BY <1>1, <1>2 DEF FollowInv, LastActive
<1>5. ASSUME NEW m \in DOMAIN put' PROVE PutFollows(m)'
  <2>1. CASE m = n
    <3>1. PICK k \in DOMAIN put[n].body : put[n].body[k] = n
      BY <1>1, <1>2 DEF FollowInv, PutFollows
    <3>2. k \in Keys /\ Merged(n)[k] = n
      BY <1>2, <3>1, CopyIs DEF Merged, Spread, Pending
    <3> QED
      BY <1>1, <1>2, <2>1, <3>2 DEF FollowInv, PutFollows, Never
  <2>2. CASE m # n
    BY <1>1, <1>2, <2>2 DEF FollowInv, PutFollows, Never, Same
  <2> QED
    BY <2>1, <2>2
<1> QED
  BY <1>1, <1>3, <1>4, <1>5 DEF FollowInv, Follows, Same, Behind, Edits, Greeting, LastIs, Readable

\* Writing it leaves every other copy behind, until the object is told.
LEMMA WriteFollows ==
    ASSUME TypeInv, OldInv, FollowInv, NEW n \in DOMAIN put, Write(n) PROVE FollowInv'
<1> SUFFICES ASSUME ~strayed' PROVE FollowInv'
  BY DEF FollowInv
<1>1. ~strayed /\ UNCHANGED <<object, loaded, client, handler, channel, link, typed>>
  BY DEF Write, handlers, history
<1>2. /\ put[n].at = "read" /\ put'[n].at = "written" /\ put'[n].config = put[n].config
      /\ DOMAIN put' = DOMAIN put /\ Len(put') = Len(put) /\ row' = put[n].config
      /\ \A m \in DOMAIN put : m # n => put'[m] = put[m]
  <2>1. /\ put[n].at = "read"
        /\ put'[n] = [at |-> "written", body |-> put[n].body, config |-> put[n].config]
    BY Moves DEF Write
  <2>2. put'[n].at = "written" /\ put'[n].config = put[n].config
    BY <2>1
  <2> QED
    BY <2>1, <2>2, Moves DEF Write
<1>3. Written'
  BY <1>2 DEF Written
<1>4. LastActive'
  BY <1>1, <1>2 DEF FollowInv, LastActive
<1>5. ASSUME NEW m \in DOMAIN put' PROVE PutFollows(m)'
  <2>1. CASE m = n
    BY <1>2, <2>1 DEF PutFollows, Same
  <2>2. CASE m # n
    <3>1. put'[m].at = "done"
      BY <1>1, <1>2, <2>2 DEF FollowInv, LastActive
    <3> QED
      BY <3>1 DEF PutFollows
  <2> QED
    BY <2>1, <2>2
<1>6. n \in Edits'
  BY <1>1 DEF Edits, TypeInv
<1>7. PICK k \in Keys : row'[k] = n
  BY <1>1, <1>2 DEF FollowInv, PutFollows
<1>8. ASSUME NEW c, Never(n, c) PROVE Behind(c)'
  BY <1>6, <1>7, <1>8 DEF Behind, Never
<1>9. Behind(object)' /\ (handler'.at \in {"load", "alarm", "write"} => Behind(handler.config)')
  <2>1. Never(n, object) /\ (handler.at \in {"load", "alarm", "write"} => Never(n, handler.config))
    BY <1>1, <1>2 DEF FollowInv, PutFollows
  <2> QED
    BY <1>1, <1>8, <2>1 DEF Behind
<1> QED
  BY <1>3, <1>4, <1>5, <1>9 DEF FollowInv, Follows

\* The object is told: its copy is the row, and so is the last message.
LEMMA UpdateConfigFollows ==
    ASSUME TypeInv, OldInv, FollowInv, NEW n \in DOMAIN put, UpdateConfig(n) PROVE FollowInv'
<1> SUFFICES ASSUME ~strayed' PROVE FollowInv'
  BY DEF FollowInv
<1>1. /\ ~strayed /\ handler.at \notin {"load", "alarm"}
      /\ UNCHANGED <<row, loaded, client, handler, link, typed>>
      /\ object' = [k \in Keys |-> IF k \in Allowed THEN put[n].config[k] ELSE object[k]]
      /\ channel' = Sent(object')
  BY DEF UpdateConfig
<1>2. /\ put[n].at = "written" /\ put'[n].at = "done"
      /\ DOMAIN put' = DOMAIN put /\ Len(put') = Len(put)
      /\ \A m \in DOMAIN put : m # n => put'[m] = put[m]
  BY Moves, DoneIs DEF UpdateConfig
<1>3. \A m \in DOMAIN put' : put'[m].at = "done"
  BY <1>1, <1>2 DEF FollowInv, LastActive
<1>4. Same(object', row)
  <2>1. Same(row, put[n].config)
    BY <1>1, <1>2 DEF FollowInv, PutFollows
  <2> QED
    BY <1>1, <2>1, PushedAllowed DEF Same
<1>5. link => LastIs(row)'
  <2>1. object' \in Config
    BY UpdateConfigTypes DEF TypeInv, TypeOK
  <2>2. ASSUME link PROVE channel' # <<>> /\ channel'[Len(channel')] = object'
    <3>1. channel' = Append(channel, object') /\ channel \in Seq(Config)
      BY <1>1, <2>2 DEF Sent, TypeInv, TypeOK
    <3> QED
      BY <2>1, <3>1
  <2> QED
    BY <1>1, <1>4, <2>2, PushedAllowed DEF LastIs, Same
<1>6. LastActive' /\ \A m \in DOMAIN put' : PutFollows(m)'
  BY <1>3 DEF LastActive, PutFollows
<1>7. Follows(object)'
  <2>1. row' = row
    BY <1>1
  <2>2. Same(object', row')
    BY <1>4, <2>1
  <2> QED
    BY <2>2 DEF Follows, Same
<1> QED
  BY <1>1, <1>5, <1>6, <1>7 DEF FollowInv, Same, Behind, Edits, Greeting

\* What is read from the row is the row, until a request writes it.
LEMMA LoadFollows ==
    ASSUME TypeInv, OldInv, FollowInv, AlarmLoads \/ Loaded \/ Connect PROVE FollowInv'
<1> SUFFICES ASSUME ~strayed' PROVE FollowInv'
  BY DEF FollowInv
<1>1. ~strayed /\ UNCHANGED <<row, put, typed, client, channel>>
  BY DEF AlarmLoads, Loaded, Connect, copies, requests, history
<1>2. Same(row, row)
  BY DEF Same
<1>3. (Written' <=> Written) /\ LastActive'
  BY <1>1 DEF Written, LastActive, FollowInv
<1>4. LastIs(row)' <=> LastIs(row)
  BY <1>1 DEF LastIs, Readable, Edits
<1>5. ASSUME NEW c PROVE Follows(c)' <=> Follows(c)
  BY <1>1, <1>3 DEF Follows, Same, Behind, Edits
<1>6. CASE AlarmLoads
  <2>1. /\ ~loaded /\ handler.at = "none" /\ handler'.at = "alarm" /\ handler'.config = row
        /\ UNCHANGED <<object, loaded, link>>
    BY <1>6 DEF AlarmLoads, copies
  <2>2. Follows(handler.config)'
    BY <1>1, <1>2, <2>1 DEF Follows, Same
  <2>3. \A n \in DOMAIN put' : PutFollows(n)'
    BY <1>1, <2>1 DEF FollowInv, PutFollows, Never, Same
  <2> QED
    BY <1>1, <1>3, <1>4, <2>1, <2>2, <2>3 DEF FollowInv, Greeting
<1>7. CASE Loaded
  <2>1. /\ handler.at \in {"load", "alarm"} /\ object' = handler.config /\ loaded'
        /\ handler'.at = (IF handler.at = "load" THEN "detect" ELSE "none")
        /\ UNCHANGED link
    BY <1>7 DEF Loaded
  <2>2. Follows(handler.config)
    BY <1>1, <2>1 DEF FollowInv
  <2>3. Follows(object)'
    BY <1>1, <1>3, <2>1, <2>2 DEF Follows, Same, Behind, Edits
  <2>4. \A n \in DOMAIN put' : PutFollows(n)'
    BY <1>1, <2>1 DEF FollowInv, PutFollows, Never, Same
  <2> QED
    BY <1>1, <1>3, <1>4, <2>1, <2>3, <2>4 DEF FollowInv, Greeting
<1>8. CASE Connect
  <2>1. /\ UNCHANGED <<object, loaded>> /\ handler.at = "none"
        /\ \/ loaded /\ handler'.at = "detect"
           \/ ~loaded /\ handler'.at = "load" /\ handler'.config = row
    BY <1>8 DEF Connect, copies
  <2>2. Follows(object)' <=> Follows(object)
    BY <1>1, <1>3, <2>1 DEF Follows, Same, Behind, Edits
  <2>3. handler'.at = "load" => Follows(handler.config)'
    BY <1>1, <1>2, <2>1 DEF Follows, Same
  <2>4. \A n \in DOMAIN put' : PutFollows(n)'
    BY <1>1, <2>1 DEF FollowInv, PutFollows, Never, Same
  <2>5. Greeting' /\ handler'.at \notin {"alarm", "write"}
    BY <2>1 DEF Greeting
  <2> QED
    BY <1>1, <1>3, <2>1, <2>2, <2>3, <2>4, <2>5 DEF FollowInv
<1> QED
  BY <1>6, <1>7, <1>8

\* The time zone detected is no edit, so a copy that is behind stays behind.
LEMMA DetectFollows == ASSUME TypeInv, OldInv, FollowInv, Detect PROVE FollowInv'
<1> SUFFICES ASSUME ~strayed' PROVE FollowInv'
  BY DEF FollowInv
<1>1. /\ ~strayed /\ handler.at = "detect" /\ loaded
      /\ UNCHANGED <<row, put, typed, client, channel, link, loaded>>
  BY DEF Detect, requests, history, TypeInv
<1>2. \/ object' = object
      \/ object' = [object EXCEPT !["timezone"] = Detected]
  BY DEF Detect
<1>3. \/ handler'.at = "write" /\ handler'.config = object'
      \/ handler'.at = "send"
  BY DEF Detect
<1>4. /\ Len(typed) \in Nat /\ Len(typed) <= MaxEdits /\ MaxEdits \in Nat
      /\ Len(put) = Len(typed) /\ object \in Config /\ row \in Config
      /\ DOMAIN put = 1..Len(typed)
  BY ConstantsOK DEF TypeInv, TypeOK
<1>5. \A k \in Keys : k \in Allowed => object'[k] = object[k]
  BY <1>2, <1>4 DEF Allowed, Config
<1>6. \A n \in Edits : Never(n, object) => Never(n, object')
  BY <1>2, <1>4 DEF Never, Edits, Detected, Config
<1>7. Behind(object) => Behind(object)'
  <2> SUFFICES ASSUME NEW k \in Keys, row[k] \in Edits, object[k] # row[k]
               PROVE  object'[k] # row[k]
    BY <1>1 DEF Behind, Edits
  <2> QED
    BY <1>2, <1>4 DEF Edits, Detected, Config
<1>8. (Written' <=> Written) /\ LastActive'
  BY <1>1 DEF Written, LastActive, FollowInv
<1>9. Follows(object)
  BY <1>1 DEF FollowInv
<1>10. Follows(object)'
  BY <1>1, <1>5, <1>7, <1>8, <1>9, PushedAllowed DEF Follows, Same
<1>11. handler'.at = "write" => Same(handler.config, row)' \/ Behind(handler.config)'
  BY <1>3, <1>10 DEF Follows, Same, Behind
<1>12. ASSUME NEW n \in DOMAIN put' PROVE PutFollows(n)'
  <2>1. n \in Edits
    BY <1>1, <1>4 DEF Edits
  <2>2. PutFollows(n)
    BY <1>1 DEF FollowInv
  <2> QED
    BY <1>1, <1>3, <1>6, <2>1, <2>2 DEF PutFollows, Never, Same
<1>13. Greeting' /\ handler'.at \notin {"load", "alarm"}
  BY <1>3 DEF Greeting
<1> QED
  BY <1>8, <1>10, <1>11, <1>12, <1>13 DEF FollowInv

\* What is written back is the row, where it is not behind.
LEMMA WriteBackFollows == ASSUME TypeInv, OldInv, FollowInv, WriteBack PROVE FollowInv'
<1> SUFFICES ASSUME ~strayed' PROVE FollowInv'
  BY DEF FollowInv
<1>1. /\ ~strayed /\ handler.at = "write" /\ loaded /\ row' = handler.config
      /\ handler'.at = "send"
      /\ UNCHANGED <<object, put, typed, client, channel, link, loaded>>
  BY DEF WriteBack, requests, TypeInv
<1>2. \A k \in Keys : row[k] \in Edits => row'[k] = row[k]
  BY DEF WriteBack
<1>3. Same(handler.config, row) /\ Same(row', row)
  BY <1>1, <1>2 DEF FollowInv, Behind, Same
<1>4. Behind(object) => Behind(object)'
  BY <1>1, <1>2 DEF Behind, Edits
<1>5. (Written' <=> Written) /\ LastActive'
  BY <1>1 DEF Written, LastActive, FollowInv
<1>6. Follows(object)'
  BY <1>1, <1>3, <1>4, <1>5 DEF FollowInv, Follows, Same
<1>7. ASSUME NEW n \in DOMAIN put' PROVE PutFollows(n)'
  BY <1>1, <1>3 DEF FollowInv, PutFollows, Never, Same
<1>8. Greeting' /\ handler'.at \notin {"load", "alarm", "write"}
  BY <1>1 DEF Greeting
<1> QED
  BY <1>5, <1>6, <1>7, <1>8 DEF FollowInv

\* The greeting carries the loaded configuration.
LEMMA GreetFollows == ASSUME TypeInv, OldInv, FollowInv, Greet PROVE FollowInv'
<1> SUFFICES ASSUME ~strayed' PROVE FollowInv'
  BY DEF FollowInv
<1>1. /\ ~strayed /\ handler.at = "send" /\ loaded /\ handler'.at = "none"
      /\ channel' = Sent(object)
      /\ UNCHANGED <<row, object, put, typed, client, link, loaded>>
  BY DEF Greet, Greeted, copies, requests, history, TypeInv
<1>2. (Written' <=> Written) /\ LastActive'
  BY <1>1 DEF Written, LastActive, FollowInv
<1>3. Follows(object) /\ Follows(object)'
  BY <1>1, <1>2 DEF FollowInv, Follows, Same, Behind, Edits
<1>4. ASSUME link, ~Written PROVE LastIs(row)'
  <2>1. Same(object, row)
    BY <1>3, <1>4 DEF Follows
  <2>2. channel' # <<>> /\ channel'[Len(channel')] = object
    <3>1. channel' = Append(channel, object) /\ channel \in Seq(Config) /\ object \in Config
      BY <1>1, <1>4 DEF Sent, TypeInv, TypeOK
    <3> QED
      BY <3>1
  <2> QED
    BY <1>1, <2>1, <2>2, PushedAllowed DEF LastIs, Same
<1>5. \A n \in DOMAIN put' : PutFollows(n)'
  BY <1>1 DEF FollowInv, PutFollows, Never, Same
<1> QED
  BY <1>1, <1>2, <1>3, <1>4, <1>5 DEF FollowInv

\* The object forgets its copy.
LEMMA HibernateFollows == ASSUME TypeInv, OldInv, FollowInv, Hibernate PROVE FollowInv'
<1> SUFFICES ASSUME ~strayed' PROVE FollowInv'
  BY DEF FollowInv
<1>1. /\ ~strayed /\ handler.at = "none" /\ ~loaded' /\ object' = Default
      /\ UNCHANGED <<row, handler, put, typed, client, channel, link>>
  BY DEF Hibernate, handlers, requests, history
<1>2. \A n \in DOMAIN put : Never(n, Default)
  BY DEF Never, Default, TypeInv
<1>3. \A n \in DOMAIN put' : PutFollows(n)'
  BY <1>1, <1>2 DEF FollowInv, PutFollows, Never, Same
<1> QED
  BY <1>1, <1>3 DEF FollowInv, LastActive, Written, Greeting, LastIs, Readable, Edits

\* The daemon takes the messages over in their order, and what it cannot read
\* is not what is asked of it.
LEMMA ApplyFollows == ASSUME TypeInv, OldInv, FollowInv, Apply PROVE FollowInv'
<1> SUFFICES ASSUME ~strayed' PROVE FollowInv'
  BY DEF FollowInv
<1>1. /\ ~strayed /\ channel # <<>> /\ link
      /\ UNCHANGED <<row, object, loaded, handler, put, typed>>
  BY DEF Apply, requests, history, TypeInv
<1>2. /\ LastActive' /\ (Written' <=> Written) /\ (Greeting' <=> Greeting)
      /\ \A n \in DOMAIN put' : PutFollows(n)'
  BY <1>1 DEF FollowInv, LastActive, Written, Greeting, PutFollows, Never, Same
<1>3. ASSUME link', ~Greeting, ~Written PROVE LastIs(row)'
  <2>1. LastIs(row)
    BY <1>1, <1>3 DEF FollowInv
  <2>2. /\ channel' = Tail(channel)
        /\ Readable(Head(channel)) => client' = [k \in Pushed |-> Head(channel)[k]]
        /\ ~Readable(Head(channel)) => client' = client
    BY <1>3 DEF Apply
  <2>3. channel \in Seq(Config)
    BY DEF TypeInv, TypeOK
  <2>4. CASE Len(channel) = 1
    <3>1. channel' = <<>> /\ Head(channel) = channel[Len(channel)]
      BY <1>1, <2>2, <2>3, <2>4
    <3>2. \A k \in Pushed : Head(channel)[k] = row[k]
      BY <1>1, <2>1, <3>1 DEF LastIs
    <3>3. Readable(row)' => Readable(Head(channel))
      BY <1>1, <3>2 DEF Readable, Edits
    <3> QED
      BY <1>1, <2>2, <3>1, <3>2, <3>3 DEF LastIs
  <2>5. CASE Len(channel) # 1
    <3>1. channel' # <<>> /\ channel'[Len(channel')] = channel[Len(channel)]
      <4>1. Len(channel) \in Nat /\ Len(channel) > 1
        <5>1. Len(channel) \in Nat /\ Len(channel) # 0
          BY <1>1, <2>3
        <5>2. \A i \in Nat : i # 0 /\ i # 1 => i > 1
          OBVIOUS
        <5> QED
          BY <2>5, <5>1, <5>2
      <4>2. Len(channel') = Len(channel) - 1 /\ channel' \in Seq(Config)
        BY <2>2, <2>3, <4>1
      <4>3. channel'[Len(channel) - 1] = channel[Len(channel)]
        BY <2>2, <2>3, <4>1
      <4> QED
        BY <4>1, <4>2, <4>3
    <3> QED
      BY <1>1, <2>1, <3>1 DEF LastIs
  <2> QED
    BY <2>4, <2>5
<1> QED
  BY <1>1, <1>2, <1>3 DEF FollowInv, Follows, Same, Behind, Edits

\* Every step keeps the copies on the row, or marks that it does not.
LEMMA FollowStep == ASSUME TypeInv, OldInv, FollowInv, [Next]_vars PROVE FollowInv'
<1>1. ASSUME UNCHANGED <<row, object, loaded, handler, channel, client, put, typed, strayed>>,
             link' => link
      PROVE FollowInv'
  BY <1>1 DEF FollowInv, LastActive, PutFollows, Never, Follows, Same, Behind, Edits, Written,
              Greeting, LastIs, Readable
<1>2. CASE UNCHANGED vars
  BY <1>1, <1>2 DEF vars, copies, handlers, requests, history
<1>3. CASE Next
  <2>1. ASSUME NEW t \in Tabs, NEW page \in Pages, Open(t, page) PROVE FollowInv'
    BY <1>1, <2>1 DEF Open, copies, handlers, history
  <2>2. ASSUME NEW t \in Tabs, EditorRemounts(t) PROVE FollowInv'
    BY <1>1, <2>2 DEF EditorRemounts, copies, handlers, history
  <2>3. ASSUME NEW t \in Tabs, NEW k \in Keys, NEW what \in Kinds, Submit(t, k, what) PROVE FollowInv'
    BY <2>3, SubmitFollows
  <2>4. CASE DefaultThreshold \/ \E n \in DOMAIN put : UpdateConfigFails(n)
    BY <2>4 DEF DefaultThreshold, UpdateConfigFails, FollowInv
  <2>5. ASSUME NEW n \in DOMAIN put, Read(n) \/ Write(n) \/ UpdateConfig(n)
        PROVE  FollowInv'
    BY <2>5, ReadFollows, WriteFollows, UpdateConfigFollows
  <2>6. CASE Disconnect
    BY <2>6 DEF Disconnect, copies, requests, history, FollowInv, LastActive, PutFollows, Never,
                Follows, Same, Behind, Edits, Written
  <2> QED
    BY <1>3, <2>1, <2>2, <2>3, <2>4, <2>5, <2>6, LoadFollows, DetectFollows, WriteBackFollows,
       GreetFollows, HibernateFollows, ApplyFollows DEF Next
<1> QED
  BY <1>2, <1>3

\* At the start nothing is loaded and nobody connected.
LEMMA FollowInit == ASSUME Init PROVE FollowInv
<1>1. /\ DOMAIN put = {} /\ channel = <<>> /\ ~link /\ ~loaded /\ handler.at = "none"
  BY DEF Init
<1> QED
  BY <1>1 DEF FollowInv, LastActive

\* When nothing is on its way, the object works with the row, and the daemon with
\* what the object has, if it is connected and can read it: the greeting brings
\* it what changed while it was away (fetch, ensureConfigLoaded, update_config).
THEOREM CopiesFollowRow == Spec => []CopiesFollow
<1>1. Init => TypeInv /\ OldInv /\ FollowInv
  BY TypeInit, OldInit, FollowInit
<1>2. TypeInv /\ OldInv /\ FollowInv /\ [Next]_vars => (TypeInv /\ OldInv /\ FollowInv)'
  BY TypeStep, OldStep, FollowStep
<1>3. TypeInv /\ FollowInv => CopiesFollow
  <2> SUFFICES ASSUME TypeInv, FollowInv, Quiet, loaded, ~strayed
               PROVE  /\ \A k \in Keys \ {"timezone"} : object[k] = row[k]
                      /\ (link /\ channel = <<>> /\ Readable(object)) =>
                           \A k \in Pushed : client[k] = object[k]
    BY DEF CopiesFollow, TypeInv
  <2>1. ~Written /\ ~Greeting
    BY DEF Quiet, Idle, Written, Greeting
  <2>2. Same(object, row)
    BY <2>1 DEF FollowInv, Follows
  <2>3. ASSUME link, channel = <<>>, Readable(object)
        PROVE  \A k \in Pushed : client[k] = object[k]
    <3>1. \A k \in Pushed : object[k] = row[k]
      BY <2>2, PushedAllowed DEF Same
    <3>2. LastIs(row)
      BY <2>1, <2>3 DEF FollowInv
    <3>3. Readable(row)
      BY <2>3, <3>1 DEF Readable
    <3> QED
      BY <2>3, <3>1, <3>2, <3>3 DEF LastIs
  <2> QED
    BY <2>2, <2>3 DEF Same, Allowed
<1> QED
  BY <1>1, <1>2, <1>3, PTL DEF Spec
=============================================================================
