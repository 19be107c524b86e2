---------------------------- MODULE CampaignTags ----------------------------
(***************************************************************************)
(* Campaigns, the vehicle models they cover with their formulas, and the   *)
(* tag and the frozen subsidy of each sale (campaigns.service.ts,          *)
(* campaign-formulas.service.ts, the campaign half of sales.service.ts,    *)
(* and deleteVehicle of vehicles.service.ts).                              *)
(*                                                                         *)
(* A campaign counts the sales that carry its tag, under the model of each *)
(* sale; a sale whose model the campaign no longer has is not reported.    *)
(* Tags are set when a sale is made, and later, sale by sale, whenever a   *)
(* campaign is activated or gets a model.                                  *)
(*                                                                         *)
(* Handlers that read before they write are Begin and Commit actions, the  *)
(* others one step.  Status of a sale is reduced to live and cancelled, a  *)
(* formula to whether a model has any, a subsidy to the campaign whose     *)
(* formulas it was computed from.                                          *)
(***************************************************************************)
EXTENDS Integers, FiniteSets

CONSTANTS
    Campaign, Model, Car, Sale,   \* ids of rows: bounds how many there are
    Worker,                       \* requests the API serves at the same time
    Days,                         \* business dates of sales
    Windows,                      \* <<startDate, endDate>> of campaigns
    Forms,                        \* statuses the campaign form sends
    NoCampaign, NoModel, NoCar,   \* SQL NULL
    Overlap                       \* may requests that touch the same rows overlap?

ASSUME CampaignNulls == NoCampaign \notin Campaign /\ NoModel \notin Model /\ NoCar \notin Car
ASSUME CampaignDates ==
    /\ Days \subseteq Int /\ Windows \subseteq Int \X Int
    /\ \A w \in Windows : w[1] <= w[2]
ASSUME CampaignSwitches == Overlap \in BOOLEAN /\ Forms \subseteq {"DRAFT", "ACTIVE", "ENDED"}

VARIABLES
    catalog,    \* the vehicle_models rows
    car,        \* Stock.vehicleModelId and whether deletedAt is set
    campaign,   \* status, dates and campaign_vehicle_models of each campaign
    priced,     \* the models of each campaign that have formulas
    sale,       \* the columns of sales that matter to campaigns
    inflight    \* what each worker's request has read and was asked

vars == <<catalog, car, campaign, priced, sale, inflight>>
rows == <<catalog, car, campaign, priced, sale>>
-----------------------------------------------------------------------------
CarRow == [state : {"none", "live", "deleted"}, model : Model \cup {NoModel}]
NoCarRow == [state |-> "none", model |-> NoModel]

Statuses == {"DRAFT", "ACTIVE", "ENDED"}
CampaignRow == [status : Statuses \cup {"none"}, from : Int, to : Int, models : SUBSET Model]
NoCampaignRow == [status |-> "none", from |-> 0, to |-> 0, models |-> {}]

SaleRow == [state : {"none", "live", "cancelled"}, day : Int, car : Car \cup {NoCar},
            model : Model \cup {NoModel}, tag : Campaign \cup {NoCampaign},
            subsidy : Campaign \cup {NoCampaign}]
NoSaleRow == [state |-> "none", day |-> 0, car |-> NoCar, model |-> NoModel,
              tag |-> NoCampaign, subsidy |-> NoCampaign]

Saved(c) == campaign[c].status # "none"
Live(s) == sale[s].state = "live"
Sellable(k) == car[k].state = "live" /\ \A s \in Sale : sale[s].car # k

\* campaignDay and campaignWindow
Covers(c, day) == campaign[c].from <= day /\ day <= campaign[c].to

\* The model a sale counts under: that of its car, or else its own.
Effective(s) == IF sale[s].car # NoCar THEN car[sale[s].car].model ELSE sale[s].model

\* computeSaleSubsidySnapshot
Subsidy(c, m, k) == IF m = NoModel /\ k = NoCar THEN NoCampaign ELSE c

Ops == {"idle", "createSale", "updateSale", "update", "tag", "delete", "deleteVehicle"}
SaleOps == {"createSale", "updateSale", "onSale"}

\* The request, the id of its row, the sale or the campaign it will write, the
\* model set it read, and the sales it has still to tag; mode says whether it swaps
\* the car, keeps the model set, or has read its candidates.
Idle == [op |-> "idle", sale |-> NoSaleRow, id |-> NoCampaign, row |-> NoCampaignRow,
         current |-> {}, todo |-> {}, mode |-> "plain"]

\* Two requests that may disturb one another: on one sale, on one campaign, of a
\* sale and a campaign, or anything and the catalogue.
Collide(q, op, id) ==
    /\ q.op # "idle"
    /\ \/ "deleteVehicle" \in {q.op, op}
       \/ q.id = id
       \/ (q.op \in SaleOps) # (op \in SaleOps)

Alone(op, id) == Overlap \/ \A w \in Worker : ~Collide(inflight[w], op, id)

Begin(w, r) ==
    /\ inflight[w] = Idle
    /\ Alone(r.op, r.id)
    /\ inflight' = [inflight EXCEPT ![w] = r]
    /\ UNCHANGED rows

Then(w, r) == inflight' = [inflight EXCEPT ![w] = r]
Finish(w) == Then(w, Idle)

\* The handler throws, or the process dies: what it has not written is lost.
FailRequest(w) ==
    /\ inflight[w] # Idle
    /\ Finish(w)
    /\ UNCHANGED rows
-----------------------------------------------------------------------------
\* createSale: the model is that of the car; the campaign is the one named, if it
\* runs on the day of the sale, or else the latest that covers the model.
AutoTags(m, day) ==
    LET active == {c \in Campaign : campaign[c].status = "ACTIVE" /\ Covers(c, day)
                                    /\ m \in campaign[c].models}
    IN  {c \in active : \A d \in active : campaign[d].from <= campaign[c].from}

BeginCreateSale(w, s, k, preferred, day, named) ==
    LET m == IF k = NoCar THEN preferred ELSE car[k].model
        tags == IF named # NoCampaign THEN {named}
                ELSE IF AutoTags(m, day) = {} THEN {NoCampaign} ELSE AutoTags(m, day)
    IN
    /\ sale[s].state = "none"
    /\ k # NoCar => Sellable(k)
    /\ m # NoModel => m \in catalog
    /\ named # NoCampaign => campaign[named].status = "ACTIVE" /\ Covers(named, day)
    /\ \E c \in tags :
          Begin(w, [Idle EXCEPT !.op = "createSale", !.id = s,
                    !.sale = [state |-> "live", day |-> day, car |-> k, model |-> m,
                              tag |-> c, subsidy |-> Subsidy(c, m, k)]])

\* The insert, which names rows that must still be there, with the claim of the car.
CommitCreateSale(w) ==
    LET r == inflight[w] new == r.sale IN
    /\ r.op = "createSale"
    /\ sale[r.id].state = "none"
    /\ new.car # NoCar => Sellable(new.car)
    /\ new.model # NoModel => new.model \in catalog
    /\ new.tag # NoCampaign => Saved(new.tag)
    /\ sale' = [sale EXCEPT ![r.id] = new]
    /\ Finish(w)
    /\ UNCHANGED <<catalog, car, campaign, priced>>

\* convertToSale names no campaign and looks for none.
ConvertToSale(s, k, m, day) ==
    /\ Alone("onSale", s)
    /\ sale[s].state = "none"
    /\ k # NoCar => car[k].state # "none" /\ \A t \in Sale : sale[t].car # k
    /\ m # NoModel => m \in catalog
    /\ sale' = [sale EXCEPT ![s] = [state |-> "live", day |-> day, car |-> k, model |-> m,
                                    tag |-> NoCampaign, subsidy |-> NoCampaign]]
    /\ UNCHANGED <<catalog, car, campaign, priced, inflight>>

\* updateSale with the car, the model and the campaign the payload may carry; the
\* subsidy is always computed again, from the payload and the row as read.
BeginUpdateSale(w, s, k, m, c) ==
    LET unit == IF k # NoCar THEN k ELSE sale[s].car
        model == IF unit # NoCar /\ car[unit].state = "live" THEN car[unit].model ELSE m
        tag == IF c # NoCampaign THEN c ELSE sale[s].tag
        priceOf == IF model # NoModel THEN model ELSE sale[s].model
    IN
    /\ Live(s)
    /\ Begin(w, [Idle EXCEPT !.op = "updateSale", !.id = s, !.mode = IF k \in {NoCar, sale[s].car} THEN "plain" ELSE "swap",
                 !.sale = [state |-> "live", day |-> 0, car |-> k, model |-> model,
                           tag |-> c, subsidy |-> IF tag = NoCampaign THEN NoCampaign
                                                  ELSE Subsidy(tag, priceOf, unit)]])

\* Mutant: the subsidy of the row stays as it is.
CommitUpdateSaleKeepsSubsidy(w) ==
    LET r == inflight[w] s == r.id new == r.sale swap == r.mode = "swap" IN
    /\ r.op = "updateSale"
    /\ sale[s].state # "none"
    /\ swap => Sellable(new.car)
    /\ new.car # NoCar => car[new.car].state # "none"
    /\ new.tag # NoCampaign => Saved(new.tag)
    /\ new.model # NoModel => new.model \in catalog
    /\ sale' = [sale EXCEPT ![s].car = IF new.car # NoCar THEN new.car ELSE @,
                            ![s].model = IF new.model # NoModel THEN new.model ELSE @,
                            ![s].tag = IF new.tag # NoCampaign THEN new.tag ELSE @]
    /\ Finish(w)
    /\ UNCHANGED <<catalog, car, campaign, priced>>

\* The columns of the payload, written by id; another car is claimed, and its
\* model read again.
CommitUpdateSale(w) ==
    LET r == inflight[w] s == r.id new == r.sale swap == r.mode = "swap"
        model == IF swap THEN car[new.car].model ELSE new.model
    IN
    /\ r.op = "updateSale"
    /\ sale[s].state # "none"
    /\ swap => Sellable(new.car)
    /\ new.car # NoCar => /\ car[new.car].state # "none"
                          /\ \A t \in Sale \ {s} : sale[t].car # new.car
    /\ new.tag # NoCampaign => Saved(new.tag)
    /\ model # NoModel => model \in catalog
    /\ sale' = [sale EXCEPT ![s].car = IF new.car # NoCar THEN new.car ELSE @,
                            ![s].model = IF model # NoModel THEN model ELSE @,
                            ![s].tag = IF new.tag # NoCampaign THEN new.tag ELSE @,
                            ![s].subsidy = new.subsidy]
    /\ Finish(w)
    /\ UNCHANGED <<catalog, car, campaign, priced>>

\* assignStock: another car, its model, and nothing of the campaign.
AssignStock(s, k) ==
    /\ Alone("onSale", s)
    /\ Live(s) /\ Sellable(k)
    /\ sale' = [sale EXCEPT ![s].car = k, ![s].model = car[k].model]
    /\ UNCHANGED <<catalog, car, campaign, priced, inflight>>

\* updateSaleStatus to CANCELLED lets go of the car.
CancelSale(s) ==
    /\ Alone("onSale", s)
    /\ Live(s)
    /\ sale' = [sale EXCEPT ![s].state = "cancelled", ![s].car = NoCar]
    /\ UNCHANGED <<catalog, car, campaign, priced, inflight>>

DeleteSale(s) ==
    /\ Alone("onSale", s)
    /\ sale[s].state # "none"
    /\ sale' = [sale EXCEPT ![s] = NoSaleRow]
    /\ UNCHANGED <<catalog, car, campaign, priced, inflight>>
-----------------------------------------------------------------------------
\* tagRetroactiveSales of campaign c, the tail of three handlers.
Tagging(c) == [Idle EXCEPT !.op = "tag", !.id = c]

\* create, straight into ACTIVE or as a draft.
CreateCampaign(w, c, row) ==
    /\ inflight[w] = Idle /\ Alone("tag", c)
    /\ ~Saved(c) /\ row.models \subseteq catalog
    /\ campaign' = [campaign EXCEPT ![c] = row]
    /\ IF row.status = "ACTIVE" THEN Then(w, Tagging(c)) ELSE UNCHANGED inflight
    /\ UNCHANGED <<catalog, car, priced, sale>>

\* duplicate: a draft with the models and formulas of another campaign.
Duplicate(c, source, window) ==
    /\ Alone("tag", c) /\ Alone("tag", source)
    /\ Saved(source) /\ ~Saved(c)
    /\ campaign' = [campaign EXCEPT ![c] = [status |-> "DRAFT", from |-> window[1], to |-> window[2],
                                            models |-> campaign[source].models]]
    /\ priced' = [priced EXCEPT ![c] = priced[source]]
    /\ UNCHANGED <<catalog, car, sale, inflight>>

\* Mutant: the guard looks at the model of the sale, not of its car.
OrphansBySaleModel(c, models) ==
    {s \in Sale : Live(s) /\ sale[s].tag = c /\ sale[s].model \notin models \cup {NoModel}}

\* update: the orphan guard, and the model set the diff will be made against.
Orphans(c, models) ==
    {s \in Sale : Live(s) /\ sale[s].tag = c /\ Effective(s) \notin models \cup {NoModel}}

BeginUpdateCampaign(w, c, row, mode) ==
    /\ Saved(c)
    /\ mode = "keep" \/ Orphans(c, row.models) = {}
    /\ Begin(w, [Idle EXCEPT !.op = "update", !.id = c, !.row = row, !.mode = mode,
                 !.current = campaign[c].models])

\* Mutant: all rows of the model set are deleted and created anew.
ModelsRecreated(c, r) ==
    /\ campaign' = [campaign EXCEPT ![c] = r.row]
    /\ priced' = [priced EXCEPT ![c] = {}]

\* Mutant: the formulas of the rows that are removed stay.
ModelsLeaveFormulas(c, r) ==
    LET kept == campaign[c].models \ (r.current \ r.row.models)
    IN  /\ r.row.models \ r.current \subseteq catalog \ kept
        /\ campaign' = [campaign EXCEPT ![c] = [r.row EXCEPT !.models = kept \cup (r.row.models \ r.current)]]
        /\ UNCHANGED priced

\* diffModelSet against the set that was read; rows that are removed take their
\* formulas along, a row that is there already or a model that is gone refuses.
ModelsChanged(c, r) ==
    LET kept == campaign[c].models \ (r.current \ r.row.models)
    IN  /\ r.row.models \ r.current \subseteq catalog \ kept
        /\ campaign' = [campaign EXCEPT ![c] = [r.row EXCEPT !.models = kept \cup (r.row.models \ r.current)]]
        /\ priced' = [priced EXCEPT ![c] = @ \cap kept]

CommitUpdateCampaign(w) ==
    LET r == inflight[w] c == r.id IN
    /\ r.op = "update" /\ Saved(c)
    /\ \/ r.mode # "keep" /\ ModelsChanged(c, r)
       \/ /\ r.mode = "keep"
          /\ campaign' = [campaign EXCEPT ![c] = [r.row EXCEPT !.models = campaign[c].models]]
          /\ UNCHANGED priced
    /\ Then(w, Tagging(c))
    /\ UNCHANGED <<catalog, car, sale>>

\* Mutant: the models of the cars are not asked.
CandidatesByModel(c) ==
    {s \in Sale : Live(s) /\ sale[s].tag = NoCampaign /\ Covers(c, sale[s].day)
                  /\ sale[s].model \in campaign[c].models}

\* Untagged live sales of the campaign's models in its window.
Candidates(c) ==
    {s \in Sale : Live(s) /\ sale[s].tag = NoCampaign /\ Covers(c, sale[s].day)
                  /\ Effective(s) \in campaign[c].models}

BeginTagging(w) ==
    LET r == inflight[w] IN
    /\ r.op = "tag" /\ r.mode = "plain"
    /\ IF campaign[r.id].status = "ACTIVE"
       THEN Then(w, [r EXCEPT !.mode = "read", !.todo = Candidates(r.id)])
       ELSE Finish(w)
    /\ UNCHANGED rows

\* One candidate is tagged by id, whatever its row says by now.
TagSale(w) ==
    LET r == inflight[w] IN
    /\ r.op = "tag"
    /\ \E s \in r.todo :
          /\ sale[s].state # "none" /\ Saved(r.id)
          /\ sale' = [sale EXCEPT ![s].tag = r.id, ![s].subsidy = r.id]
          /\ Then(w, [r EXCEPT !.todo = @ \ {s}])
    /\ UNCHANGED <<catalog, car, campaign, priced>>

EndTagging(w) ==
    /\ inflight[w].op = "tag" /\ inflight[w].mode = "read" /\ inflight[w].todo = {}
    /\ Finish(w)
    /\ UNCHANGED rows

\* delete: refused while live sales claim the campaign; others lose their tag.
BeginDeleteCampaign(w, c) ==
    /\ Saved(c)
    /\ ~\E s \in Sale : Live(s) /\ sale[s].tag = c
    /\ Begin(w, [Idle EXCEPT !.op = "delete", !.id = c])

CommitDeleteCampaign(w) ==
    LET c == inflight[w].id IN
    /\ inflight[w].op = "delete" /\ Saved(c)
    /\ campaign' = [campaign EXCEPT ![c] = NoCampaignRow]
    /\ priced' = [priced EXCEPT ![c] = {}]
    /\ sale' = [s \in Sale |-> [sale[s] EXCEPT !.tag = IF @ = c THEN NoCampaign ELSE @]]
    /\ Finish(w)
    /\ UNCHANGED <<catalog, car>>

AddVehicleModel(w, c, m) ==
    /\ inflight[w] = Idle /\ Alone("tag", c)
    /\ Saved(c) /\ m \in catalog \ campaign[c].models
    /\ campaign' = [campaign EXCEPT ![c].models = @ \cup {m}]
    /\ Then(w, Tagging(c))
    /\ UNCHANGED <<catalog, car, priced, sale>>

\* removeVehicleModel looks at no sale.
RemoveVehicleModel(c, m) ==
    /\ Alone("tag", c)
    /\ m \in campaign[c].models
    /\ campaign' = [campaign EXCEPT ![c].models = @ \ {m}]
    /\ priced' = [priced EXCEPT ![c] = @ \ {m}]
    /\ UNCHANGED <<catalog, car, sale, inflight>>

\* The first formula of a model is saved, or its last one deleted.
EditFormulas(c, m) ==
    /\ Alone("tag", c)
    /\ \/ m \in campaign[c].models \ priced[c] /\ priced' = [priced EXCEPT ![c] = @ \cup {m}]
       \/ m \in priced[c] /\ priced' = [priced EXCEPT ![c] = @ \ {m}]
    /\ UNCHANGED <<catalog, car, campaign, sale, inflight>>
-----------------------------------------------------------------------------
CreateCar(k, m) ==
    /\ Alone("onSale", NoCar)
    /\ car[k].state = "none" /\ m \in catalog
    /\ car' = [car EXCEPT ![k] = [state |-> "live", model |-> m]]
    /\ UNCHANGED <<catalog, campaign, priced, sale, inflight>>

\* updateStock may correct the model of a car; sales are not looked at.
ChangeCarModel(k, m) ==
    /\ Alone("onSale", NoCar)
    /\ car[k].state # "none" /\ m \in catalog \ {car[k].model}
    /\ car' = [car EXCEPT ![k].model = m]
    /\ UNCHANGED <<catalog, campaign, priced, sale, inflight>>

\* deleteStock, of a car that is not sold; a sale keeps its link.
SoftDeleteCar(k) ==
    /\ Alone("onSale", NoCar)
    /\ car[k].state = "live"
    /\ car' = [car EXCEPT ![k].state = "deleted"]
    /\ UNCHANGED <<catalog, campaign, priced, sale, inflight>>

\* deleteVehicle: refused while a live car or a sale has the model ...
BeginDeleteVehicle(w, m) ==
    /\ m \in catalog
    /\ ~\E k \in Car : car[k].state = "live" /\ car[k].model = m
    /\ ~\E s \in Sale : sale[s].state # "none" /\ sale[s].model = m
    /\ Begin(w, [Idle EXCEPT !.op = "deleteVehicle", !.current = {m}])

\* ... then formulas, campaign rows, links to soft-deleted cars and those cars go,
\* and last the model, unless a live car has come meanwhile.
CommitDeleteVehicle(w) ==
    LET m == CHOOSE x \in inflight[w].current : TRUE
        purged == {k \in Car : car[k].state = "deleted" /\ car[k].model = m}
    IN
    /\ inflight[w].op = "deleteVehicle"
    /\ m \in catalog
    /\ ~\E k \in Car : car[k].state = "live" /\ car[k].model = m
    /\ catalog' = catalog \ {m}
    /\ priced' = [c \in Campaign |-> priced[c] \ {m}]
    /\ campaign' = [c \in Campaign |-> [campaign[c] EXCEPT !.models = @ \ {m}]]
    /\ sale' = [s \in Sale |-> [sale[s] EXCEPT !.car = IF @ \in purged THEN NoCar ELSE @,
                                               !.model = IF @ = m THEN NoModel ELSE @]]
    /\ car' = [k \in Car |-> IF k \in purged THEN NoCarRow ELSE car[k]]
    /\ Finish(w)

Init ==
    /\ catalog = Model
    /\ car = [k \in Car |-> NoCarRow]
    /\ campaign = [c \in Campaign |-> NoCampaignRow]
    /\ priced = [c \in Campaign |-> {}]
    /\ sale = [s \in Sale |-> NoSaleRow]
    /\ inflight = [w \in Worker |-> Idle]

CampaignForms == {[status |-> st, from |-> win[1], to |-> win[2], models |-> ms] :
                    st \in Forms, win \in Windows, ms \in SUBSET Model}

SaleRequest(w, s) ==
    \/ \E k \in Car \cup {NoCar}, m \in Model \cup {NoModel}, c \in Campaign \cup {NoCampaign} :
          \/ \E day \in Days : BeginCreateSale(w, s, k, m, day, c)
          \/ BeginUpdateSale(w, s, k, m, c)
    \/ \E k \in Car \cup {NoCar}, m \in Model \cup {NoModel}, day \in Days : ConvertToSale(s, k, m, day)
    \/ \E k \in Car : AssignStock(s, k)
    \/ CancelSale(s) \/ DeleteSale(s)

CampaignRequest(w, c) ==
    \/ \E row \in CampaignForms :
          \/ row.status # "ENDED" /\ CreateCampaign(w, c, row)
          \/ BeginUpdateCampaign(w, c, row, "plain")
          \/ row.models = {} /\ BeginUpdateCampaign(w, c, row, "keep")
    \/ \E source \in Campaign, window \in Windows : Duplicate(c, source, window)
    \/ BeginDeleteCampaign(w, c)
    \/ \E m \in Model : AddVehicleModel(w, c, m) \/ RemoveVehicleModel(c, m) \/ EditFormulas(c, m)

CatalogueRequest(w) ==
    \/ \E k \in Car : SoftDeleteCar(k) \/ \E m \in Model : CreateCar(k, m) \/ ChangeCarModel(k, m)
    \/ \E m \in Model : BeginDeleteVehicle(w, m)

Next ==
    \E w \in Worker :
       \/ \E s \in Sale : SaleRequest(w, s)
       \/ \E c \in Campaign : CampaignRequest(w, c)
       \/ CatalogueRequest(w)
       \/ CommitCreateSale(w) \/ CommitUpdateSale(w)
       \/ CommitUpdateCampaign(w) \/ BeginTagging(w) \/ TagSale(w) \/ EndTagging(w)
       \/ CommitDeleteCampaign(w) \/ CommitDeleteVehicle(w)
       \/ FailRequest(w)

Spec == Init /\ [][Next]_vars
-----------------------------------------------------------------------------
\* The rows keep their types and their foreign keys: no tag of a campaign that is
\* gone, no formula of a model its campaign has not.
TypeOK ==
    /\ catalog \subseteq Model
    /\ car \in [Car -> CarRow] /\ \A k \in Car : car[k].model \in catalog \cup {NoModel}
    /\ campaign \in [Campaign -> CampaignRow] /\ sale \in [Sale -> SaleRow]
    /\ \A c \in Campaign : campaign[c].models \subseteq catalog /\ priced[c] \subseteq campaign[c].models
    /\ \A s \in Sale : sale[s].tag # NoCampaign => Saved(sale[s].tag)
    /\ \A w \in Worker : inflight[w].op \in Ops

Reported(s) == Live(s) /\ sale[s].tag # NoCampaign /\ Effective(s) \in campaign[sale[s].tag].models

\* Editing a campaign never drops a sale from its report, however the sale came by
\* its tag, its car and its model.
UpdateStep ==
    \A w \in Worker : inflight[w].op = "update" /\ inflight'[w].op = "tag"
       => \A s \in Sale : Reported(s) => Reported(s)'
UpdateKeepsReport == [][UpdateStep]_vars

\* Editing a campaign leaves the formulas of the models that stay.
FormulaStep ==
    \A w \in Worker : inflight[w].op = "update" /\ inflight'[w].op = "tag"
       => LET c == inflight[w].id IN priced'[c] = priced[c] \cap campaign'[c].models
FormulasKept == [][FormulaStep]_vars

\* Once a campaign is activated or has a new model, no live sale it covers is
\* left without a tag.
ActivationTagsAll ==
    \A w \in Worker : LET r == inflight[w] IN
       r.op = "tag" /\ r.mode = "read" /\ r.todo = {} /\ campaign[r.id].status = "ACTIVE"
          => \A s \in Sale : Live(s) /\ Covers(r.id, sale[s].day) /\ Effective(s) \in campaign[r.id].models
                             => sale[s].tag # NoCampaign

\* The frozen subsidy of a live sale is that of the campaign it is tagged with.
SubsidyIsOfTheTag == \A s \in Sale : Live(s) /\ sale[s].subsidy # NoCampaign => sale[s].subsidy = sale[s].tag

\* A model is not taken from a campaign under a live sale that is reported under it.
InUseStep ==
    \A s \in Sale : Reported(s) /\ sale'[s] = sale[s] /\ car' = car => Reported(s)'
ModelsInUseStay == [][InUseStep]_vars

=============================================================================
