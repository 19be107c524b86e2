------------------------- MODULE CampaignTagsProofs --------------------------
(***************************************************************************)
(* The rows of campaigns, sales and cars keep their types and their        *)
(* foreign keys whatever overlaps, and so do the formulas of a campaign    *)
(* that is edited.  When requests that touch the same rows follow each     *)
(* other, the frozen subsidy is that of the tag, editing a campaign drops  *)
(* no sale from its report, and an activation leaves no sale untagged.     *)
(***************************************************************************)
EXTENDS CampaignTags, TLAPS

Requests == [op : Ops, sale : SaleRow, id : Sale \cup Campaign \cup {NoCampaign}, row : CampaignRow,
             current : SUBSET Model, todo : SUBSET Sale, mode : {"plain", "swap", "keep", "read"}]
Good(r) ==
    /\ r \in Requests
    /\ r.op \in {"createSale", "updateSale"} => r.id \in Sale
    /\ r.op \in {"update", "tag", "delete"} => r.id \in Campaign
    /\ r.op = "update" => r.row.status \in Statuses
    /\ r.op = "updateSale" /\ r.mode = "swap" => r.sale.car \in Car

CarsTyped == /\ catalog \subseteq Model /\ car \in [Car -> CarRow]
             /\ \A k \in Car : /\ car[k].model \in catalog \cup {NoModel}
                               /\ car[k].state = "none" => car[k].model = NoModel
CampaignsTyped == /\ campaign \in [Campaign -> CampaignRow] /\ priced \in [Campaign -> SUBSET Model]
                  /\ \A c \in Campaign : /\ campaign[c].models \subseteq catalog
                                         /\ priced[c] \subseteq campaign[c].models
                                         /\ ~Saved(c) => campaign[c].models = {}
SalesTyped == sale \in [Sale -> SaleRow]
TagsSaved == \A s \in Sale : sale[s].tag # NoCampaign => Saved(sale[s].tag)
InflightTyped == inflight \in [Worker -> Requests] /\ \A w \in Worker : Good(inflight[w])
Typed == CarsTyped /\ CampaignsTyped /\ SalesTyped /\ TagsSaved /\ InflightTyped

LEMMA TypedIsTypeOK == Typed => TypeOK
BY DEF Typed, TypeOK, CarsTyped, CampaignsTyped, SalesTyped, TagsSaved, InflightTyped, Requests

LEMMA NullRows == NoCarRow \in CarRow /\ NoCampaignRow \in CampaignRow /\ NoSaleRow \in SaleRow
BY DEF NoCarRow, CarRow, NoCampaignRow, CampaignRow, NoSaleRow, SaleRow

LEMMA IdleGood == /\ Idle \in Requests /\ Good(Idle) /\ Idle.op = "idle" /\ Idle.id = NoCampaign
                  /\ Idle.sale = NoSaleRow /\ Idle.row = NoCampaignRow /\ Idle.current = {}
                  /\ Idle.todo = {} /\ Idle.mode = "plain"
<1>1. Idle \in Requests
  BY NullRows DEF Idle, Requests, Ops
<1>2. QED BY <1>1 DEF Idle, Good

\* Requests as the handlers make them.
LEMMA Made ==
  /\ \A s \in Sale, r \in SaleRow : Good([Idle EXCEPT !.op = "createSale", !.id = s, !.sale = r])
  /\ \A s \in Sale, r \in SaleRow, m \in {"plain", "swap"} :
        (m = "swap" => r.car \in Car)
           => Good([Idle EXCEPT !.op = "updateSale", !.id = s, !.mode = m, !.sale = r])
  /\ \A c \in Campaign : Good(Tagging(c)) /\ Good([Idle EXCEPT !.op = "delete", !.id = c])
  /\ \A c \in Campaign, r \in CampaignRow, m \in {"plain", "keep"}, ms \in SUBSET Model :
        r.status \in Statuses
           => Good([Idle EXCEPT !.op = "update", !.id = c, !.row = r, !.mode = m, !.current = ms])
  /\ \A m \in Model : Good([Idle EXCEPT !.op = "deleteVehicle", !.current = {m}])
<1>1. \A s \in Sale, r \in SaleRow : Good([Idle EXCEPT !.op = "createSale", !.id = s, !.sale = r])
  BY NullRows DEF Good, Idle, Requests, Ops
<1>2. ASSUME NEW s \in Sale, NEW r \in SaleRow, NEW m \in {"plain", "swap"}, m = "swap" => r.car \in Car
      PROVE Good([Idle EXCEPT !.op = "updateSale", !.id = s, !.mode = m, !.sale = r])
  BY <1>2, NullRows DEF Good, Idle, Requests, Ops
<1>3. \A c \in Campaign : Good(Tagging(c)) /\ Good([Idle EXCEPT !.op = "delete", !.id = c])
  BY NullRows DEF Good, Tagging, Idle, Requests, Ops
<1>4. ASSUME NEW c \in Campaign, NEW r \in CampaignRow, NEW m \in {"plain", "keep"}, NEW ms \in SUBSET Model,
             r.status \in Statuses
      PROVE Good([Idle EXCEPT !.op = "update", !.id = c, !.row = r, !.mode = m, !.current = ms])
  BY <1>4, NullRows DEF Good, Idle, Requests, Ops
<1>5. \A m \in Model : Good([Idle EXCEPT !.op = "deleteVehicle", !.current = {m}])
  BY NullRows DEF Good, Idle, Requests, Ops
<1>6. QED BY <1>1, <1>2, <1>3, <1>4, <1>5

LEMMA PutTyped ==
  ASSUME InflightTyped, NEW w \in Worker, NEW q, Good(q), inflight' = [inflight EXCEPT ![w] = q]
  PROVE  InflightTyped'
BY DEF InflightTyped, Good

LEMMA EndTyped ==
  ASSUME InflightTyped, NEW w \in Worker, Finish(w)
  PROVE  InflightTyped'
BY IdleGood, PutTyped DEF Finish, Then

LEMMA BegunTyped ==
  ASSUME Typed, NEW w \in Worker, NEW q, Good(q), Begin(w, q)
  PROVE  Typed'
<1>1. inflight' = [inflight EXCEPT ![w] = q] /\ UNCHANGED <<catalog, car, campaign, priced, sale>>
  BY DEF Begin, rows
<1>2. InflightTyped'
  BY <1>1, PutTyped DEF Typed
<1>3. CarsTyped' /\ CampaignsTyped' /\ SalesTyped' /\ TagsSaved'
  BY <1>1 DEF Typed, CarsTyped, CampaignsTyped, SalesTyped, TagsSaved, Saved
<1>4. QED BY <1>2, <1>3 DEF Typed

\* Steps that write to one table alone.
LEMMA OnlySales ==
  ASSUME Typed, UNCHANGED <<catalog, car, campaign, priced>>, SalesTyped', TagsSaved', InflightTyped'
  PROVE  Typed'
BY DEF Typed, CarsTyped, CampaignsTyped, Saved

LEMMA OnlyCars ==
  ASSUME Typed, UNCHANGED <<catalog, campaign, priced, sale, inflight>>, CarsTyped'
  PROVE  Typed'
BY DEF Typed, CampaignsTyped, SalesTyped, TagsSaved, Saved, InflightTyped

LEMMA OnlyCampaigns ==
  ASSUME Typed, UNCHANGED <<catalog, car, sale>>, CampaignsTyped', InflightTyped',
         \A c \in Campaign : Saved(c) => Saved(c)'
  PROVE  Typed'
<1>1. TagsSaved'
  <2>1. \A s \in Sale : sale[s].tag \in Campaign \cup {NoCampaign}
    BY DEF Typed, SalesTyped, SaleRow
  <2>2. QED BY <2>1 DEF Typed, TagsSaved
<1>2. QED BY <1>1 DEF Typed, CarsTyped, SalesTyped
-----------------------------------------------------------------------------
LEMMA CreateSaleMade ==
  ASSUME Typed, NEW w \in Worker, NEW s \in Sale, NEW k \in Car \cup {NoCar}, NEW p \in Model \cup {NoModel},
         NEW day \in Days, NEW n \in Campaign \cup {NoCampaign}, BeginCreateSale(w, s, k, p, day, n)
  PROVE  \E r \in SaleRow : /\ Begin(w, [Idle EXCEPT !.op = "createSale", !.id = s, !.sale = r])
                            /\ r.subsidy \in {NoCampaign, r.tag}
<1> DEFINE m == IF k = NoCar THEN p ELSE car[k].model
           tags == IF n # NoCampaign THEN {n}
                   ELSE IF AutoTags(m, day) = {} THEN {NoCampaign} ELSE AutoTags(m, day)
           row(c) == [state |-> "live", day |-> day, car |-> k, model |-> m, tag |-> c, subsidy |-> Subsidy(c, m, k)]
<1>1. m \in Model \cup {NoModel}
  BY DEF Typed, CarsTyped, CarRow
<1>2. tags \subseteq Campaign \cup {NoCampaign}
  BY DEF AutoTags
<1> HIDE DEF m
<1>3. PICK c \in tags : Begin(w, [Idle EXCEPT !.op = "createSale", !.id = s, !.sale = row(c)])
  BY DEF BeginCreateSale, m
<1>4. row(c) \in SaleRow /\ row(c).subsidy \in {NoCampaign, row(c).tag}
  BY <1>1, <1>2, CampaignDates DEF SaleRow, Subsidy
<1> HIDE DEF row, tags
<1>5. QED BY <1>3, <1>4

LEMMA UpdateSaleMade ==
  ASSUME Typed, NEW w \in Worker, NEW s \in Sale, NEW k \in Car \cup {NoCar}, NEW m \in Model \cup {NoModel},
         NEW c \in Campaign \cup {NoCampaign}, BeginUpdateSale(w, s, k, m, c)
  PROVE  \E r \in SaleRow, mode \in {"plain", "swap"} :
            /\ Begin(w, [Idle EXCEPT !.op = "updateSale", !.id = s, !.mode = mode, !.sale = r])
            /\ mode = "swap" => r.car \in Car
            /\ r.subsidy \in {NoCampaign, IF r.tag # NoCampaign THEN r.tag ELSE sale[s].tag}
<1> DEFINE unit == IF k # NoCar THEN k ELSE sale[s].car
           model == IF unit # NoCar /\ car[unit].state = "live" THEN car[unit].model ELSE m
           tag == IF c # NoCampaign THEN c ELSE sale[s].tag
           priceOf == IF model # NoModel THEN model ELSE sale[s].model
           sub == IF tag = NoCampaign THEN NoCampaign ELSE Subsidy(tag, priceOf, unit)
           mode == IF k \in {NoCar, sale[s].car} THEN "plain" ELSE "swap"
           row == [state |-> "live", day |-> 0, car |-> k, model |-> model, tag |-> c, subsidy |-> sub]
<1>1. sale[s].car \in Car \cup {NoCar} /\ sale[s].tag \in Campaign \cup {NoCampaign}
  BY DEF Typed, SalesTyped, SaleRow
<1>2. model \in Model \cup {NoModel}
  BY <1>1 DEF Typed, CarsTyped, CarRow
<1>3. sub \in {NoCampaign, tag} /\ tag \in Campaign \cup {NoCampaign}
  BY <1>1 DEF Subsidy
<1>4. Begin(w, [Idle EXCEPT !.op = "updateSale", !.id = s, !.mode = mode, !.sale = row])
  BY DEF BeginUpdateSale
<1> HIDE DEF model, sub
<1>5. row \in SaleRow /\ row.tag = c /\ row.subsidy = sub /\ row.car = k
  BY <1>2, <1>3 DEF SaleRow
<1>6. mode \in {"plain", "swap"} /\ (mode = "swap" => row.car \in Car)
  BY <1>5
<1> HIDE DEF row, mode
<1>7. QED BY <1>3, <1>4, <1>5, <1>6

LEMMA UpdateCampaignMade ==
  ASSUME Typed, NEW w \in Worker, NEW c \in Campaign, NEW row \in CampaignForms, NEW mode \in {"plain", "keep"},
         BeginUpdateCampaign(w, c, row, mode)
  PROVE  /\ Good([Idle EXCEPT !.op = "update", !.id = c, !.row = row, !.mode = mode, !.current = campaign[c].models])
         /\ Begin(w, [Idle EXCEPT !.op = "update", !.id = c, !.row = row, !.mode = mode, !.current = campaign[c].models])
         /\ mode = "keep" \/ Orphans(c, row.models) = {}
<1>1. row \in CampaignRow /\ row.status \in Statuses
  BY CampaignDates, CampaignSwitches DEF CampaignForms, CampaignRow, Statuses
<1>2. campaign[c].models \in SUBSET Model
  BY DEF Typed, CampaignsTyped, CampaignRow
<1>3. QED BY <1>1, <1>2, Made DEF BeginUpdateCampaign

LEMMA BeginsTyped ==
  ASSUME Typed, NEW w \in Worker,
         \/ \E s \in Sale, k \in Car \cup {NoCar}, m \in Model \cup {NoModel}, c \in Campaign \cup {NoCampaign} :
               \/ \E day \in Days : BeginCreateSale(w, s, k, m, day, c)
               \/ BeginUpdateSale(w, s, k, m, c)
         \/ \E c \in Campaign : \/ BeginDeleteCampaign(w, c)
                                \/ \E row \in CampaignForms, mode \in {"plain", "keep"} :
                                      BeginUpdateCampaign(w, c, row, mode)
         \/ \E m \in Model : BeginDeleteVehicle(w, m)
  PROVE  Typed'
<1>1. ASSUME NEW s \in Sale, NEW k \in Car \cup {NoCar}, NEW m \in Model \cup {NoModel},
             NEW c \in Campaign \cup {NoCampaign}, NEW day \in Days, BeginCreateSale(w, s, k, m, day, c)
      PROVE Typed'
  BY <1>1, CreateSaleMade, Made, BegunTyped
<1>2. ASSUME NEW s \in Sale, NEW k \in Car \cup {NoCar}, NEW m \in Model \cup {NoModel},
             NEW c \in Campaign \cup {NoCampaign}, BeginUpdateSale(w, s, k, m, c)
      PROVE Typed'
  BY <1>2, UpdateSaleMade, Made, BegunTyped
<1>3. ASSUME NEW c \in Campaign, BeginDeleteCampaign(w, c) PROVE Typed'
  BY <1>3, Made, BegunTyped DEF BeginDeleteCampaign
<1>4. ASSUME NEW c \in Campaign, NEW row \in CampaignForms, NEW mode \in {"plain", "keep"},
             BeginUpdateCampaign(w, c, row, mode)
      PROVE Typed'
  <2> DEFINE q == [Idle EXCEPT !.op = "update", !.id = c, !.row = row, !.mode = mode, !.current = campaign[c].models]
  <2>1. Good(q) /\ Begin(w, q)
    BY <1>4, UpdateCampaignMade
  <2> HIDE DEF q
  <2>2. QED BY <2>1, BegunTyped
<1>5. ASSUME NEW m \in Model, BeginDeleteVehicle(w, m) PROVE Typed'
  BY <1>5, Made, BegunTyped DEF BeginDeleteVehicle
<1>6. QED BY <1>1, <1>2, <1>3, <1>4, <1>5

LEMMA CommitSaleTyped ==
  ASSUME Typed, NEW w \in Worker, CommitCreateSale(w) \/ CommitUpdateSale(w)
  PROVE  Typed'
<1> DEFINE r == inflight[w]
           new == r.sale
<1>1. Good(r) /\ new \in SaleRow
  BY DEF Typed, InflightTyped, Requests
<1>2. /\ new.car \in Car \cup {NoCar} /\ new.model \in Model \cup {NoModel}
      /\ new.tag \in Campaign \cup {NoCampaign} /\ new.subsidy \in Campaign \cup {NoCampaign}
  BY <1>1 DEF SaleRow
<1>3. UNCHANGED <<catalog, car, campaign, priced>> /\ Finish(w) /\ r.id \in Sale
      /\ (new.tag # NoCampaign => Saved(new.tag))
  BY <1>1 DEF CommitCreateSale, CommitUpdateSale, Good
<1>4. InflightTyped'
  BY <1>3, EndTyped DEF Typed
<1>5. \A c : Saved(c)' <=> Saved(c)
  BY <1>3 DEF Saved
<1>6. CASE CommitCreateSale(w)
  <2>1. sale' = [sale EXCEPT ![r.id] = new]
    BY <1>6 DEF CommitCreateSale
  <2> HIDE DEF r, new
  <2>2. SalesTyped' /\ TagsSaved'
    BY <1>1, <1>3, <1>5, <2>1 DEF Typed, SalesTyped, TagsSaved
  <2>3. QED BY <1>3, <1>4, <2>2, OnlySales
<1>7. CASE CommitUpdateSale(w)
  <2> DEFINE model == IF r.mode = "swap" THEN car[new.car].model ELSE new.model
             s == r.id
             q == [sale[s] EXCEPT !.car = IF new.car # NoCar THEN new.car ELSE @,
                                  !.model = IF model # NoModel THEN model ELSE @,
                                  !.tag = IF new.tag # NoCampaign THEN new.tag ELSE @,
                                  !.subsidy = new.subsidy]
  <2>1. model \in Model \cup {NoModel}
    BY <1>1, <1>2, <1>7 DEF Good, CommitUpdateSale, Typed, CarsTyped, CarRow
  <2>2. sale' = [sale EXCEPT ![s] = q]
    BY <1>7 DEF CommitUpdateSale
  <2> HIDE DEF r, new, model
  <2>3. q \in SaleRow /\ q.tag = IF new.tag # NoCampaign THEN new.tag ELSE sale[s].tag
    <3>1. s \in Sale /\ sale[s] \in SaleRow
      BY <1>3 DEF Typed, SalesTyped
    <3> DEFINE a == IF new.car # NoCar THEN new.car ELSE sale[s].car
               b == IF model # NoModel THEN model ELSE sale[s].model
               e == IF new.tag # NoCampaign THEN new.tag ELSE sale[s].tag
    <3>2. a \in Car \cup {NoCar} /\ b \in Model \cup {NoModel} /\ e \in Campaign \cup {NoCampaign}
      BY <1>2, <2>1, <3>1 DEF SaleRow
    <3>3. q = [sale[s] EXCEPT !.car = a, !.model = b, !.tag = e, !.subsidy = new.subsidy]
      BY <3>1 DEF SaleRow
    <3> HIDE DEF q, a, b, e
    <3>4. q \in SaleRow /\ q.tag = e
      BY <1>2, <3>1, <3>2, <3>3 DEF SaleRow
    <3>5. QED BY <3>4 DEF e
  <2> HIDE DEF q
  <2>4. SalesTyped'
    BY <2>2, <2>3 DEF Typed, SalesTyped
  <2>5. TagsSaved'
    BY <1>3, <1>5, <2>2, <2>3 DEF Typed, SalesTyped, TagsSaved
  <2>6. QED BY <1>3, <1>4, <2>4, <2>5, OnlySales
<1>8. QED BY <1>6, <1>7

LEMMA OneSaleTyped ==
  ASSUME Typed, NEW s \in Sale, NEW q \in SaleRow, sale' = [sale EXCEPT ![s] = q],
         q.tag \in {NoCampaign, sale[s].tag}, UNCHANGED <<catalog, car, campaign, priced, inflight>>
  PROVE  Typed'
<1>1. SalesTyped'
  BY DEF Typed, SalesTyped
<1>2. TagsSaved'
  BY DEF Typed, SalesTyped, TagsSaved, Saved
<1>3. InflightTyped'
  BY DEF Typed, InflightTyped
<1>4. QED BY <1>1, <1>2, <1>3, OnlySales

LEMMA SaleStepsTyped ==
  ASSUME Typed, NEW s \in Sale,
         \/ \E k \in Car \cup {NoCar}, m \in Model \cup {NoModel}, day \in Days : ConvertToSale(s, k, m, day)
         \/ \E k \in Car : AssignStock(s, k)
         \/ CancelSale(s) \/ DeleteSale(s)
  PROVE  Typed'
<1>0. sale[s] \in SaleRow
  BY DEF Typed, SalesTyped
<1>1. ASSUME NEW k \in Car \cup {NoCar}, NEW m \in Model \cup {NoModel}, NEW day \in Days, ConvertToSale(s, k, m, day)
      PROVE Typed'
  <2> DEFINE q == [state |-> "live", day |-> day, car |-> k, model |-> m, tag |-> NoCampaign, subsidy |-> NoCampaign]
  <2>1. q \in SaleRow /\ q.tag = NoCampaign
    BY CampaignDates DEF SaleRow
  <2>2. sale' = [sale EXCEPT ![s] = q] /\ UNCHANGED <<catalog, car, campaign, priced, inflight>>
    BY <1>1 DEF ConvertToSale
  <2> HIDE DEF q
  <2>3. QED BY <2>1, <2>2, OneSaleTyped
<1>2. ASSUME NEW k \in Car, AssignStock(s, k) PROVE Typed'
  <2> DEFINE q == [sale[s] EXCEPT !.car = k, !.model = car[k].model]
  <2>1. car[k].model \in Model \cup {NoModel}
    BY DEF Typed, CarsTyped, CarRow
  <2>2. q \in SaleRow /\ q.tag = sale[s].tag
    BY <1>0, <2>1 DEF SaleRow
  <2>3. sale' = [sale EXCEPT ![s] = q] /\ UNCHANGED <<catalog, car, campaign, priced, inflight>>
    BY <1>2 DEF AssignStock
  <2> HIDE DEF q
  <2>4. QED BY <2>2, <2>3, OneSaleTyped
<1>3. CASE CancelSale(s)
  <2> DEFINE q == [sale[s] EXCEPT !.state = "cancelled", !.car = NoCar]
  <2>1. q \in SaleRow /\ q.tag = sale[s].tag
    BY <1>0 DEF SaleRow
  <2>2. sale' = [sale EXCEPT ![s] = q] /\ UNCHANGED <<catalog, car, campaign, priced, inflight>>
    BY <1>3 DEF CancelSale
  <2> HIDE DEF q
  <2>3. QED BY <2>1, <2>2, OneSaleTyped
<1>4. CASE DeleteSale(s)
  <2>1. NoSaleRow \in SaleRow /\ NoSaleRow.tag = NoCampaign
    BY NullRows DEF NoSaleRow
  <2>2. QED BY <1>4, <2>1, OneSaleTyped DEF DeleteSale
<1>5. QED BY <1>1, <1>2, <1>3, <1>4

LEMMA CarStepsTyped ==
  ASSUME Typed, NEW k \in Car, SoftDeleteCar(k) \/ \E m \in Model : CreateCar(k, m) \/ ChangeCarModel(k, m)
  PROVE  Typed'
<1>1. PICK q \in CarRow : /\ car' = [car EXCEPT ![k] = q] /\ q.state # "none"
                          /\ q.model \in catalog \cup {NoModel}
  <2>0. car[k] \in CarRow
    BY DEF Typed, CarsTyped
  <2>1. CASE SoftDeleteCar(k)
    <3> DEFINE q == [car[k] EXCEPT !.state = "deleted"]
    <3>1. q \in CarRow /\ q.state = "deleted" /\ q.model = car[k].model
      BY <2>0 DEF CarRow
    <3>2. car' = [car EXCEPT ![k] = q]
      BY <2>1 DEF SoftDeleteCar
    <3> HIDE DEF q
    <3>3. QED BY <3>1, <3>2 DEF Typed, CarsTyped
  <2>2. ASSUME NEW m \in Model, CreateCar(k, m)
        PROVE \E q \in CarRow : /\ car' = [car EXCEPT ![k] = q] /\ q.state # "none"
                                /\ q.model \in catalog \cup {NoModel}
    <3> DEFINE q == [state |-> "live", model |-> m]
    <3>1. q \in CarRow /\ q.state = "live" /\ q.model = m
      BY DEF CarRow
    <3>2. car' = [car EXCEPT ![k] = q] /\ m \in catalog
      BY <2>2 DEF CreateCar
    <3> HIDE DEF q
    <3>3. QED BY <3>1, <3>2
  <2>3. ASSUME NEW m \in Model, ChangeCarModel(k, m)
        PROVE \E q \in CarRow : /\ car' = [car EXCEPT ![k] = q] /\ q.state # "none"
                                /\ q.model \in catalog \cup {NoModel}
    <3> DEFINE q == [car[k] EXCEPT !.model = m]
    <3>1. q \in CarRow /\ q.state = car[k].state /\ q.model = m
      BY <2>0 DEF CarRow
    <3>2. car' = [car EXCEPT ![k] = q] /\ m \in catalog /\ car[k].state # "none"
      BY <2>3 DEF ChangeCarModel
    <3> HIDE DEF q
    <3>3. QED BY <3>1, <3>2
  <2>4. QED BY <2>1, <2>2, <2>3
<1>2. UNCHANGED <<catalog, campaign, priced, sale, inflight>>
  BY DEF SoftDeleteCar, CreateCar, ChangeCarModel
<1>3. CarsTyped'
  BY <1>1, <1>2 DEF Typed, CarsTyped
<1>4. QED BY <1>2, <1>3, OnlyCars
-----------------------------------------------------------------------------
\* One campaign is written, with its formulas.
LEMMA OneCampaignTyped ==
  ASSUME Typed, NEW c \in Campaign, NEW q \in CampaignRow, NEW f \in SUBSET Model,
         campaign' = [campaign EXCEPT ![c] = q], priced' = [priced EXCEPT ![c] = f],
         q.models \subseteq catalog, f \subseteq q.models, q.status # "none",
         UNCHANGED <<catalog, car, sale>>, InflightTyped'
  PROVE  Typed'
<1>1. CampaignsTyped'
  BY DEF Typed, CampaignsTyped, Saved
<1>2. \A d \in Campaign : Saved(d) => Saved(d)'
  BY DEF Typed, CampaignsTyped, Saved
<1>3. QED BY <1>1, <1>2, OnlyCampaigns

LEMMA PricedSame == Typed => \A c \in Campaign : priced = [priced EXCEPT ![c] = priced[c]]
BY DEF Typed, CampaignsTyped

LEMMA FormTyped ==
  ASSUME NEW row \in CampaignForms
  PROVE  row \in CampaignRow /\ row.status \in Statuses /\ row.status # "none" /\ row.models \in SUBSET Model
BY CampaignDates, CampaignSwitches DEF CampaignForms, CampaignRow, Statuses

LEMMA CreateCampaignTyped ==
  ASSUME Typed, NEW w \in Worker, NEW c \in Campaign, NEW row \in CampaignForms, CreateCampaign(w, c, row)
  PROVE  Typed'
<1>1. InflightTyped'
  BY Made, PutTyped DEF CreateCampaign, Then, Typed, InflightTyped
<1>2. priced[c] = {}
  BY DEF CreateCampaign, Typed, CampaignsTyped
<1>3. campaign' = [campaign EXCEPT ![c] = row] /\ row.models \subseteq catalog /\ UNCHANGED <<catalog, car, priced, sale>>
  BY DEF CreateCampaign
<1>4. priced' = [priced EXCEPT ![c] = priced[c]]
  BY <1>3, PricedSame
<1>5. QED BY <1>1, <1>2, <1>3, <1>4, FormTyped, OneCampaignTyped

LEMMA DuplicateTyped ==
  ASSUME Typed, NEW c \in Campaign, NEW source \in Campaign, NEW window \in Windows, Duplicate(c, source, window)
  PROVE  Typed'
<1> DEFINE q == [status |-> "DRAFT", from |-> window[1], to |-> window[2], models |-> campaign[source].models]
<1>1. /\ campaign[source].models \in SUBSET Model /\ campaign[source].models \subseteq catalog
      /\ priced[source] \in SUBSET Model /\ priced[source] \subseteq campaign[source].models
  BY DEF Typed, CampaignsTyped, CampaignRow
<1>2. q \in CampaignRow /\ q.status = "DRAFT" /\ q.models = campaign[source].models
  BY <1>1, CampaignDates DEF CampaignRow, Statuses
<1>3. campaign' = [campaign EXCEPT ![c] = q] /\ priced' = [priced EXCEPT ![c] = priced[source]]
      /\ UNCHANGED <<catalog, car, sale, inflight>>
  BY DEF Duplicate
<1>4. InflightTyped'
  BY <1>3 DEF Typed, InflightTyped
<1> HIDE DEF q
<1>5. QED BY <1>1, <1>2, <1>3, <1>4, OneCampaignTyped

LEMMA CommitUpdateCampaignTyped ==
  ASSUME Typed, NEW w \in Worker, CommitUpdateCampaign(w)
  PROVE  Typed'
<1> DEFINE r == inflight[w]
           c == r.id
           kept == campaign[c].models \ (r.current \ r.row.models)
           new == r.row.models \ r.current
<1>1. c \in Campaign /\ r.row \in CampaignRow /\ r.row.status \in Statuses /\ r.current \in SUBSET Model
  BY DEF CommitUpdateCampaign, Typed, InflightTyped, Good, Requests
<1>2. /\ campaign[c] \in CampaignRow /\ campaign[c].models \in SUBSET Model /\ campaign[c].models \subseteq catalog
      /\ priced[c] \in SUBSET Model /\ priced[c] \subseteq campaign[c].models
      /\ r.row.models \in SUBSET Model
  BY <1>1 DEF Typed, CampaignsTyped, CampaignRow
<1>3. UNCHANGED <<catalog, car, sale>> /\ inflight' = [inflight EXCEPT ![w] = Tagging(c)]
  BY DEF CommitUpdateCampaign, Then
<1>4. InflightTyped'
  BY <1>1, <1>3, Made, PutTyped DEF Typed
<1>5. CASE r.mode = "keep"
  <2> DEFINE q == [r.row EXCEPT !.models = campaign[c].models]
  <2>1. q \in CampaignRow /\ q.status = r.row.status /\ q.models = campaign[c].models
    BY <1>1, <1>2 DEF CampaignRow
  <2>2. campaign' = [campaign EXCEPT ![c] = q] /\ priced' = [priced EXCEPT ![c] = priced[c]]
    BY <1>5, PricedSame, <1>1 DEF CommitUpdateCampaign
  <2>3. q.status # "none"
    BY <1>1, <2>1 DEF Statuses
  <2> HIDE DEF q, r, c
  <2>4. QED BY <1>1, <1>2, <1>3, <1>4, <2>1, <2>2, <2>3, OneCampaignTyped
<1>6. CASE r.mode # "keep"
  <2> DEFINE q == [r.row EXCEPT !.models = kept \cup new]
  <2>1. new \subseteq catalog /\ campaign' = [campaign EXCEPT ![c] = q] /\ priced' = [priced EXCEPT ![c] = priced[c] \cap kept]
    BY <1>6 DEF CommitUpdateCampaign, ModelsChanged
  <2>2. kept \in SUBSET Model /\ new \in SUBSET Model /\ kept \subseteq catalog
    BY <1>1, <1>2
  <2>3. q \in CampaignRow /\ q.status = r.row.status /\ q.models = kept \cup new
    BY <1>1, <2>2 DEF CampaignRow
  <2>4. q.status # "none" /\ q.models \subseteq catalog /\ priced[c] \cap kept \in SUBSET Model
    BY <1>1, <1>2, <2>1, <2>2, <2>3 DEF Statuses
  <2>5. priced[c] \cap kept \subseteq q.models
    BY <2>3
  <2> HIDE DEF q, r, c, kept
  <2>6. QED BY <1>1, <1>3, <1>4, <2>1, <2>3, <2>4, <2>5, OneCampaignTyped
<1>7. QED BY <1>5, <1>6

LEMMA TaggingTyped ==
  ASSUME Typed, NEW w \in Worker, BeginTagging(w) \/ TagSale(w) \/ EndTagging(w) \/ FailRequest(w)
  PROVE  Typed'
<1> DEFINE r == inflight[w]
<1>1. r \in Requests /\ Good(r)
  BY DEF Typed, InflightTyped
<1>2. CASE BeginTagging(w) \/ EndTagging(w) \/ FailRequest(w)
  <2>1. UNCHANGED <<catalog, car, campaign, priced, sale>>
    BY <1>2 DEF BeginTagging, EndTagging, FailRequest, rows
  <2>2. InflightTyped'
    <3>1. CASE BeginTagging(w)
      <4> DEFINE q == [r EXCEPT !.mode = "read", !.todo = Candidates(r.id)]
      <4>1. Candidates(r.id) \in SUBSET Sale
        BY DEF Candidates
      <4>2. Good(q)
        BY <1>1, <3>1, <4>1 DEF Good, Requests, BeginTagging
      <4>3. inflight' = [inflight EXCEPT ![w] = q] \/ Finish(w)
        BY <3>1 DEF BeginTagging, Then
      <4> HIDE DEF q
      <4>4. QED BY <4>2, <4>3, PutTyped, EndTyped DEF Typed
    <3>2. CASE EndTagging(w) \/ FailRequest(w)
      BY <3>2, EndTyped DEF EndTagging, FailRequest, Typed
    <3>3. QED BY <1>2, <3>1, <3>2
  <2>3. SalesTyped' /\ TagsSaved'
    BY <2>1 DEF Typed, SalesTyped, TagsSaved, Saved
  <2>4. QED BY <2>1, <2>2, <2>3, OnlySales
<1>3. CASE TagSale(w)
  <2>1. PICK s \in r.todo : /\ Saved(r.id)
                            /\ sale' = [sale EXCEPT ![s].tag = r.id, ![s].subsidy = r.id]
                            /\ inflight' = [inflight EXCEPT ![w] = [r EXCEPT !.todo = @ \ {s}]]
    BY <1>3 DEF TagSale, Then
  <2> DEFINE q == [sale[s] EXCEPT !.tag = r.id, !.subsidy = r.id]
             p == [r EXCEPT !.todo = @ \ {s}]
  <2>2. s \in Sale /\ r.id \in Campaign /\ sale[s] \in SaleRow
    BY <1>1, <1>3 DEF Requests, Good, TagSale, Typed, SalesTyped
  <2>3. q \in SaleRow /\ q.tag = r.id
    BY <2>2 DEF SaleRow
  <2>4. Good(p)
    BY <1>1, <1>3 DEF Good, Requests, TagSale
  <2>5. sale' = [sale EXCEPT ![s] = q] /\ inflight' = [inflight EXCEPT ![w] = p]
        /\ UNCHANGED <<catalog, car, campaign, priced>>
    BY <1>3, <2>1, <2>2 DEF TagSale, Typed, SalesTyped
  <2> HIDE DEF q, p
  <2>6. InflightTyped'
    BY <2>4, <2>5, PutTyped DEF Typed
  <2>7. SalesTyped'
    BY <2>3, <2>5 DEF Typed, SalesTyped
  <2>8. TagsSaved'
    BY <2>1, <2>2, <2>3, <2>5 DEF Typed, SalesTyped, TagsSaved, Saved
  <2>9. QED BY <2>5, <2>6, <2>7, <2>8, OnlySales
<1>4. QED BY <1>2, <1>3

LEMMA CommitDeleteCampaignTyped ==
  ASSUME Typed, NEW w \in Worker, CommitDeleteCampaign(w)
  PROVE  Typed'
<1> DEFINE c == inflight[w].id
<1>1. c \in Campaign
  BY DEF CommitDeleteCampaign, Typed, InflightTyped, Good
<1>2. /\ campaign' = [campaign EXCEPT ![c] = NoCampaignRow] /\ priced' = [priced EXCEPT ![c] = {}]
      /\ sale' = [s \in Sale |-> [sale[s] EXCEPT !.tag = IF @ = c THEN NoCampaign ELSE @]]
      /\ UNCHANGED <<catalog, car>> /\ Finish(w)
  BY DEF CommitDeleteCampaign
<1>3. InflightTyped'
  BY <1>2, EndTyped DEF Typed
<1>4. CarsTyped'
  BY <1>2 DEF Typed, CarsTyped
<1> HIDE DEF c
<1>5. CampaignsTyped'
  <2>1. NoCampaignRow.models = {}
    BY DEF NoCampaignRow
  <2>2. campaign' \in [Campaign -> CampaignRow] /\ priced' \in [Campaign -> SUBSET Model]
    BY <1>1, <1>2, NullRows DEF Typed, CampaignsTyped
  <2>3. \A d \in Campaign : /\ campaign'[d].models \subseteq catalog /\ priced'[d] \subseteq campaign'[d].models
                            /\ (campaign'[d].status = "none") => campaign'[d].models = {}
    BY <1>1, <1>2, <2>1 DEF Typed, CampaignsTyped, Saved
  <2>4. QED BY <1>2, <2>2, <2>3 DEF CampaignsTyped, Saved
<1>6. \A s \in Sale : /\ sale'[s] \in SaleRow
                      /\ sale'[s].tag = IF sale[s].tag = c THEN NoCampaign ELSE sale[s].tag
  <2> TAKE s \in Sale
  <2>1. sale[s] \in SaleRow /\ sale'[s] = [sale[s] EXCEPT !.tag = IF sale[s].tag = c THEN NoCampaign ELSE sale[s].tag]
    BY <1>2 DEF Typed, SalesTyped
  <2>2. QED BY <2>1 DEF SaleRow
<1>7. SalesTyped'
  BY <1>2, <1>6 DEF SalesTyped
<1>8. TagsSaved'
  BY <1>1, <1>2, <1>6 DEF Typed, TagsSaved, CampaignsTyped, Saved, SalesTyped, SaleRow
<1>9. QED BY <1>3, <1>4, <1>5, <1>7, <1>8 DEF Typed

LEMMA ModelsTyped ==
  ASSUME Typed, NEW w \in Worker, NEW c \in Campaign, NEW m \in Model,
         AddVehicleModel(w, c, m) \/ RemoveVehicleModel(c, m) \/ EditFormulas(c, m)
  PROVE  Typed'
<1>0. /\ campaign[c] \in CampaignRow /\ campaign[c].models \in SUBSET Model /\ campaign[c].models \subseteq catalog
      /\ priced[c] \in SUBSET Model /\ priced[c] \subseteq campaign[c].models
  BY DEF Typed, CampaignsTyped, CampaignRow
<1>1. CASE AddVehicleModel(w, c, m)
  <2> DEFINE q == [campaign[c] EXCEPT !.models = campaign[c].models \cup {m}]
  <2>1. /\ Saved(c) /\ m \in catalog /\ campaign' = [campaign EXCEPT ![c] = q]
        /\ inflight' = [inflight EXCEPT ![w] = Tagging(c)] /\ UNCHANGED <<catalog, car, priced, sale>>
    BY <1>1 DEF AddVehicleModel, Then, Typed, CampaignsTyped
  <2>2. q \in CampaignRow /\ q.models = campaign[c].models \cup {m} /\ q.status = campaign[c].status
    BY <1>0 DEF CampaignRow
  <2>3. InflightTyped' /\ priced' = [priced EXCEPT ![c] = priced[c]] /\ q.status # "none"
    BY <2>1, <2>2, PricedSame, Made, PutTyped DEF Typed, Saved
  <2>4. q.models \subseteq catalog /\ priced[c] \subseteq q.models
    BY <1>0, <2>1, <2>2
  <2>5. UNCHANGED <<catalog, car, sale>> /\ campaign' = [campaign EXCEPT ![c] = q]
    BY <2>1
  <2> HIDE DEF q
  <2>6. QED BY <1>0, <2>2, <2>3, <2>4, <2>5, OneCampaignTyped
<1>2. CASE RemoveVehicleModel(c, m)
  <2> DEFINE q == [campaign[c] EXCEPT !.models = campaign[c].models \ {m}]
  <2>1. /\ m \in campaign[c].models /\ campaign' = [campaign EXCEPT ![c] = q]
        /\ priced' = [priced EXCEPT ![c] = priced[c] \ {m}] /\ UNCHANGED <<catalog, car, sale, inflight>>
    BY <1>2 DEF RemoveVehicleModel, Typed, CampaignsTyped
  <2>2. q \in CampaignRow /\ q.models = campaign[c].models \ {m} /\ q.status = campaign[c].status
    BY <1>0 DEF CampaignRow
  <2>3. InflightTyped' /\ q.status # "none"
    BY <2>1, <2>2 DEF Typed, InflightTyped, CampaignsTyped, Saved
  <2>4. q.models \subseteq catalog /\ priced[c] \ {m} \in SUBSET Model /\ priced[c] \ {m} \subseteq q.models
    BY <1>0, <2>2
  <2> HIDE DEF q
  <2>5. QED BY <2>1, <2>2, <2>3, <2>4, OneCampaignTyped
<1>3. CASE EditFormulas(c, m)
  <2>1. PICK f \in SUBSET campaign[c].models : priced' = [priced EXCEPT ![c] = f]
    BY <1>0, <1>3 DEF EditFormulas, Typed, CampaignsTyped
  <2>2. UNCHANGED <<catalog, car, campaign, sale, inflight>>
    BY <1>3 DEF EditFormulas
  <2>3. InflightTyped'
    BY <2>2 DEF Typed, InflightTyped
  <2>4. campaign' \in [Campaign -> CampaignRow] /\ priced' \in [Campaign -> SUBSET Model]
    BY <1>0, <2>1, <2>2 DEF Typed, CampaignsTyped
  <2>5. CampaignsTyped'
    BY <2>1, <2>2, <2>4 DEF Typed, CampaignsTyped, Saved
  <2>6. QED BY <2>2, <2>3, <2>5, OnlyCampaigns DEF Saved
<1>4. QED BY <1>1, <1>2, <1>3

LEMMA CommitDeleteVehicleTyped ==
  ASSUME Typed, NEW w \in Worker, CommitDeleteVehicle(w)
  PROVE  Typed'
<1> DEFINE m == CHOOSE x \in inflight[w].current : TRUE
           purged == {k \in Car : car[k].state = "deleted" /\ car[k].model = m}
<1>1. /\ m \in catalog /\ \A k \in Car : ~(car[k].state = "live" /\ car[k].model = m)
      /\ catalog' = catalog \ {m}
      /\ priced' = [c \in Campaign |-> priced[c] \ {m}]
      /\ campaign' = [c \in Campaign |-> [campaign[c] EXCEPT !.models = @ \ {m}]]
      /\ sale' = [s \in Sale |-> [sale[s] EXCEPT !.car = IF @ \in purged THEN NoCar ELSE @,
                                                 !.model = IF @ = m THEN NoModel ELSE @]]
      /\ car' = [k \in Car |-> IF k \in purged THEN NoCarRow ELSE car[k]]
      /\ Finish(w)
  BY DEF CommitDeleteVehicle
<1> HIDE DEF m
<1>2. InflightTyped'
  BY <1>1, EndTyped DEF Typed
<1>3. CarsTyped'
  <2>1. car' \in [Car -> CarRow]
    BY <1>1, NullRows DEF Typed, CarsTyped
  <2>2. ASSUME NEW k \in Car PROVE /\ car'[k].model \in catalog' \cup {NoModel}
                                   /\ car'[k].state = "none" => car'[k].model = NoModel
    <3>1. CASE k \in purged
      BY <1>1, <3>1 DEF NoCarRow
    <3>2. CASE k \notin purged
      <4>1. car'[k] = car[k] BY <1>1, <3>2
      <4>2. car[k].state \in {"none", "live", "deleted"} BY DEF Typed, CarsTyped, CarRow
      <4>3. car[k].model \in catalog \cup {NoModel} /\ (car[k].state = "none" => car[k].model = NoModel)
        BY DEF Typed, CarsTyped
      <4>4. NoModel # m BY <1>1, CampaignNulls DEF Typed, CarsTyped
      <4>5. QED BY <1>1, <3>2, <4>1, <4>2, <4>3, <4>4
    <3>3. QED BY <3>1, <3>2
  <2>3. catalog' \subseteq Model
    BY <1>1 DEF Typed, CarsTyped
  <2>4. QED BY <2>1, <2>2, <2>3 DEF CarsTyped
<1>4. ASSUME NEW c \in Campaign
      PROVE /\ campaign'[c] \in CampaignRow /\ campaign'[c].status = campaign[c].status
            /\ campaign'[c].models = campaign[c].models \ {m} /\ priced'[c] = priced[c] \ {m}
  <2>1. campaign[c] \in CampaignRow /\ campaign'[c] = [campaign[c] EXCEPT !.models = campaign[c].models \ {m}]
    BY <1>1 DEF Typed, CampaignsTyped
  <2>2. QED BY <1>1, <2>1 DEF CampaignRow
<1>5. CampaignsTyped'
  <2>1. campaign' \in [Campaign -> CampaignRow] /\ priced' \in [Campaign -> SUBSET Model]
    BY <1>1, <1>4 DEF Typed, CampaignsTyped
  <2>2. \A c \in Campaign : /\ campaign'[c].models \subseteq catalog' /\ priced'[c] \subseteq campaign'[c].models
                            /\ (campaign'[c].status = "none") => campaign'[c].models = {}
    BY <1>1, <1>4 DEF Typed, CampaignsTyped, Saved
  <2>3. QED BY <2>1, <2>2 DEF CampaignsTyped, Saved
<1>6. ASSUME NEW s \in Sale
      PROVE sale'[s] \in SaleRow /\ sale'[s].tag = sale[s].tag
  <2> DEFINE a == IF sale[s].car \in purged THEN NoCar ELSE sale[s].car
             b == IF sale[s].model = m THEN NoModel ELSE sale[s].model
  <2>1. sale[s] \in SaleRow /\ sale'[s] = [sale[s] EXCEPT !.car = a, !.model = b]
    BY <1>1 DEF Typed, SalesTyped
  <2>2. a \in Car \cup {NoCar} /\ b \in Model \cup {NoModel}
    BY <2>1 DEF SaleRow
  <2> HIDE DEF a, b
  <2>3. QED BY <2>1, <2>2 DEF SaleRow
<1>7. SalesTyped'
  BY <1>1, <1>6 DEF SalesTyped
<1>8. TagsSaved'
  BY <1>4, <1>6 DEF Typed, TagsSaved, Saved, SalesTyped, SaleRow
<1>9. QED BY <1>2, <1>3, <1>5, <1>7, <1>8 DEF Typed

LEMMA StepTyped == Typed /\ [Next]_vars => Typed'
<1> SUFFICES ASSUME Typed, [Next]_vars PROVE Typed'
  OBVIOUS
<1>1. ASSUME NEW w \in Worker, NEW s \in Sale, SaleRequest(w, s) PROVE Typed'
  BY <1>1, BeginsTyped, SaleStepsTyped DEF SaleRequest
<1>2. ASSUME NEW w \in Worker, NEW c \in Campaign, CampaignRequest(w, c) PROVE Typed'
  BY <1>2, BeginsTyped, CreateCampaignTyped, DuplicateTyped, ModelsTyped DEF CampaignRequest
<1>3. ASSUME NEW w \in Worker, CatalogueRequest(w) PROVE Typed'
  BY <1>3, BeginsTyped, CarStepsTyped DEF CatalogueRequest
<1>4. CASE UNCHANGED vars
  <2>1. UNCHANGED <<catalog, car, campaign, priced, sale, inflight>>
    BY <1>4 DEF vars
  <2>2. SalesTyped' /\ TagsSaved' /\ InflightTyped'
    BY <2>1 DEF Typed, SalesTyped, TagsSaved, InflightTyped, Saved
  <2>3. QED BY <2>1, <2>2, OnlySales
<1>5. ASSUME NEW w \in Worker,
             \/ CommitCreateSale(w) \/ CommitUpdateSale(w) \/ CommitUpdateCampaign(w)
             \/ BeginTagging(w) \/ TagSale(w) \/ EndTagging(w)
             \/ CommitDeleteCampaign(w) \/ CommitDeleteVehicle(w) \/ FailRequest(w)
      PROVE Typed'
  BY <1>5, CommitSaleTyped, CommitUpdateCampaignTyped, TaggingTyped, CommitDeleteCampaignTyped,
     CommitDeleteVehicleTyped
<1>6. QED BY <1>1, <1>2, <1>3, <1>4, <1>5 DEF Next

LEMMA InitTyped == Init => Typed
<1> SUFFICES ASSUME Init PROVE Typed
  OBVIOUS
<1>1. CarsTyped
  BY NullRows DEF Init, CarsTyped, NoCarRow
<1>2. CampaignsTyped
  BY NullRows DEF Init, CampaignsTyped, NoCampaignRow, Saved
<1>3. SalesTyped /\ TagsSaved
  BY NullRows DEF Init, SalesTyped, TagsSaved, NoSaleRow
<1>4. InflightTyped
  BY IdleGood DEF Init, InflightTyped
<1>5. QED BY <1>1, <1>2, <1>3, <1>4 DEF Typed

\* Whatever overlaps, no tag is left of a campaign that is gone, no model in a
\* campaign that has left the catalogue, and no formula without its model.
THEOREM CampaignsTypeCorrect == Spec => []TypeOK
BY InitTyped, StepTyped, TypedIsTypeOK, PTL DEF Spec
-----------------------------------------------------------------------------
\* A step moves the request of one worker at most, and only an update that
\* commits goes on to tag.
LEMMA OnlyUpdatesTag ==
  ASSUME Typed, [Next]_vars, NEW w \in Worker, inflight[w].op = "update", inflight'[w].op = "tag"
  PROVE  CommitUpdateCampaign(w)
<1>0. inflight \in [Worker -> Requests] /\ inflight[w] # Idle
  BY IdleGood DEF Typed, InflightTyped
<1>1. ASSUME NEW v \in Worker, NEW q, inflight' = [inflight EXCEPT ![v] = q] PROVE v = w
  BY <1>0, <1>1
<1>2. inflight' # inflight
  OBVIOUS
<1>b. ASSUME NEW v \in Worker, NEW q, Begin(v, q) PROVE FALSE
  BY <1>0, <1>1, <1>b DEF Begin
<1>3. ASSUME NEW v \in Worker, NEW s \in Sale, SaleRequest(v, s) PROVE FALSE
  <2>1. ASSUME NEW k \in Car \cup {NoCar}, NEW m \in Model \cup {NoModel}, NEW c \in Campaign \cup {NoCampaign},
               NEW day \in Days, BeginCreateSale(v, s, k, m, day, c)
        PROVE FALSE
    BY <1>b, <2>1, CreateSaleMade
  <2>2. ASSUME NEW k \in Car \cup {NoCar}, NEW m \in Model \cup {NoModel}, NEW c \in Campaign \cup {NoCampaign},
               BeginUpdateSale(v, s, k, m, c)
        PROVE FALSE
    BY <1>b, <2>2, UpdateSaleMade
  <2>3. CASE UNCHANGED inflight
    BY <1>2, <2>3
  <2>4. QED BY <1>3, <2>1, <2>2, <2>3 DEF SaleRequest, ConvertToSale, AssignStock, CancelSale, DeleteSale
<1>4. ASSUME NEW v \in Worker, NEW c \in Campaign, CampaignRequest(v, c) PROVE FALSE
  BY <1>0, <1>1, <1>2, <1>4 DEF CampaignRequest, CreateCampaign, BeginUpdateCampaign, Duplicate,
     BeginDeleteCampaign, AddVehicleModel, RemoveVehicleModel, EditFormulas, Begin, Then
<1>5. ASSUME NEW v \in Worker, CatalogueRequest(v) PROVE FALSE
  BY <1>0, <1>1, <1>2, <1>5 DEF CatalogueRequest, SoftDeleteCar, CreateCar, ChangeCarModel, BeginDeleteVehicle, Begin
<1>6. ASSUME NEW v \in Worker,
             \/ CommitCreateSale(v) \/ CommitUpdateSale(v) \/ BeginTagging(v) \/ TagSale(v) \/ EndTagging(v)
             \/ CommitDeleteCampaign(v) \/ CommitDeleteVehicle(v)
      PROVE FALSE
  BY <1>1, <1>6 DEF CommitCreateSale, CommitUpdateSale, BeginTagging, TagSale, EndTagging,
     CommitDeleteCampaign, CommitDeleteVehicle, Finish, Then
<1>7. ASSUME NEW v \in Worker, FailRequest(v) PROVE FALSE
  <2>1. v = w /\ inflight'[w] = Idle
    BY <1>0, <1>1, <1>7 DEF FailRequest, Finish, Then
  <2>2. QED BY <2>1, IdleGood
<1>8. ASSUME NEW v \in Worker, CommitUpdateCampaign(v) PROVE v = w
  BY <1>1, <1>8 DEF CommitUpdateCampaign, Then
<1>9. QED BY <1>2, <1>3, <1>4, <1>5, <1>6, <1>7, <1>8 DEF Next, vars

LEMMA StepKeepsFormulas ==
  ASSUME Typed, NEW w \in Worker, CommitUpdateCampaign(w)
  PROVE  LET c == inflight[w].id IN priced'[c] = priced[c] \cap campaign'[c].models
<1> DEFINE r == inflight[w]
           c == r.id
           kept == campaign[c].models \ (r.current \ r.row.models)
           new == r.row.models \ r.current
<1>1. /\ c \in Campaign /\ r.row \in CampaignRow
      /\ campaign \in [Campaign -> CampaignRow] /\ priced \in [Campaign -> SUBSET Model]
      /\ priced[c] \subseteq campaign[c].models
  BY DEF CommitUpdateCampaign, Typed, InflightTyped, Good, Requests, CampaignsTyped
<1>2. CASE r.mode = "keep"
  <2>1. campaign'[c] = [r.row EXCEPT !.models = campaign[c].models] /\ priced' = priced
    BY <1>1, <1>2 DEF CommitUpdateCampaign
  <2>2. campaign'[c].models = campaign[c].models
    BY <1>1, <2>1 DEF CampaignRow
  <2>3. QED BY <1>1, <2>1, <2>2
<1>3. CASE r.mode # "keep"
  <2>1. new \subseteq catalog \ kept /\ campaign'[c] = [r.row EXCEPT !.models = kept \cup new]
        /\ priced'[c] = priced[c] \cap kept
    BY <1>1, <1>3 DEF CommitUpdateCampaign, ModelsChanged
  <2>2. campaign'[c].models = kept \cup new
    BY <1>1, <2>1 DEF CampaignRow
  <2>3. priced[c] \cap new = {}
    BY <1>1, <2>1
  <2> HIDE DEF r, c, kept, new
  <2>4. priced'[c] = priced[c] \cap campaign'[c].models
    BY <2>1, <2>2, <2>3
  <2>5. QED BY <2>4 DEF c, r
<1>4. QED BY <1>2, <1>3

\* Whatever overlaps, editing a campaign leaves the formulas of the models that
\* stay, and no others.
THEOREM EditsKeepFormulas == Spec => FormulasKept
<1>1. Typed /\ [Next]_vars => [FormulaStep]_vars
  BY OnlyUpdatesTag, StepKeepsFormulas DEF FormulaStep
<1>2. QED BY <1>1, InitTyped, StepTyped, PTL DEF Spec, FormulasKept
-----------------------------------------------------------------------------
\* Requests that overlap touch different rows; what each has read still holds.
Pair(q, r) == \/ q.op = "deleteVehicle" \/ r.op = "deleteVehicle"
              \/ q.id = r.id
              \/ q.op \in SaleOps /\ r.op \notin SaleOps
              \/ q.op \notin SaleOps /\ r.op \in SaleOps
Apart == \A v, w \in Worker :
            v # w /\ inflight[v].op # "idle" /\ inflight[w].op # "idle" => ~Pair(inflight[v], inflight[w])

FromTag(new, tag) == new.subsidy \in {NoCampaign, IF new.tag # NoCampaign THEN new.tag ELSE tag}
Fits(r) ==
    /\ r.op = "createSale" => r.sale.subsidy \in {NoCampaign, r.sale.tag}
    /\ r.op = "updateSale" => FromTag(r.sale, sale[r.id].tag)
    /\ r.op = "update" => /\ r.current = campaign[r.id].models
                          /\ r.mode = "keep" \/ Orphans(r.id, r.row.models) = {}
    /\ r.op = "delete" => \A s \in Sale : ~(Live(s) /\ sale[s].tag = r.id)
    /\ r.op = "tag" /\ r.mode = "read" => Candidates(r.id) \subseteq r.todo
AllFit == \A w \in Worker : Fits(inflight[w])
Orderly == Typed /\ Apart /\ AllFit /\ SubsidyIsOfTheTag

OnSale == {"idle", "createSale", "updateSale"}
OnCampaign == {"idle", "update", "tag", "delete"}

LEMMA OpsOf == Typed => \A w \in Worker : inflight[w] \in Requests /\ inflight[w].op \in Ops /\ Good(inflight[w])
BY DEF Typed, InflightTyped, Requests

LEMMA AloneOnSale ==
  ASSUME Typed, Overlap = FALSE, NEW op, op \in SaleOps, NEW s, Alone(op, s), NEW v \in Worker
  PROVE  inflight[v].op \in OnSale /\ (inflight[v].op # "idle" => inflight[v].id # s)
<1>1. inflight[v].op # "idle" => /\ inflight[v].op \in SaleOps /\ inflight[v].op # "deleteVehicle"
                                 /\ inflight[v].id # s
  BY DEF Alone, Collide
<1>2. QED BY <1>1, OpsOf DEF SaleOps, OnSale, Ops

LEMMA AloneOnCampaign ==
  ASSUME Typed, Overlap = FALSE, NEW op, op \in {"update", "tag", "delete"}, NEW c, Alone(op, c), NEW v \in Worker
  PROVE  inflight[v].op \in OnCampaign /\ (inflight[v].op # "idle" => inflight[v].id # c)
<1>1. inflight[v].op # "idle" => /\ inflight[v].op \notin SaleOps /\ inflight[v].op # "deleteVehicle"
                                 /\ inflight[v].id # c
  BY DEF Alone, Collide, SaleOps
<1>2. QED BY <1>1, OpsOf DEF SaleOps, OnCampaign, Ops

LEMMA ApartOnSale ==
  ASSUME Typed, Apart, NEW w \in Worker, inflight[w].op \in {"createSale", "updateSale"}, NEW v \in Worker \ {w}
  PROVE  inflight[v].op \in OnSale /\ (inflight[v].op # "idle" => inflight[v].id # inflight[w].id)
BY OpsOf DEF Apart, Pair, SaleOps, OnSale, Ops

LEMMA ApartOnCampaign ==
  ASSUME Typed, Apart, NEW w \in Worker, inflight[w].op \in {"update", "tag", "delete"}, NEW v \in Worker \ {w}
  PROVE  inflight[v].op \in OnCampaign /\ (inflight[v].op # "idle" => inflight[v].id # inflight[w].id)
BY OpsOf DEF Apart, Pair, SaleOps, OnCampaign, Ops

\* The requests after a step of worker w.
LEMMA ApartKept ==
  ASSUME Typed, Apart, NEW w \in Worker, NEW q, inflight' = [inflight EXCEPT ![w] = q],
         \/ q.op = "idle"
         \/ /\ q.op \in {"update", "tag", "delete"} /\ inflight[w].op \in {"update", "tag", "delete"}
            /\ q.id = inflight[w].id
  PROVE  Apart'
<1>1. inflight'[w] = q /\ \A v \in Worker \ {w} : inflight'[v] = inflight[v]
  BY DEF Typed, InflightTyped
<1>2. ASSUME NEW v \in Worker \ {w}, inflight[v].op # "idle", q.op # "idle"
      PROVE ~Pair(inflight[v], q) /\ ~Pair(q, inflight[v])
  <2>1. inflight[w].op # "idle" /\ ~Pair(inflight[v], inflight[w])
    BY <1>2 DEF Apart
  <2>2. QED BY <1>2, <2>1 DEF Pair, SaleOps
<1>3. QED BY <1>1, <1>2 DEF Apart

LEMMA ApartBegun ==
  ASSUME Typed, Apart, Overlap = FALSE, NEW w \in Worker, NEW q, inflight' = [inflight EXCEPT ![w] = q],
         Alone(q.op, q.id)
  PROVE  Apart'
<1>1. inflight'[w] = q /\ \A v \in Worker \ {w} : inflight'[v] = inflight[v]
  BY DEF Typed, InflightTyped
<1>2. ASSUME NEW v \in Worker \ {w}, inflight[v].op # "idle"
      PROVE ~Pair(inflight[v], q) /\ ~Pair(q, inflight[v])
  BY <1>2 DEF Alone, Collide, Pair
<1>3. QED BY <1>1, <1>2 DEF Apart

\* What the other requests have read, after a step on no row, on a sale, on a
\* campaign.
LEMMA FitsStill ==
  ASSUME UNCHANGED <<car, campaign, sale>>, NEW v \in Worker, inflight'[v] = inflight[v], Fits(inflight[v])
  PROVE  Fits(inflight[v])'
BY DEF Fits, Orphans, Candidates, Live, Effective, Covers

LEMMA FitsAfterSale ==
  ASSUME NEW v \in Worker, inflight'[v] = inflight[v], Fits(inflight[v]), inflight[v].op \in OnSale,
         inflight[v].op = "updateSale" => sale'[inflight[v].id].tag = sale[inflight[v].id].tag
  PROVE  Fits(inflight[v])'
BY DEF Fits, OnSale

SalesMoveTo(c) ==
  \A s \in Sale : /\ sale'[s].state = sale[s].state /\ sale'[s].day = sale[s].day
                  /\ sale'[s].car = sale[s].car /\ sale'[s].model = sale[s].model
                  /\ Live(s) => sale'[s].tag \in {sale[s].tag, c}

LEMMA FitsAfterCampaign ==
  ASSUME NEW v \in Worker, inflight'[v] = inflight[v], Fits(inflight[v]), Good(inflight[v]),
         inflight[v].op \in OnCampaign,
         NEW c \in Campaign, inflight[v].op # "idle" => inflight[v].id # c,
         \A d \in Campaign \ {c} : campaign'[d] = campaign[d], UNCHANGED car, SalesMoveTo(c)
  PROVE  Fits(inflight[v])'
<1> DEFINE r == inflight[v]
           d == r.id
<1>1. CASE r.op = "idle"
  BY <1>1 DEF Fits
<1>2. CASE r.op # "idle"
  <2>1. d \in Campaign /\ d # c /\ campaign'[d] = campaign[d]
    BY <1>2 DEF Good, OnCampaign
  <2>2. \A s \in Sale : /\ sale'[s].state = sale[s].state /\ sale'[s].day = sale[s].day
                        /\ (Effective(s))' = Effective(s)
                        /\ sale'[s].state = "live" /\ sale'[s].tag = d => sale[s].tag = d
                        /\ sale'[s].state = "live" /\ sale'[s].tag = NoCampaign => sale[s].tag = NoCampaign
    BY <2>1, CampaignNulls DEF SalesMoveTo, Live, Effective
  <2>3. ASSUME NEW models, Orphans(d, models) = {}
        PROVE  {s \in Sale : sale'[s].state = "live" /\ sale'[s].tag = d /\ (Effective(s))' \notin models \cup {NoModel}} = {}
    BY <2>2, <2>3 DEF Orphans, Live
  <2>4. ASSUME NEW todo, Candidates(d) \subseteq todo
        PROVE  {s \in Sale : /\ sale'[s].state = "live" /\ sale'[s].tag = NoCampaign
                             /\ campaign'[d].from <= sale'[s].day /\ sale'[s].day <= campaign'[d].to
                             /\ (Effective(s))' \in campaign'[d].models} \subseteq todo
    BY <2>1, <2>2, <2>4 DEF Candidates, Live, Covers
  <2>5. r.op # "createSale" /\ r.op # "updateSale"
    BY DEF OnCampaign
  <2>6. CASE r.op = "update"
    <3>1. r.mode = "keep" \/ (Orphans(d, r.row.models))' = {}
      BY <2>3, <2>6 DEF Fits, Orphans, Live
    <3>2. QED BY <2>1, <2>6, <3>1 DEF Fits
  <2>7. CASE r.op = "delete"
    BY <2>2, <2>7 DEF Fits, Live
  <2>8. CASE r.op = "tag"
    <3>1. r.mode = "read" => Candidates(d)' \subseteq r.todo
      BY <2>4, <2>8 DEF Fits, Candidates, Live, Covers
    <3>2. QED BY <2>8, <3>1 DEF Fits
  <2>9. QED BY <1>2, <2>6, <2>7, <2>8 DEF OnCampaign
<1>3. QED BY <1>1, <1>2
-----------------------------------------------------------------------------
\* How steps that write little keep the requests in order.
LEMMA NoRowMoved ==
  ASSUME Orderly, Typed', Apart', UNCHANGED <<car, campaign, sale>>, NEW w \in Worker,
         \A v \in Worker \ {w} : inflight'[v] = inflight[v], Fits(inflight[w])'
  PROVE  Orderly'
<1>1. ASSUME NEW v \in Worker \ {w} PROVE Fits(inflight[v])'
  BY <1>1, FitsStill DEF Orderly, AllFit
<1>2. SubsidyIsOfTheTag'
  BY DEF Orderly, SubsidyIsOfTheTag, Live
<1>3. QED BY <1>1, <1>2 DEF Orderly, AllFit

LEMMA Begun ==
  ASSUME Orderly, Overlap = FALSE, NEW w \in Worker, NEW q, Good(q), Fits(q), Begin(w, q)
  PROVE  Orderly'
<1>1. inflight' = [inflight EXCEPT ![w] = q] /\ UNCHANGED <<catalog, car, campaign, priced, sale>> /\ Alone(q.op, q.id)
  BY DEF Begin, rows
<1>2. inflight'[w] = q /\ \A v \in Worker \ {w} : inflight'[v] = inflight[v]
  BY <1>1 DEF Orderly, Typed, InflightTyped
<1>3. Typed' /\ Apart'
  BY <1>1, BegunTyped, ApartBegun DEF Orderly
<1>4. Fits(inflight[w])'
  BY <1>1, <1>2 DEF Fits, Orphans, Candidates, Live, Effective, Covers
<1>5. QED BY <1>1, <1>2, <1>3, <1>4, NoRowMoved

\* A sale or a car is written, and no request on a campaign is in flight.
LEMMA SaleMoved ==
  ASSUME Orderly, Typed', Apart', NEW id, UNCHANGED campaign, SubsidyIsOfTheTag',
         \A t \in Sale : t # id => sale'[t].tag = sale[t].tag,
         \A v \in Worker : \/ inflight'[v].op = "idle"
                           \/ /\ inflight'[v] = inflight[v] /\ inflight[v].op \in OnSale
                              /\ inflight[v].op # "idle" => inflight[v].id # id
  PROVE  Orderly'
<1>1. ASSUME NEW v \in Worker PROVE Fits(inflight[v])'
  <2>1. CASE inflight'[v].op = "idle"
    BY <2>1 DEF Fits
  <2>2. CASE inflight'[v].op # "idle"
    <3>1. /\ inflight'[v] = inflight[v] /\ inflight[v].op \in OnSale
          /\ inflight[v].op = "updateSale" => inflight[v].id \in Sale /\ inflight[v].id # id
      BY <2>2 DEF Orderly, Typed, InflightTyped, Good
    <3>2. QED BY <3>1, FitsAfterSale DEF Orderly, AllFit
  <2>3. QED BY <2>1, <2>2
<1>2. QED BY <1>1 DEF Orderly, AllFit

\* Campaign c and its sales are written, and no request on a sale is in flight.
LEMMA CampaignMoved ==
  ASSUME Orderly, Typed', Apart', NEW w \in Worker, NEW c \in Campaign, UNCHANGED car,
         \A d \in Campaign \ {c} : campaign'[d] = campaign[d], SalesMoveTo(c), SubsidyIsOfTheTag',
         \A v \in Worker \ {w} : /\ inflight'[v] = inflight[v] /\ inflight[v].op \in OnCampaign
                                 /\ inflight[v].op # "idle" => inflight[v].id # c,
         Fits(inflight[w])'
  PROVE  Orderly'
<1>1. ASSUME NEW v \in Worker \ {w} PROVE Fits(inflight[v])'
  BY <1>1, FitsAfterCampaign DEF Orderly, AllFit, Typed, InflightTyped
<1>2. QED BY <1>1 DEF Orderly, AllFit
-----------------------------------------------------------------------------
LEMMA BeginsOrderly ==
  ASSUME Orderly, Overlap = FALSE, NEW w \in Worker,
         \/ \E s \in Sale, k \in Car \cup {NoCar}, m \in Model \cup {NoModel}, c \in Campaign \cup {NoCampaign} :
               \/ \E day \in Days : BeginCreateSale(w, s, k, m, day, c)
               \/ BeginUpdateSale(w, s, k, m, c)
         \/ \E c \in Campaign : \/ BeginDeleteCampaign(w, c)
                                \/ \E row \in CampaignForms, mode \in {"plain", "keep"} :
                                      BeginUpdateCampaign(w, c, row, mode)
         \/ \E m \in Model : BeginDeleteVehicle(w, m)
  PROVE  Orderly'
<1>0. Typed
  BY DEF Orderly
<1>1. ASSUME NEW s \in Sale, NEW k \in Car \cup {NoCar}, NEW m \in Model \cup {NoModel},
             NEW c \in Campaign \cup {NoCampaign}, NEW day \in Days, BeginCreateSale(w, s, k, m, day, c)
      PROVE Orderly'
  <2>1. PICK r \in SaleRow : /\ Begin(w, [Idle EXCEPT !.op = "createSale", !.id = s, !.sale = r])
                             /\ r.subsidy \in {NoCampaign, r.tag}
    BY <1>0, <1>1, CreateSaleMade
  <2> DEFINE q == [Idle EXCEPT !.op = "createSale", !.id = s, !.sale = r]
  <2>2. Good(q) /\ q.op = "createSale" /\ q.sale = r
    BY Made DEF Idle
  <2>3. Begin(w, q)
    BY <2>1
  <2> HIDE DEF q
  <2>4. Fits(q)
    BY <2>1, <2>2 DEF Fits
  <2>5. QED BY <2>2, <2>3, <2>4, Begun
<1>2. ASSUME NEW s \in Sale, NEW k \in Car \cup {NoCar}, NEW m \in Model \cup {NoModel},
             NEW c \in Campaign \cup {NoCampaign}, BeginUpdateSale(w, s, k, m, c)
      PROVE Orderly'
  <2>1. PICK r \in SaleRow, mode \in {"plain", "swap"} :
            /\ Begin(w, [Idle EXCEPT !.op = "updateSale", !.id = s, !.mode = mode, !.sale = r])
            /\ mode = "swap" => r.car \in Car
            /\ r.subsidy \in {NoCampaign, IF r.tag # NoCampaign THEN r.tag ELSE sale[s].tag}
    BY <1>0, <1>2, UpdateSaleMade
  <2> DEFINE q == [Idle EXCEPT !.op = "updateSale", !.id = s, !.mode = mode, !.sale = r]
  <2>2. Good(q) /\ q.op = "updateSale" /\ q.sale = r /\ q.id = s
    BY <2>1, Made DEF Idle
  <2>3. Begin(w, q)
    BY <2>1
  <2> HIDE DEF q
  <2>4. Fits(q)
    BY <2>1, <2>2 DEF Fits, FromTag
  <2>5. QED BY <2>2, <2>3, <2>4, Begun
<1>3. ASSUME NEW c \in Campaign, BeginDeleteCampaign(w, c) PROVE Orderly'
  <2> DEFINE q == [Idle EXCEPT !.op = "delete", !.id = c]
  <2>1. Good(q) /\ q.op = "delete" /\ q.id = c
    BY Made DEF Idle
  <2>2. Begin(w, q) /\ ~\E s \in Sale : Live(s) /\ sale[s].tag = c
    BY <1>3 DEF BeginDeleteCampaign
  <2> HIDE DEF q
  <2>3. Fits(q)
    BY <2>1, <2>2 DEF Fits
  <2>4. QED BY <2>1, <2>2, <2>3, Begun
<1>4. ASSUME NEW c \in Campaign, NEW row \in CampaignForms, NEW mode \in {"plain", "keep"},
             BeginUpdateCampaign(w, c, row, mode)
      PROVE Orderly'
  <2> DEFINE q == [Idle EXCEPT !.op = "update", !.id = c, !.row = row, !.mode = mode, !.current = campaign[c].models]
  <2>1. Good(q) /\ Begin(w, q) /\ (mode = "keep" \/ Orphans(c, row.models) = {})
    BY <1>0, <1>4, UpdateCampaignMade
  <2>2. q.op = "update" /\ q.id = c /\ q.row = row /\ q.mode = mode /\ q.current = campaign[c].models
    BY DEF Idle
  <2> HIDE DEF q
  <2>3. Fits(q)
    BY <2>1, <2>2 DEF Fits
  <2>4. QED BY <2>1, <2>3, Begun
<1>5. ASSUME NEW m \in Model, BeginDeleteVehicle(w, m) PROVE Orderly'
  <2> DEFINE q == [Idle EXCEPT !.op = "deleteVehicle", !.current = {m}]
  <2>1. Good(q) /\ q.op = "deleteVehicle" /\ Begin(w, q)
    BY <1>5, Made DEF Idle, BeginDeleteVehicle
  <2> HIDE DEF q
  <2>2. Fits(q)
    BY <2>1 DEF Fits
  <2>3. QED BY <2>1, <2>2, Begun
<1>6. QED BY <1>1, <1>2, <1>3, <1>4, <1>5

LEMMA SaleStepsOrderly ==
  ASSUME Orderly, Overlap = FALSE, Typed', NEW s \in Sale,
         \/ \E k \in Car \cup {NoCar}, m \in Model \cup {NoModel}, day \in Days : ConvertToSale(s, k, m, day)
         \/ \E k \in Car : AssignStock(s, k)
         \/ CancelSale(s) \/ DeleteSale(s)
  PROVE  Orderly'
<1>0. Typed /\ sale \in [Sale -> SaleRow]
  BY DEF Orderly, Typed, SalesTyped
<1>1. Alone("onSale", s) /\ UNCHANGED <<campaign, inflight>>
  BY DEF ConvertToSale, AssignStock, CancelSale, DeleteSale
<1>2. \A v \in Worker : inflight[v].op \in OnSale /\ (inflight[v].op # "idle" => inflight[v].id # s)
  BY <1>0, <1>1, AloneOnSale DEF SaleOps
<1>3. Apart'
  BY <1>1 DEF Orderly, Apart
<1>4. /\ \A t \in Sale \ {s} : sale'[t] = sale[t]
      /\ sale'[s].state = "live" /\ sale'[s].subsidy # NoCampaign
           => Live(s) /\ sale'[s].tag = sale[s].tag /\ sale'[s].subsidy = sale[s].subsidy
  <2>1. ASSUME NEW k \in Car \cup {NoCar}, NEW m \in Model \cup {NoModel}, NEW day \in Days, ConvertToSale(s, k, m, day)
        PROVE <1>4!1 /\ <1>4!2
    BY <1>0, <2>1 DEF ConvertToSale
  <2>2. ASSUME NEW k \in Car, AssignStock(s, k) PROVE <1>4!1 /\ <1>4!2
    BY <1>0, <2>2 DEF AssignStock, Live, SaleRow
  <2>3. CASE CancelSale(s)
    BY <1>0, <2>3 DEF CancelSale, SaleRow
  <2>4. CASE DeleteSale(s)
    BY <1>0, <2>4 DEF DeleteSale, NoSaleRow
  <2>5. QED BY <2>1, <2>2, <2>3, <2>4
<1>5. SubsidyIsOfTheTag'
  BY <1>4 DEF Orderly, SubsidyIsOfTheTag, Live
<1>6. QED BY <1>1, <1>2, <1>3, <1>4, <1>5, SaleMoved

LEMMA CarStepsOrderly ==
  ASSUME Orderly, Overlap = FALSE, Typed', NEW k \in Car,
         SoftDeleteCar(k) \/ \E m \in Model : CreateCar(k, m) \/ ChangeCarModel(k, m)
  PROVE  Orderly'
<1>0. Typed
  BY DEF Orderly
<1>1. Alone("onSale", NoCar) /\ UNCHANGED <<campaign, sale, inflight>>
  BY DEF SoftDeleteCar, CreateCar, ChangeCarModel
<1>2. \A v \in Worker : inflight[v].op \in OnSale /\ (inflight[v].op # "idle" => inflight[v].id # NoCar)
  BY <1>0, <1>1, AloneOnSale DEF SaleOps
<1>3. Apart' /\ SubsidyIsOfTheTag'
  BY <1>1 DEF Orderly, Apart, SubsidyIsOfTheTag, Live
<1>4. QED BY <1>1, <1>2, <1>3, SaleMoved

LEMMA CommitSaleOrderly ==
  ASSUME Orderly, Typed', NEW w \in Worker, CommitCreateSale(w) \/ CommitUpdateSale(w)
  PROVE  Orderly'
<1> DEFINE r == inflight[w]
<1>0. /\ Typed /\ sale \in [Sale -> SaleRow] /\ Good(r) /\ r.sale \in SaleRow /\ Fits(r)
      /\ r.op \in {"createSale", "updateSale"} /\ r.id \in Sale
  BY DEF Orderly, Typed, SalesTyped, InflightTyped, Requests, Good, AllFit, CommitCreateSale, CommitUpdateSale
<1>1. inflight' = [inflight EXCEPT ![w] = Idle] /\ UNCHANGED campaign
  BY DEF CommitCreateSale, CommitUpdateSale, Finish, Then
<1>2. inflight'[w] = Idle /\ \A v \in Worker \ {w} : inflight'[v] = inflight[v]
  BY <1>0, <1>1 DEF Typed, InflightTyped
<1>3. \A v \in Worker \ {w} : inflight[v].op \in OnSale /\ (inflight[v].op # "idle" => inflight[v].id # r.id)
  BY <1>0, ApartOnSale DEF Orderly
<1>4. Apart'
  BY <1>0, <1>1, IdleGood, ApartKept DEF Orderly
<1>5. (\A t \in Sale \ {r.id} : sale'[t] = sale[t]) /\ sale'[r.id].subsidy \in {NoCampaign, sale'[r.id].tag}
  <2>1. CASE CommitCreateSale(w)
    BY <1>0, <2>1 DEF CommitCreateSale, Fits
  <2>2. CASE CommitUpdateSale(w)
    <3>1. \A t \in Sale \ {r.id} : sale'[t] = sale[t]
      BY <1>0, <2>2 DEF CommitUpdateSale
    <3>2. r.op = "updateSale" /\ FromTag(r.sale, sale[r.id].tag)
      BY <1>0, <2>2 DEF Fits, CommitUpdateSale
    <3>3. sale'[r.id].subsidy = r.sale.subsidy
      BY <1>0, <2>2 DEF CommitUpdateSale, SaleRow
    <3>4. sale'[r.id].tag = IF r.sale.tag # NoCampaign THEN r.sale.tag ELSE sale[r.id].tag
      BY <1>0, <2>2 DEF CommitUpdateSale, SaleRow
    <3>5. QED BY <3>1, <3>2, <3>3, <3>4 DEF FromTag
  <2>3. QED BY <2>1, <2>2
<1>6. SubsidyIsOfTheTag'
  BY <1>5 DEF Orderly, SubsidyIsOfTheTag, Live
<1> HIDE DEF r
<1>7. QED BY <1>1, <1>2, <1>3, <1>4, <1>5, <1>6, IdleGood, SaleMoved
-----------------------------------------------------------------------------
LEMMA TaggingFits == \A c \in Campaign : (Tagging(c)).op = "tag" /\ (Tagging(c)).id = c /\ (Tagging(c)).mode = "plain"
BY DEF Tagging, Idle

\* Steps on a campaign that are one request, or the first half of one.
LEMMA CampaignStepsOrderly ==
  ASSUME Orderly, Overlap = FALSE, Typed', NEW w \in Worker, NEW c \in Campaign,
         \/ \E row \in CampaignForms : CreateCampaign(w, c, row)
         \/ \E source \in Campaign, window \in Windows : Duplicate(c, source, window)
         \/ \E m \in Model : AddVehicleModel(w, c, m) \/ RemoveVehicleModel(c, m) \/ EditFormulas(c, m)
  PROVE  Orderly'
<1>0. Typed /\ campaign \in [Campaign -> CampaignRow] /\ inflight \in [Worker -> Requests]
  BY DEF Orderly, Typed, CampaignsTyped, InflightTyped
<1>1. /\ Alone("tag", c) /\ UNCHANGED <<car, sale>> /\ \A d \in Campaign \ {c} : campaign'[d] = campaign[d]
      /\ inflight' = inflight \/ inflight' = [inflight EXCEPT ![w] = Tagging(c)]
  BY <1>0 DEF CreateCampaign, Duplicate, AddVehicleModel, RemoveVehicleModel, EditFormulas, Then
<1>2. \A v \in Worker : inflight[v].op \in OnCampaign /\ (inflight[v].op # "idle" => inflight[v].id # c)
  BY <1>0, <1>1, AloneOnCampaign
<1>3. SalesMoveTo(c) /\ SubsidyIsOfTheTag'
  BY <1>1 DEF SalesMoveTo, Orderly, SubsidyIsOfTheTag, Live
<1>4. CASE inflight' = inflight
  <2>1. Apart'
    BY <1>4 DEF Orderly, Apart
  <2>2. Fits(inflight[w])'
    BY <1>0, <1>1, <1>2, <1>3, <1>4, FitsAfterCampaign DEF Orderly, AllFit, Typed, InflightTyped
  <2>3. QED BY <1>1, <1>2, <1>3, <1>4, <2>1, <2>2, CampaignMoved
<1>5. CASE inflight' = [inflight EXCEPT ![w] = Tagging(c)]
  <2>1. Apart'
    BY <1>0, <1>1, <1>5, TaggingFits, ApartBegun DEF Orderly
  <2>2. inflight'[w] = Tagging(c) /\ \A v \in Worker \ {w} : inflight'[v] = inflight[v]
    BY <1>0, <1>5
  <2>3. Fits(inflight[w])'
    BY <2>2, TaggingFits DEF Fits
  <2>4. QED BY <1>1, <1>2, <1>3, <2>1, <2>2, <2>3, CampaignMoved
<1>6. QED BY <1>1, <1>4, <1>5

LEMMA CommitCampaignOrderly ==
  ASSUME Orderly, Typed', NEW w \in Worker, CommitUpdateCampaign(w) \/ TagSale(w) \/ CommitDeleteCampaign(w)
  PROVE  Orderly'
<1> DEFINE r == inflight[w]
           c == r.id
<1>0. /\ Typed /\ campaign \in [Campaign -> CampaignRow] /\ sale \in [Sale -> SaleRow]
      /\ inflight \in [Worker -> Requests] /\ Good(r) /\ Fits(r)
      /\ r.op \in {"update", "tag", "delete"} /\ c \in Campaign
  BY DEF Orderly, Typed, CampaignsTyped, SalesTyped, InflightTyped, Good, AllFit,
     CommitUpdateCampaign, TagSale, CommitDeleteCampaign
<1>1. \A v \in Worker \ {w} : inflight[v].op \in OnCampaign /\ (inflight[v].op # "idle" => inflight[v].id # c)
  BY <1>0, ApartOnCampaign DEF Orderly
<1>2. UNCHANGED car /\ \A d \in Campaign \ {c} : campaign'[d] = campaign[d]
  BY <1>0 DEF CommitUpdateCampaign, ModelsChanged, TagSale, CommitDeleteCampaign
<1>3. CASE CommitUpdateCampaign(w)
  <2>1. inflight' = [inflight EXCEPT ![w] = Tagging(c)] /\ UNCHANGED sale
    BY <1>3 DEF CommitUpdateCampaign, Then
  <2>2. inflight'[w] = Tagging(c) /\ \A v \in Worker \ {w} : inflight'[v] = inflight[v]
    BY <1>0, <2>1
  <2>3. Apart'
    BY <1>0, <2>1, TaggingFits, ApartKept DEF Orderly
  <2>4. Fits(inflight[w])'
    BY <1>0, <2>2, TaggingFits DEF Fits
  <2>5. SalesMoveTo(c) /\ SubsidyIsOfTheTag'
    BY <2>1 DEF SalesMoveTo, Orderly, SubsidyIsOfTheTag, Live
  <2> HIDE DEF r, c
  <2>6. QED BY <1>0, <1>1, <1>2, <2>2, <2>3, <2>4, <2>5, CampaignMoved
<1>4. CASE TagSale(w)
  <2>1. PICK s \in r.todo : /\ sale' = [sale EXCEPT ![s].tag = c, ![s].subsidy = c]
                            /\ inflight' = [inflight EXCEPT ![w] = [r EXCEPT !.todo = r.todo \ {s}]]
    BY <1>0, <1>4 DEF TagSale, Then, Requests, Good
  <2> DEFINE q == [r EXCEPT !.todo = r.todo \ {s}]
  <2>2. s \in Sale /\ q.op = r.op /\ q.id = c /\ q.mode = r.mode /\ q.todo = r.todo \ {s} /\ r.op = "tag"
    BY <1>0, <1>4 DEF TagSale, Requests, Good
  <2>3. inflight' = [inflight EXCEPT ![w] = q]
    BY <2>1
  <2>a. UNCHANGED <<car, campaign>>
    BY <1>4 DEF TagSale
  <2> HIDE DEF q
  <2>4. inflight'[w] = q /\ \A v \in Worker \ {w} : inflight'[v] = inflight[v]
    BY <1>0, <2>3
  <2>5. Apart'
    BY <1>0, <2>2, <2>3, ApartKept DEF Orderly
  <2>6. /\ \A t \in Sale \ {s} : sale'[t] = sale[t]
        /\ sale'[s].tag = c /\ sale'[s].subsidy = c /\ sale'[s].state = sale[s].state
        /\ sale'[s].day = sale[s].day /\ sale'[s].car = sale[s].car /\ sale'[s].model = sale[s].model
    BY <1>0, <2>1, <2>2 DEF SaleRow
  <2>7. SalesMoveTo(c) /\ SubsidyIsOfTheTag'
    BY <2>6 DEF SalesMoveTo, Orderly, SubsidyIsOfTheTag, Live
  <2>8. {t \in Sale : /\ sale'[t].state = "live" /\ sale'[t].tag = NoCampaign
                      /\ campaign'[c].from <= sale'[t].day /\ sale'[t].day <= campaign'[c].to
                      /\ (Effective(t))' \in campaign'[c].models} \subseteq Candidates(c) \ {s}
    <3>1. ASSUME NEW t \in Sale, t # s
          PROVE (Effective(t))' = Effective(t) /\ sale'[t] = sale[t]
      BY <2>6, <2>a, <3>1 DEF Effective
    <3>2. QED BY <1>0, <2>2, <2>6, <2>a, <3>1, CampaignNulls DEF Candidates, Live, Covers
  <2>9. Fits(inflight[w])'
    <3>1. r.mode = "read" => Candidates(c) \subseteq r.todo
      BY <1>0, <2>2 DEF Fits
    <3>2. inflight'[w].mode = "read"
             => {t \in Sale : /\ sale'[t].state = "live" /\ sale'[t].tag = NoCampaign
                              /\ campaign'[c].from <= sale'[t].day /\ sale'[t].day <= campaign'[c].to
                              /\ (Effective(t))' \in campaign'[c].models} \subseteq inflight'[w].todo
      BY <2>2, <2>4, <2>8, <3>1
    <3>3. inflight'[w].op = "tag" /\ inflight'[w].id = c
      BY <2>2, <2>4
    <3> HIDE DEF r, c
    <3>4. QED BY <3>2, <3>3 DEF Fits, Candidates, Live, Covers
  <2> HIDE DEF r, c
  <2>10. QED BY <1>0, <1>1, <1>2, <2>4, <2>5, <2>7, <2>9, CampaignMoved
<1>5. CASE CommitDeleteCampaign(w)
  <2>1. /\ inflight' = [inflight EXCEPT ![w] = Idle] /\ r.op = "delete"
        /\ sale' = [s \in Sale |-> [sale[s] EXCEPT !.tag = IF sale[s].tag = c THEN NoCampaign ELSE sale[s].tag]]
    BY <1>5 DEF CommitDeleteCampaign, Finish, Then
  <2>2. inflight'[w] = Idle /\ \A v \in Worker \ {w} : inflight'[v] = inflight[v]
    BY <1>0, <2>1
  <2>3. Apart'
    BY <1>0, <2>1, IdleGood, ApartKept DEF Orderly
  <2>4. Fits(inflight[w])'
    BY <2>2, IdleGood DEF Fits
  <2>5. \A s \in Sale : ~(Live(s) /\ sale[s].tag = c)
    BY <1>0, <2>1 DEF Fits
  <2>6. ASSUME NEW s \in Sale
        PROVE  /\ sale'[s].state = sale[s].state /\ sale'[s].day = sale[s].day /\ sale'[s].subsidy = sale[s].subsidy
               /\ sale'[s].car = sale[s].car /\ sale'[s].model = sale[s].model
               /\ Live(s) => sale'[s].tag = sale[s].tag
    <3>1. sale[s] \in SaleRow /\ sale'[s] = [sale[s] EXCEPT !.tag = IF sale[s].tag = c THEN NoCampaign ELSE sale[s].tag]
      BY <1>0, <2>1
    <3> HIDE DEF c
    <3>2. QED BY <2>5, <3>1 DEF SaleRow, Live
  <2>7. SalesMoveTo(c) /\ SubsidyIsOfTheTag'
    BY <2>6 DEF SalesMoveTo, Orderly, SubsidyIsOfTheTag, Live
  <2> HIDE DEF r, c
  <2>8. QED BY <1>0, <1>1, <1>2, <2>2, <2>3, <2>4, <2>7, CampaignMoved
<1>6. QED BY <1>3, <1>4, <1>5

LEMMA QuietOrderly ==
  ASSUME Orderly, Typed', NEW w \in Worker, BeginTagging(w) \/ EndTagging(w) \/ FailRequest(w)
  PROVE  Orderly'
<1> DEFINE r == inflight[w]
           read == [r EXCEPT !.mode = "read", !.todo = Candidates(r.id)]
<1>0. Typed /\ inflight \in [Worker -> Requests] /\ r \in Requests
  BY DEF Orderly, Typed, InflightTyped
<1>1. UNCHANGED <<catalog, car, campaign, priced, sale>>
  BY DEF BeginTagging, EndTagging, FailRequest, rows
<1>2. CASE inflight' = [inflight EXCEPT ![w] = Idle]
  <2>1. inflight'[w] = Idle /\ \A v \in Worker \ {w} : inflight'[v] = inflight[v]
    BY <1>0, <1>2
  <2>2. Apart' /\ Fits(inflight[w])'
    BY <1>0, <1>2, <2>1, IdleGood, ApartKept DEF Orderly, Fits
  <2>3. QED BY <1>1, <2>1, <2>2, NoRowMoved
<1>3. CASE BeginTagging(w) /\ inflight' = [inflight EXCEPT ![w] = read]
  <2>1. inflight'[w] = read /\ \A v \in Worker \ {w} : inflight'[v] = inflight[v]
    BY <1>0, <1>3
  <2>2. r.op = "tag" /\ read.op = "tag" /\ read.id = r.id /\ read.todo = Candidates(r.id)
    BY <1>0, <1>3 DEF BeginTagging, Requests
  <2> HIDE DEF read
  <2>3. Apart'
    BY <1>0, <1>3, <2>2, ApartKept DEF Orderly
  <2>5. {s \in Sale : /\ sale'[s].state = "live" /\ sale'[s].tag = NoCampaign
                      /\ campaign'[r.id].from <= sale'[s].day /\ sale'[s].day <= campaign'[r.id].to
                      /\ (Effective(s))' \in campaign'[r.id].models} = Candidates(r.id)
    BY <1>1 DEF Candidates, Live, Covers, Effective
  <2>6. Fits(inflight[w])'
    BY <2>1, <2>2, <2>5 DEF Fits, Candidates, Live, Covers
  <2>7. QED BY <1>1, <2>1, <2>3, <2>6, NoRowMoved
<1>4. QED BY <1>2, <1>3 DEF BeginTagging, EndTagging, FailRequest, Finish, Then

LEMMA CommitDeleteVehicleOrderly ==
  ASSUME Orderly, Typed', NEW w \in Worker, CommitDeleteVehicle(w)
  PROVE  Orderly'
<1>0. Typed /\ inflight \in [Worker -> Requests]
  BY DEF Orderly, Typed, InflightTyped
<1>1. \A v \in Worker \ {w} : inflight[v].op = "idle"
  BY DEF CommitDeleteVehicle, Orderly, Apart, Pair
<1>2. inflight' = [inflight EXCEPT ![w] = Idle]
  BY DEF CommitDeleteVehicle, Finish, Then
<1>3. \A v \in Worker : inflight'[v].op = "idle"
  BY <1>0, <1>1, <1>2, IdleGood
<1>4. Apart' /\ AllFit'
  BY <1>3 DEF Apart, AllFit, Fits
<1>5. \A s \in Sale : sale'[s].state = sale[s].state /\ sale'[s].tag = sale[s].tag /\ sale'[s].subsidy = sale[s].subsidy
  BY DEF CommitDeleteVehicle, Orderly, Typed, SalesTyped, SaleRow
<1>6. SubsidyIsOfTheTag'
  BY <1>5 DEF Orderly, SubsidyIsOfTheTag, Live
<1>7. QED BY <1>4, <1>6 DEF Orderly

LEMMA StepOrderly ==
  ASSUME Orderly, Overlap = FALSE, [Next]_vars
  PROVE  Orderly'
<1>0. Typed'
  BY StepTyped DEF Orderly
<1>1. ASSUME NEW w \in Worker, NEW s \in Sale, SaleRequest(w, s) PROVE Orderly'
  BY <1>0, <1>1, BeginsOrderly, SaleStepsOrderly DEF SaleRequest
<1>2. ASSUME NEW w \in Worker, NEW c \in Campaign, CampaignRequest(w, c) PROVE Orderly'
  BY <1>0, <1>2, BeginsOrderly, CampaignStepsOrderly DEF CampaignRequest
<1>3. ASSUME NEW w \in Worker, CatalogueRequest(w) PROVE Orderly'
  BY <1>0, <1>3, BeginsOrderly, CarStepsOrderly DEF CatalogueRequest
<1>4. CASE UNCHANGED vars
  <2>1. UNCHANGED <<catalog, car, campaign, priced, sale, inflight>>
    BY <1>4 DEF vars
  <2>2. Apart' /\ SubsidyIsOfTheTag'
    BY <2>1 DEF Orderly, Apart, SubsidyIsOfTheTag, Live
  <2>3. ASSUME NEW v \in Worker PROVE Fits(inflight[v])'
    BY <2>1, FitsStill DEF Orderly, AllFit
  <2>4. QED BY <1>0, <2>2, <2>3 DEF Orderly, AllFit
<1>5. ASSUME NEW w \in Worker,
             \/ CommitCreateSale(w) \/ CommitUpdateSale(w) \/ CommitUpdateCampaign(w)
             \/ BeginTagging(w) \/ TagSale(w) \/ EndTagging(w)
             \/ CommitDeleteCampaign(w) \/ CommitDeleteVehicle(w) \/ FailRequest(w)
      PROVE Orderly'
  BY <1>0, <1>5, CommitSaleOrderly, CommitCampaignOrderly, QuietOrderly, CommitDeleteVehicleOrderly
<1>6. QED BY <1>1, <1>2, <1>3, <1>4, <1>5 DEF Next

LEMMA InitOrderly == Init => Orderly
<1> SUFFICES ASSUME Init PROVE Orderly
  OBVIOUS
<1>1. \A w \in Worker : inflight[w].op = "idle"
  BY IdleGood DEF Init
<1>2. Apart /\ AllFit
  BY <1>1 DEF Apart, AllFit, Fits
<1>3. SubsidyIsOfTheTag
  BY DEF Init, SubsidyIsOfTheTag, Live, NoSaleRow
<1>4. QED BY <1>2, <1>3, InitTyped DEF Orderly

LEMMA UpdateReports ==
  ASSUME Orderly, NEW w \in Worker, CommitUpdateCampaign(w), NEW s \in Sale, Reported(s)
  PROVE  Reported(s)'
<1> DEFINE r == inflight[w]
           c == r.id
<1>1. /\ Typed /\ campaign \in [Campaign -> CampaignRow] /\ c \in Campaign /\ r.row \in CampaignRow /\ r.op = "update"
      /\ r.current = campaign[c].models /\ (r.mode = "keep" \/ Orphans(c, r.row.models) = {})
  BY DEF Orderly, Typed, CampaignsTyped, InflightTyped, Good, Requests, AllFit, Fits, CommitUpdateCampaign
<1>2. UNCHANGED <<catalog, car, sale>>
  BY DEF CommitUpdateCampaign
<1>3. sale'[s] = sale[s] /\ (Effective(s))' = Effective(s) /\ Live(s)'
  BY <1>2 DEF Effective, Live, Reported
<1>4. CASE sale[s].tag # c
  <2>1. campaign'[sale[s].tag] = campaign[sale[s].tag]
    BY <1>1, <1>4 DEF CommitUpdateCampaign, ModelsChanged, Reported, Typed, SalesTyped, SaleRow
  <2>2. QED BY <1>3, <2>1 DEF Reported
<1>5. CASE sale[s].tag = c
  <2>1. Live(s) /\ Effective(s) \in campaign[c].models /\ Effective(s) # NoModel /\ sale[s].tag # NoCampaign
    BY <1>1, <1>5, CampaignNulls DEF Reported, CampaignRow
  <2>2. Effective(s) \in campaign'[c].models
    <3>1. CASE r.mode = "keep"
      <4>1. campaign'[c] = [r.row EXCEPT !.models = campaign[c].models]
        BY <1>1, <3>1 DEF CommitUpdateCampaign
      <4>2. campaign'[c].models = campaign[c].models
        BY <1>1, <4>1 DEF CampaignRow
      <4>3. QED BY <2>1, <4>2
    <3>2. CASE r.mode # "keep"
      <4> DEFINE kept == campaign[c].models \ (r.current \ r.row.models)
                 new == r.row.models \ r.current
      <4>1. campaign'[c] = [r.row EXCEPT !.models = kept \cup new]
        BY <1>1, <3>2 DEF CommitUpdateCampaign, ModelsChanged
      <4>2. campaign'[c].models = kept \cup new
        BY <1>1, <4>1 DEF CampaignRow
      <4>3. Effective(s) \in r.row.models
        BY <1>1, <1>5, <2>1, <3>2 DEF Orphans
      <4>4. QED BY <1>1, <2>1, <4>2, <4>3
    <3>3. QED BY <3>1, <3>2
  <2>3. QED BY <1>3, <1>5, <2>1, <2>2 DEF Reported
<1>6. QED BY <1>4, <1>5
-----------------------------------------------------------------------------
\* When requests on the same rows follow each other, the frozen subsidy of a live
\* sale is that of the campaign it is tagged with.
THEOREM SubsidiesFollowTags ==
  ASSUME Overlap = FALSE PROVE Spec => []SubsidyIsOfTheTag
<1>1. Orderly /\ [Next]_vars => Orderly'
  BY StepOrderly
<1>2. Orderly => SubsidyIsOfTheTag
  BY DEF Orderly
<1>3. QED BY <1>1, <1>2, InitOrderly, PTL DEF Spec

\* And an activation that ends has left no live sale it covers without a tag.
THEOREM ActivationsTagAll ==
  ASSUME Overlap = FALSE PROVE Spec => []ActivationTagsAll
<1>1. Orderly /\ [Next]_vars => Orderly'
  BY StepOrderly
<1>2. Orderly => ActivationTagsAll
  <2>1. ASSUME Orderly, NEW w \in Worker, inflight[w].op = "tag", inflight[w].mode = "read", inflight[w].todo = {}
        PROVE Candidates(inflight[w].id) = {}
    BY <2>1 DEF Orderly, AllFit, Fits
  <2>2. QED BY <2>1 DEF ActivationTagsAll, Candidates
<1>3. QED BY <1>1, <1>2, InitOrderly, PTL DEF Spec

\* And editing a campaign drops no live sale from its report.
THEOREM UpdatesKeepReports ==
  ASSUME Overlap = FALSE PROVE Spec => UpdateKeepsReport
<1>1. Orderly /\ [Next]_vars => Orderly'
  BY StepOrderly
<1>2. Orderly /\ [Next]_vars => [UpdateStep]_vars
  BY OnlyUpdatesTag, UpdateReports DEF UpdateStep, Orderly
<1>3. QED BY <1>1, <1>2, InitOrderly, PTL DEF Spec, UpdateKeepsReport

=============================================================================
