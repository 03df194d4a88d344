---------------------------- MODULE MCGetterLink ----------------------------
(* Peripherals for GetterLink. *)
EXTENDS GetterLink

(* A peripheral that gives the answer each request asks for, *)
Obliging ==
    [op \in Request |->
        CASE op = "FEATURE_REQ" -> {"FEATURE_RSP"}
          [] op = "VERSION_IND" -> {"VERSION_IND"}
          [] op = "PHY_REQ"     -> {"PHY_RSP"}
          [] op = "LENGTH_REQ"  -> {"LENGTH_RSP"}
          [] op = "MTU_REQ"     -> {"MTU_RSP"}]

(* one from before LL_LENGTH_REQ existed, *)
Old == [Obliging EXCEPT !["LENGTH_REQ"] = @ \cup {"UNKNOWN_RSP", "REJECT_IND"}]

(* one that may answer LL_LENGTH_REQ in any way, *)
Any == [Obliging EXCEPT !["LENGTH_REQ"] = @ \cup {"UNKNOWN_RSP", "REJECT_IND", "REJECT_EXT_IND"}]

(* one that has 2M among its features and rejects the request, *)
RejectsPhy == [Obliging EXCEPT !["PHY_REQ"] = {"REJECT_EXT_IND"}]

(* and one that has no MTU exchange. *)
NoMtu == [Obliging EXCEPT !["MTU_REQ"] = {"ERROR_RSP"}]

Everything == {"PERIPHERAL_FEATURE_REQ", "VERSION_IND", "LENGTH_REQ", "PHY_REQ", "MTU_REQ", "OTHER"}

(* All but a version that comes before it was asked for. *)
AllButVersion == Everything \ {"VERSION_IND"}

FeatureAndVersion == {"PERIPHERAL_FEATURE_REQ", "VERSION_IND"}

JustLength == {"LENGTH_REQ"}
=============================================================================
