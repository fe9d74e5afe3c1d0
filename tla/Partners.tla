------------------------------- MODULE Partners -------------------------------
(***************************************************************************)
(* Merchants on the site: their accounts, their products and their banners. *)
(* The three share no state, so a behaviour is one of any.                  *)
(***************************************************************************)
EXTENDS MerchantAccounts, ProductEdits

CONSTANTS Banners, Images, MostPromotions

ASSUME PromotionsAssumption == MostPromotions \in Nat

VARIABLES
  product, banner, made, removed, count, bannerTask, bannersApart,
  productRow, productTask, reviewed, orderly

VARIABLE part

banners ==
  <<product, banner, made, removed, count, bannerTask, bannersApart>>

products == <<productRow, productTask, reviewed, orderly>>

B == INSTANCE MerchantBanners WITH task <- bannerTask, apart <- bannersApart

P == INSTANCE MerchantProducts WITH row <- productRow, task <- productTask

PartnersInit ==
  /\ Init /\ B!Init /\ P!Init
  /\ part \in {"accounts", "banners", "products"}
  /\ part # "banners" => product = [b \in Banners |-> "gone"]

PartnersNext ==
  \/ part = "accounts" /\ Next /\ UNCHANGED <<banners, products, part>>
  \/ part = "banners" /\ B!Next /\ UNCHANGED <<vars, products, part>>
  \/ part = "products" /\ P!Next /\ UNCHANGED <<vars, banners, part>>

everything == <<vars, banners, products, part>>

PartnersSpec == PartnersInit /\ [][PartnersNext]_everything

\* The property of MerchantBanners.
OnePromotionPerBanner == B!OnePromotionPerBanner

\* The properties of MerchantProducts.
SoldWasApproved == P!SoldWasApproved

SoldIsReviewed == P!SoldIsReviewed

StaysLive == P!StaysLive
=============================================================================
