--------------------------- MODULE ConsoleTables ---------------------------
(***************************************************************************)
(* The pages of the console, as descriptors for ConsolePage: of each page  *)
(* its load, its handlers, and the buttons its JSX offers them on.         *)
(*                                                                         *)
(* Handler, List and the controls are what most pages have; a page states  *)
(* what it does otherwise.                                                 *)
(***************************************************************************)
EXTENDS TLC

\* One flag, a reload that is awaited, a toast for every failure
Handler == [effect |-> "change", unique |-> FALSE, closes |-> TRUE,
            keeps |-> TRUE, tells |-> "toast", tail |-> FALSE,
            busy |-> "flag", then |-> "reload"]

\* Loaded at the start, cleared of its error, which hides the rows
List == [follows |-> "nothing", clears |-> TRUE, blanks |-> FALSE,
         fails |-> "error"]

Control(opens, on) == [opens |-> opens, on |-> on, disabled |-> TRUE]
PageForm   == Control("form", "page")
RowForm    == Control("form", "row")
PageDialog == Control("dialog", "page")
Dialog     == Control("dialog", "row")
PageButton == Control("button", "page")
RowButton  == Control("button", "row")
LooseForm  == [RowForm EXCEPT !.disabled = FALSE]
NoControls == <<>>

\* Users of the tenant
UsersLoad == [List EXCEPT !.follows = "query"]
UsersCreate == [Handler EXCEPT !.effect = "create", !.unique = TRUE]
UsersRole == [Handler EXCEPT !.busy = "none"]
UsersDeactivate == Handler
UsersProfile == Handler
UsersForm == [create |-> PageForm]
UsersList == [role |-> LooseForm]
UsersDialogs == [deactivate |-> Dialog, profile |-> Dialog]
UsersPage ==
  [load |-> UsersLoad,
   does |-> [create |-> UsersCreate,
             role |-> UsersRole,
             deactivate |-> UsersDeactivate,
             profile |-> UsersProfile],
   offers |-> UsersForm @@ UsersList @@ UsersDialogs]

\* Roles and their permissions
RolesLoad == [List EXCEPT !.follows = "query"]
RolesSave == [Handler EXCEPT !.then = "patch"]
RolesCreate == [Handler EXCEPT !.effect = "create", !.unique = TRUE,
                      !.then = "first"]
RolesForm == [create |-> PageForm]
RolesPermissions == [save |-> RowButton]
RolesPage ==
  [load |-> RolesLoad,
   does |-> [save |-> RolesSave,
             create |-> RolesCreate],
   offers |-> RolesForm @@ RolesPermissions]

\* Customers
CustomersLoad == [List EXCEPT !.follows = "query"]
CustomersCreate == [Handler EXCEPT !.effect = "create", !.unique = TRUE]
CustomersForm == [create |-> PageForm]
CustomersList == NoControls
CustomersPage ==
  [load |-> CustomersLoad,
   does |-> [create |-> CustomersCreate],
   offers |-> CustomersForm @@ CustomersList]

\* Stock: the restock dialog keeps its own flag
WarehouseLoad == List
WarehouseAdjust == [Handler EXCEPT !.busy = "form", !.then = "refresh"]
WarehouseDialog == [adjust |-> Dialog]
WarehouseList == NoControls
WarehousePage ==
  [load |-> WarehouseLoad,
   does |-> [adjust |-> WarehouseAdjust],
   offers |-> WarehouseDialog @@ WarehouseList]

\* Attendance: one button checks in or out
AttendanceLoad == [List EXCEPT !.follows = "query", !.clears = FALSE]
AttendanceToggle == [Handler EXCEPT !.then = "refresh"]
AttendanceCard == [toggle |-> PageButton]
AttendancePage ==
  [load |-> AttendanceLoad,
   does |-> [toggle |-> AttendanceToggle],
   offers |-> AttendanceCard]

\* Sales: the list under the form of SaleForm
SalesLoad == [List EXCEPT !.follows = "query"]
SalesPage ==
  [load |-> SalesLoad,
   does |-> <<>>,
   offers |-> NoControls]

\* ... and the ledger of one sale, loaded when its row is unfolded
LedgerLoad == List
LedgerRecord == [Handler EXCEPT !.effect = "create"]
LedgerReverse == [Handler EXCEPT !.busy = "slot"]
LedgerEntries == [reverse |-> RowButton]
LedgerForm == [record |-> RowForm]
LedgerPage ==
  [load |-> LedgerLoad,
   does |-> [record |-> LedgerRecord,
             reverse |-> LedgerReverse],
   offers |-> LedgerEntries @@ LedgerForm]

\* Complaints of the tenants: the error is never cleared
ComplaintsLoad == [List EXCEPT !.clears = FALSE]
ComplaintsUpdate == [Handler EXCEPT !.busy = "slot"]
ComplaintsReply == [Handler EXCEPT !.busy = "slot"]
ComplaintsList == [update |-> RowButton, reply |-> RowButton]
ComplaintsPage ==
  [load |-> ComplaintsLoad,
   does |-> [update |-> ComplaintsUpdate,
             reply |-> ComplaintsReply],
   offers |-> ComplaintsList]

\* Issues of the system
IssuesLoad == [List EXCEPT !.clears = FALSE]
IssuesPage ==
  [load |-> IssuesLoad,
   does |-> <<>>,
   offers |-> NoControls]

\* Support: complaints are sent and listed
SupportLoad == [List EXCEPT !.clears = FALSE, !.fails = "silent"]
SupportSend == [Handler EXCEPT !.effect = "create", !.then = "refresh"]
SupportForm == [send |-> PageButton]
SupportPage ==
  [load |-> SupportLoad,
   does |-> [send |-> SupportSend],
   offers |-> SupportForm]

\* Broadcast to the tenants
BroadcastLoad == [List EXCEPT !.clears = FALSE, !.fails = "silent"]
BroadcastSend == [Handler EXCEPT !.effect = "send", !.tells = "fresh",
                      !.then = "nothing"]
BroadcastForm == [send |-> PageButton]
BroadcastPage ==
  [load |-> BroadcastLoad,
   does |-> [send |-> BroadcastSend],
   offers |-> BroadcastForm]

\* Plans of the platform
PlansLoad == [List EXCEPT !.clears = FALSE, !.fails = "notice"]
PlansCreate == [Handler EXCEPT !.effect = "create", !.unique = TRUE,
                      !.then = "patch"]
PlansSave == [Handler EXCEPT !.then = "patch", !.tells = "fresh"]
PlansForm == [create |-> PageForm]
PlansList == [save |-> RowForm]
PlansPage ==
  [load |-> PlansLoad,
   does |-> [create |-> PlansCreate,
             save |-> PlansSave],
   offers |-> PlansForm @@ PlansList]

\* Switching the plan: selected, then paid
SwitchLoad == [List EXCEPT !.clears = FALSE, !.fails = "notice"]
SwitchSelect == [Handler EXCEPT !.effect = "send", !.tail = TRUE,
                      !.tells = "fresh", !.then = "nothing"]
SwitchCards == [select |-> PageButton]
SwitchPage ==
  [load |-> SwitchLoad,
   does |-> [select |-> SwitchSelect],
   offers |-> SwitchCards]

\* Choosing the plan at registration
RegisterLoad == [List EXCEPT !.clears = FALSE, !.fails = "notice"]
RegisterPay == [Handler EXCEPT !.effect = "send", !.tail = TRUE,
                      !.tells = "fresh", !.then = "nothing"]
RegisterCards == [pay |-> PageButton]
RegisterPage ==
  [load |-> RegisterLoad,
   does |-> [pay |-> RegisterPay],
   offers |-> RegisterCards]

\* Calls: the filter resets the page number in an effect
CallsLoad == [List EXCEPT !.follows = "reset"]
CallsConnectUtel == [Handler EXCEPT !.keeps = FALSE]
CallsConnectMoiZvonki == [Handler EXCEPT !.keeps = FALSE]
CallsDisconnect == Handler
CallsMap == [Handler EXCEPT !.effect = "create", !.unique = TRUE]
CallsList == NoControls
CallsCards == [connectUtel |-> PageForm, connectMoiZvonki |-> PageForm, disconnect |-> PageDialog]
CallsMappings == [map |-> PageButton]
CallsPage ==
  [load |-> CallsLoad,
   does |-> [connectUtel |-> CallsConnectUtel,
             connectMoiZvonki |-> CallsConnectMoiZvonki,
             disconnect |-> CallsDisconnect,
             map |-> CallsMap],
   offers |-> CallsList @@ CallsCards @@ CallsMappings]

\* Links of the managers to a CRM
LinksLoad == [List EXCEPT !.clears = FALSE, !.blanks = TRUE,
                 !.fails = "empty"]
LinksLink == [Handler EXCEPT !.effect = "send", !.then = "nothing"]
LinksForm == [link |-> PageButton]
LinksPage ==
  [load |-> LinksLoad,
   does |-> [link |-> LinksLink],
   offers |-> LinksForm]

\* CRM integrations and the leads they brought
CrmLoad == [List EXCEPT !.follows = "query"]
CrmDisconnect == Handler
CrmCards == [disconnect |-> PageDialog]
CrmList == NoControls
CrmPage ==
  [load |-> CrmLoad,
   does |-> [disconnect |-> CrmDisconnect],
   offers |-> CrmCards @@ CrmList]

\* Dashboards of the kiosk: a failed load leaves an empty list
KioskLoad == [List EXCEPT !.clears = FALSE, !.fails = "empty"]
KioskCreate == [Handler EXCEPT !.effect = "create", !.unique = TRUE]
KioskDelete == [Handler EXCEPT !.effect = "remove"]
KioskCard == [create |-> PageForm, delete |-> Dialog]
KioskPage ==
  [load |-> KioskLoad,
   does |-> [create |-> KioskCreate,
             delete |-> KioskDelete],
   offers |-> KioskCard]

\* Products and their categories: a product is saved, then its photo
ProductsLoad == List
ProductsCategory == [Handler EXCEPT !.effect = "create", !.unique = TRUE,
                      !.tells = "error"]
ProductsUncategory == [Handler EXCEPT !.effect = "remove", !.busy = "row",
                      !.then = "refresh", !.keeps = FALSE,
                      !.tells = "error"]
ProductsSave == [Handler EXCEPT !.effect = "save", !.busy = "form",
                      !.tail = TRUE, !.then = "refresh"]
ProductsDelete == [Handler EXCEPT !.effect = "remove", !.keeps = FALSE]
ProductsTree == [uncategory |-> Dialog]
ProductsDrawer == [save |-> PageDialog]
ProductsRootForm == [category |-> RowForm]
ProductsDialog == [delete |-> Dialog]
ProductsPage ==
  [load |-> ProductsLoad,
   does |-> [category |-> ProductsCategory,
             uncategory |-> ProductsUncategory,
             save |-> ProductsSave,
             delete |-> ProductsDelete],
   offers |-> ProductsTree @@ ProductsRootForm @@ ProductsDrawer
             @@ ProductsDialog]

\* Finance: bonus plans, refund requests, profit report
FinanceLoad == [List EXCEPT !.follows = "query"]
FinancePlan == [Handler EXCEPT !.effect = "create"]
FinanceReview == Handler
FinanceProfit == [Handler EXCEPT !.effect = "send", !.then = "nothing"]
FinancePlans == [plan |-> RowForm]
FinanceRequests == [review |-> Dialog]
FinanceReport == [profit |-> RowButton]
FinancePage ==
  [load |-> FinanceLoad,
   does |-> [plan |-> FinancePlan,
             review |-> FinanceReview,
             profit |-> FinanceProfit],
   offers |-> FinancePlans @@ FinanceRequests @@ FinanceReport]

\* Notifications: the bot, its groups, schedules and messages
NoticesLoad == List
NoticesSchedule == [Handler EXCEPT !.effect = "save", !.then = "patch"]
NoticesUnschedule == [Handler EXCEPT !.effect = "remove", !.then = "patch"]
NoticesConnect == [Handler EXCEPT !.keeps = FALSE]
NoticesDisconnect == Handler
NoticesGroup == [Handler EXCEPT !.then = "patch"]
NoticesDeactivate == [Handler EXCEPT !.effect = "remove", !.then = "patch"]
NoticesDelete == [Handler EXCEPT !.effect = "remove", !.then = "patch"]
NoticesSend == [Handler EXCEPT !.effect = "create"]
NoticesCard == [connect |-> PageForm, disconnect |-> PageButton]
NoticesGroups == NoControls
NoticesMessages == [send |-> RowButton]
NoticesGroupDialogs == [group |-> Dialog, deactivate |-> Dialog, delete |-> Dialog]
NoticesScheduleDialog == [schedule |-> PageDialog]
NoticesUnscheduleDialog == [unschedule |-> Dialog]
NoticesPage ==
  [load |-> NoticesLoad,
   does |-> [schedule |-> NoticesSchedule,
             unschedule |-> NoticesUnschedule,
             connect |-> NoticesConnect,
             disconnect |-> NoticesDisconnect,
             group |-> NoticesGroup,
             deactivate |-> NoticesDeactivate,
             delete |-> NoticesDelete,
             send |-> NoticesSend],
   offers |-> NoticesCard @@ NoticesGroups @@ NoticesMessages
             @@ NoticesGroupDialogs @@ NoticesScheduleDialog
             @@ NoticesUnscheduleDialog]

\* Pages that only show: the leaderboard of sellers
SellersLoad == [List EXCEPT !.clears = FALSE]
SellersPage ==
  [load |-> SellersLoad,
   does |-> <<>>,
   offers |-> NoControls]

\* ... the sales of the courses
CoursesLoad == [List EXCEPT !.follows = "query"]
CoursesPage ==
  [load |-> CoursesLoad,
   does |-> <<>>,
   offers |-> NoControls]

\* ... a seller's figures of this month, in a dialog
MonthLoad == [List EXCEPT !.blanks = TRUE]
MonthPage ==
  [load |-> MonthLoad,
   does |-> <<>>,
   offers |-> NoControls]

\* ... the revenue of the platform by period
RevenueLoad == [List EXCEPT !.follows = "query", !.clears = FALSE,
                 !.blanks = TRUE, !.fails = "empty"]
RevenuePage ==
  [load |-> RevenueLoad,
   does |-> <<>>,
   offers |-> NoControls]

\* ... the platform's tenants and servers
PlatformLoad == [List EXCEPT !.clears = FALSE]
PlatformPage ==
  [load |-> PlatformLoad,
   does |-> <<>>,
   offers |-> NoControls]

\* ... the tenant's own figures
FiguresLoad == List
FiguresPage ==
  [load |-> FiguresLoad,
   does |-> <<>>,
   offers |-> NoControls]

\* A seller's figures by period, and their report
KpiLoad == [List EXCEPT !.follows = "query", !.blanks = TRUE]
KpiReport == [Handler EXCEPT !.effect = "send", !.then = "nothing"]
KpiTiles == [report |-> PageButton]
KpiPage ==
  [load |-> KpiLoad,
   does |-> [report |-> KpiReport],
   offers |-> KpiTiles]

-----------------------------------------------------------------------------
\* The pages, by the prefix of their definitions
ConsolePages ==
  [Users |-> UsersPage,
   Roles |-> RolesPage,
   Customers |-> CustomersPage,
   Warehouse |-> WarehousePage,
   Attendance |-> AttendancePage,
   Sales |-> SalesPage,
   Ledger |-> LedgerPage,
   Complaints |-> ComplaintsPage,
   Issues |-> IssuesPage,
   Support |-> SupportPage,
   Broadcast |-> BroadcastPage,
   Plans |-> PlansPage,
   Switch |-> SwitchPage,
   Register |-> RegisterPage,
   Calls |-> CallsPage,
   Links |-> LinksPage,
   Crm |-> CrmPage,
   Kiosk |-> KioskPage,
   Products |-> ProductsPage,
   Finance |-> FinancePage,
   Notices |-> NoticesPage,
   Sellers |-> SellersPage,
   Courses |-> CoursesPage,
   Month |-> MonthPage,
   Revenue |-> RevenuePage,
   Platform |-> PlatformPage,
   Figures |-> FiguresPage,
   Kpi |-> KpiPage]
=============================================================================
