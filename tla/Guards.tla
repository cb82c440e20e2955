------------------------------- MODULE Guards -------------------------------
(***************************************************************************)
(* The HTTP surface, and what happens to a request before a handler runs:  *)
(* the router picks a route, then JwtAuthGuard, RolesGuard and             *)
(* PermissionGuard let it through or refuse it.  Callers hold the roles of *)
(* the system, as the seeder leaves them; StaffRoles has roles that        *)
(* change.                                                                 *)
(***************************************************************************)
EXTENDS Handlers, SequencesExt

VARIABLES
  call,     \* the route that is meant and the token that is sent
  answer    \* the status, and the route whose handler ran or was refused

-----------------------------------------------------------------------------
(* The routes that the controllers declare, in the order in which Nest registers them.  A *)
(* row is a method, who may call it, and the path below the controller's prefix, with ":" *)
(* for a parameter.  "anyone" is @Public(); "signed in" asks for a token; "desk" for one  *)
(* of the roles named on the class; anything else is the action of a permission on the    *)
(* controller's module.                                                                   *)

Controller(module, prefix, rows) ==
  [i \in DOMAIN rows |->
     [method |-> rows[i][1], module |-> module, action |-> rows[i][2], prefix |-> prefix,
      path |-> prefix \o SubSeq(rows[i], 3, Len(rows[i]))]]

AppController == Controller("", <<>>, <<<<"GET", "anyone">>>>)

AuditLogsController == Controller("audit-logs", <<"admin", "audit-logs">>, <<
  <<"GET", "read">>, <<"GET", "export", "export">>>>)

LoginRoutes == <<
  <<"POST", "anyone", "register">>, <<"POST", "anyone", "login">>,
  <<"POST", "anyone", "admin", "login">>, <<"POST", "anyone", "refresh">>,
  <<"POST", "signed in", "logout">>>>

PasswordRoutes == <<
  <<"POST", "anyone", "forgot-password">>, <<"GET", "anyone", "reset-password">>,
  <<"POST", "anyone", "reset-password">>, <<"GET", "signed in", "me">>>>

AuthController == Controller("", <<"auth">>, LoginRoutes \o PasswordRoutes)

GoogleOAuthController == Controller("", <<"auth", "google">>, <<
  <<"GET", "anyone", "start">>, <<"GET", "anyone", "callback">>>>)

AdminBrandsController == Controller("brands", <<"admin", "brands">>, <<
  <<"GET", "read">>, <<"GET", "read", ":">>, <<"POST", "create">>, <<"PUT", "update", ":">>,
  <<"DELETE", "delete", ":">>>>)

BrandsController == Controller("", <<"brands">>, <<
  <<"GET", "anyone">>>>)

AdminBuildPcController == Controller("build-pc", <<"admin", "build-pc">>, <<
  <<"GET", "read", "slots">>, <<"POST", "create", "slots">>,
  <<"PATCH", "update", "slots", "reorder">>, <<"PUT", "update", "slots", ":">>,
  <<"DELETE", "delete", "slots", ":">>, <<"GET", "read", "tech-keys">>,
  <<"GET", "read", "rules">>, <<"POST", "create", "rules">>,
  <<"PUT", "update", "rules", ":">>, <<"DELETE", "delete", "rules", ":">>,
  <<"GET", "read", "builds">>, <<"GET", "read", "builds", ":">>>>)

BuildPcController == Controller("", <<"build-pc">>, <<
  <<"GET", "anyone", "slots">>, <<"POST", "anyone", "check-compatibility">>,
  <<"GET", "signed in", "saved">>, <<"POST", "signed in", "saved">>,
  <<"PUT", "signed in", "saved", ":">>, <<"GET", "anyone", "saved", ":">>,
  <<"DELETE", "signed in", "saved", ":">>, <<"GET", "anyone", "community">>,
  <<"GET", "anyone", "community", ":">>, <<"POST", "anyone", "community", ":", "view">>,
  <<"POST", "signed in", "community", ":", "clone">>>>)

CartController == Controller("", <<"cart">>, <<
  <<"GET", "signed in">>, <<"POST", "signed in", "items">>,
  <<"PUT", "signed in", "items", ":">>, <<"DELETE", "signed in", "items", ":">>,
  <<"DELETE", "signed in">>, <<"POST", "signed in", "coupon">>,
  <<"DELETE", "signed in", "coupon">>>>)

AdminCategoriesController == Controller("categories", <<"admin", "categories">>, <<
  <<"GET", "read">>, <<"GET", "read", "tree">>, <<"GET", "read", ":">>, <<"POST", "create">>,
  <<"PUT", "update", ":">>, <<"PATCH", "update", "reorder">>, <<"DELETE", "delete", ":">>>>)

CategoriesController == Controller("", <<"categories">>, <<
  <<"GET", "anyone">>, <<"GET", "anyone", ":">>, <<"GET", "anyone", ":", "facets">>>>)

AdminCmsAnnouncementsController == Controller("cms", <<"admin">>, <<
  <<"GET", "read", "announcement-bars">>, <<"GET", "read", "announcement-bars", ":">>,
  <<"POST", "create", "announcement-bars">>, <<"PUT", "update", "announcement-bars", ":">>,
  <<"DELETE", "delete", "announcement-bars", ":">>>>)

PageRoutes == <<
  <<"GET", "read", "pages">>, <<"GET", "read", "pages", ":">>, <<"POST", "create", "pages">>,
  <<"PUT", "update", "pages", ":">>, <<"PATCH", "update", "pages", "reorder">>,
  <<"DELETE", "delete", "pages", ":">>>>

FaqRoutes == <<
  <<"GET", "read", "faq", "groups">>, <<"PATCH", "update", "faq", "groups", "reorder">>,
  <<"POST", "create", "faq", "groups">>, <<"PUT", "update", "faq", "groups", ":">>,
  <<"DELETE", "delete", "faq", "groups", ":">>, <<"GET", "read", "faq", "items">>,
  <<"PATCH", "update", "faq", "items", "reorder">>, <<"POST", "create", "faq", "items">>,
  <<"PUT", "update", "faq", "items", ":">>, <<"DELETE", "delete", "faq", "items", ":">>>>

MenuRoutes == <<
  <<"GET", "read", "menus">>, <<"GET", "read", "menus", ":">>,
  <<"POST", "create", "menus", ":", "items">>,
  <<"PUT", "update", "menus", ":", "items", ":">>,
  <<"DELETE", "delete", "menus", ":", "items", ":">>,
  <<"PATCH", "update", "menus", ":", "items", "reorder">>, <<"GET", "read", "site-config">>,
  <<"PUT", "update", "site-config", ":">>, <<"DELETE", "delete", "site-config", ":">>>>

AdminCmsContentController == Controller("cms", <<"admin">>, PageRoutes \o FaqRoutes \o MenuRoutes)

AdminCmsHomepageController == Controller("cms", <<"admin">>, <<
  <<"GET", "read", "homepage-sections">>, <<"GET", "read", "homepage-sections", "preview">>,
  <<"PATCH", "update", "homepage-sections", "reorder">>,
  <<"GET", "read", "homepage-sections", ":">>, <<"POST", "create", "homepage-sections">>,
  <<"PUT", "update", "homepage-sections", ":">>,
  <<"DELETE", "delete", "homepage-sections", ":">>,
  <<"POST", "create", "homepage-sections", ":", "clone">>>>)

AdminBannerRoutes == <<
  <<"GET", "read", "banners">>, <<"GET", "read", "banners", ":">>,
  <<"POST", "create", "banners">>, <<"PUT", "update", "banners", ":">>,
  <<"DELETE", "delete", "banners", ":">>, <<"PATCH", "update", "banners", "reorder">>,
  <<"PATCH", "update", "banners", "layout">>>>

PopupRoutes == <<
  <<"GET", "read", "popups">>, <<"GET", "read", "popups", ":">>,
  <<"POST", "create", "popups">>, <<"PUT", "update", "popups", ":">>,
  <<"DELETE", "delete", "popups", ":">>>>

AdminCmsController == Controller("cms", <<"admin">>, AdminBannerRoutes \o PopupRoutes)

BannerRoutes == <<
  <<"GET", "anyone", "banners">>, <<"GET", "anyone", "banners", ":">>>>

ContentRoutes == <<
  <<"GET", "anyone", "content", "trust-badges">>,
  <<"GET", "anyone", "content", "category-shortcuts">>,
  <<"GET", "anyone", "content", "homepage">>,
  <<"GET", "anyone", "content", "homepage-hero-mode">>,
  <<"GET", "anyone", "homepage-sections">>>>

ContentPageRoutes == <<
  <<"GET", "anyone", "pages">>, <<"GET", "anyone", "pages", ":">>, <<"GET", "anyone", "faq">>,
  <<"POST", "anyone", "faq", "items", ":", "helpful">>, <<"GET", "anyone", "menus", ":">>,
  <<"GET", "anyone", "popups">>, <<"GET", "anyone", "announcement-bars">>,
  <<"GET", "anyone", "site-config">>>>

CmsController == Controller("", <<>>, BannerRoutes \o ContentRoutes \o ContentPageRoutes)

StorefrontHomeController == Controller("", <<"storefront">>, <<
  <<"GET", "anyone", "homepage-sections">>, <<"GET", "anyone", "flash-sale", "active">>,
  <<"GET", "anyone", "promotion-products">>>>)

AdminContactMessagesController == Controller("", <<"admin", "contact-messages">>, <<
  <<"GET", "desk", "stats">>, <<"GET", "desk">>, <<"GET", "desk", ":">>,
  <<"PATCH", "desk", ":">>, <<"DELETE", "desk", ":">>>>)

ContactMessagesController == Controller("", <<"contact-messages">>, <<
  <<"GET", "anyone", "quota">>, <<"POST", "anyone">>>>)

AdminDashboardController == Controller("reports", <<"admin", "dashboard">>, <<
  <<"GET", "read", "overview">>, <<"GET", "signed in", "action-items">>>>)

AdminProfileController == Controller("", <<"admin", "me">>, <<
  <<"GET", "signed in">>, <<"PATCH", "signed in">>,
  <<"POST", "signed in", "change-password">>, <<"GET", "anyone", "confirm-password-change">>,
  <<"POST", "signed in", "avatar">>, <<"GET", "signed in", "audit-logs">>>>)

EmployeesController == Controller("employees", <<"admin", "employees">>, <<
  <<"GET", "read">>, <<"GET", "read", "code", ":">>, <<"GET", "read", ":">>,
  <<"GET", "read", ":", "audit-logs">>, <<"POST", "create">>, <<"PUT", "update", ":">>,
  <<"DELETE", "delete", ":">>, <<"POST", "update", ":", "reset-password">>,
  <<"PUT", "update", ":", "roles">>>>)

AdminFlashSalesController == Controller("flash-sales", <<"admin", "flash-sales">>, <<
  <<"GET", "read", "stats">>, <<"GET", "read", "search-variants">>, <<"GET", "read">>,
  <<"GET", "read", ":">>, <<"POST", "create">>, <<"PUT", "update", ":">>,
  <<"PATCH", "update", ":", "pause">>, <<"PATCH", "update", ":", "activate">>>>)

FlashSalesController == Controller("", <<"flash-sales">>, <<
  <<"GET", "anyone", "active">>, <<"GET", "anyone", ":">>>>)

StockRoutes == <<
  <<"GET", "read">>, <<"GET", "read", "summary">>, <<"PATCH", "update", ":", "thresholds">>,
  <<"GET", "read", ":", "stock-level">>, <<"GET", "read", ":", "history">>,
  <<"POST", "create", "adjust">>, <<"POST", "create", "export">>, <<"GET", "read", "export">>,
  <<"GET", "read", "export", ":">>, <<"GET", "read", "movements">>>>

ReceiptRoutes == <<
  <<"GET", "read", "import">>, <<"GET", "read", "import", "next-code">>,
  <<"GET", "read", "import", ":">>, <<"POST", "create", "import">>,
  <<"PUT", "update", "import", ":", "approve">>,
  <<"PUT", "update", "import", ":", "complete">>,
  <<"PUT", "update", "import", ":", "reject">>, <<"PUT", "update", "import", ":", "resolve">>,
  <<"GET", "read", ":", "batches">>, <<"GET", "read", "kpi", "dashboard">>,
  <<"GET", "read", "kpi", "dead-stock">>, <<"GET", "read", "kpi", "turnover">>,
  <<"GET", "read", "kpi", "pending-import-value">>, <<"GET", "read", "kpi", "top-moving">>>>

AdminInventoryController == Controller("inventory", <<"admin", "inventory">>, StockRoutes \o ReceiptRoutes)

InventoryController == Controller("", <<"inventory">>, <<
  <<"GET", "anyone", "stock", ":">>>>)

EarnRuleRoutes == <<
  <<"GET", "read", "rules">>, <<"GET", "read", "rules", ":">>, <<"POST", "create", "rules">>,
  <<"PUT", "update", "rules", ":">>, <<"DELETE", "delete", "rules", ":">>>>

RewardRoutes == <<
  <<"GET", "read", "catalog">>, <<"POST", "create", "catalog">>,
  <<"PUT", "update", "catalog", ":">>, <<"DELETE", "delete", "catalog", ":">>,
  <<"POST", "update", "adjust">>, <<"GET", "read", "customers", ":", "summary">>,
  <<"GET", "read", "customers", ":", "transactions">>,
  <<"GET", "read", "customers", ":", "redemptions">>, <<"GET", "read", "tiers">>,
  <<"GET", "read", "tiers", ":">>, <<"POST", "create", "tiers">>,
  <<"PATCH", "update", "tiers", ":">>, <<"DELETE", "delete", "tiers", ":">>>>

AdminLoyaltyController == Controller("loyalty", <<"admin", "loyalty">>, EarnRuleRoutes \o RewardRoutes)

LoyaltyController == Controller("", <<"loyalty">>, <<
  <<"GET", "signed in", "points">>, <<"GET", "signed in", "transactions">>,
  <<"GET", "anyone", "earn-rules">>, <<"GET", "anyone", "tiers">>,
  <<"GET", "anyone", "catalog">>, <<"GET", "signed in", "redemptions">>,
  <<"POST", "signed in", "redeem">>>>)

FolderRoutes == <<
  <<"POST", "create", "upload">>, <<"GET", "read", "folders">>,
  <<"POST", "create", "folders">>, <<"GET", "read", "folders", ":">>,
  <<"PUT", "update", "folders", ":">>, <<"DELETE", "delete", "folders", ":">>>>

AssetRoutes == <<
  <<"GET", "read">>, <<"GET", "read", ":">>, <<"PATCH", "update", ":">>,
  <<"PATCH", "update", ":", "archive">>, <<"DELETE", "delete", ":">>>>

AdminMediaController == Controller("media", <<"admin", "media">>, FolderRoutes \o AssetRoutes)

MediaController == Controller("", <<"media">>, <<
  <<"GET", "anyone", ":">>>>)

AdminNotificationsController == Controller("notifications", <<"admin", "notifications">>, <<
  <<"GET", "read", "stream">>, <<"GET", "read">>, <<"GET", "read", "stats">>,
  <<"POST", "create", "broadcast">>, <<"PATCH", "update", ":", "cancel">>,
  <<"PATCH", "update", ":", "retry">>, <<"GET", "read", "configs">>,
  <<"GET", "read", "configs", ":">>, <<"POST", "create", "configs">>,
  <<"PUT", "update", "configs", ":">>, <<"DELETE", "delete", "configs", ":">>>>)

NotificationsController == Controller("", <<"notifications">>, <<
  <<"GET", "signed in">>, <<"PUT", "signed in", "read-all">>,
  <<"PUT", "signed in", ":", "read">>>>)

AdminOrdersController == Controller("orders", <<"admin", "orders">>, <<
  <<"GET", "read">>, <<"GET", "read", ":">>, <<"GET", "read", ":", "transaction">>,
  <<"PUT", "update", ":", "status">>, <<"PATCH", "update", ":", "shipping">>,
  <<"POST", "update", ":", "notes">>, <<"GET", "read", ":", "return-requests">>>>)

OrdersController == Controller("", <<"orders">>, <<
  <<"POST", "signed in", "checkout">>, <<"GET", "signed in">>, <<"GET", "signed in", ":">>,
  <<"GET", "signed in", ":", "success-summary">>,
  <<"GET", "signed in", ":", "recommendations">>, <<"DELETE", "signed in", ":", "cancel">>>>)

AdminTransactionsController == Controller("payments", <<"admin">>, <<
  <<"GET", "read", "transactions">>, <<"GET", "read", "transactions", "stats">>,
  <<"GET", "read", "orders", ":", "transaction">>>>)

PaymentsController == Controller("payments", <<"payments">>, <<
  <<"POST", "signed in", "create">>, <<"GET", "signed in", "order", ":">>,
  <<"GET", "anyone", "vnpay", "return">>, <<"GET", "anyone", "vnpay", "ipn">>,
  <<"POST", "anyone", "zalopay", "callback">>, <<"POST", "anyone", "momo", "callback">>,
  <<"POST", "read", "cod", ":", "confirm">>>>)

ProductRoutes == <<
  <<"GET", "read">>, <<"GET", "read", "check-slug">>, <<"GET", "read", ":", "variants", ":">>,
  <<"GET", "read", "variants", ":", "images">>, <<"GET", "read", ":">>, <<"POST", "create">>,
  <<"PUT", "update", ":">>, <<"DELETE", "delete", "variants", ":">>,
  <<"PUT", "update", "variants", ":">>>>

VariantRoutes == <<
  <<"DELETE", "delete", ":">>, <<"POST", "create", ":", "clone">>,
  <<"POST", "create", ":", "variants", ":", "clone">>, <<"POST", "create", ":", "variants">>,
  <<"PATCH", "update", ":", "variants", ":", "set-default">>,
  <<"PUT", "update", ":", "variants", ":", "specs">>,
  <<"PUT", "update", ":", "variants", ":", "media">>>>

AdminProductsController == Controller("products", <<"admin", "products">>, ProductRoutes \o VariantRoutes)

ProductsController == Controller("", <<"products">>, <<
  <<"GET", "anyone">>, <<"GET", "anyone", ":", "specs">>, <<"GET", "anyone", ":">>>>)

AdminPromotionsController == Controller("promotions", <<"admin", "promotions">>, <<
  <<"GET", "read">>, <<"POST", "update", "generate-code">>,
  <<"GET", "read", "generate-code", "cooldown">>, <<"GET", "read", ":">>,
  <<"GET", "read", ":", "usages">>, <<"GET", "read", ":", "usage-stats">>,
  <<"POST", "create">>, <<"POST", "create", ":", "duplicate">>, <<"PUT", "update", ":">>,
  <<"PATCH", "update", ":", "status">>, <<"DELETE", "delete", ":">>>>)

PromotionsController == Controller("", <<"promotions">>, <<
  <<"GET", "anyone", "active">>, <<"POST", "signed in", "apply">>>>)

AdminReportsAggController == Controller("reports", <<"admin", "reports", "agg">>, <<
  <<"GET", "read", "executive">>, <<"GET", "read", "revenue">>, <<"GET", "read", "products">>,
  <<"GET", "read", "customers">>, <<"GET", "read", "inventory">>,
  <<"GET", "read", "promotions">>, <<"GET", "read", "support">>>>)

ReportRoutes == <<
  <<"GET", "read", "revenue">>, <<"GET", "read", "top-products">>,
  <<"GET", "read", "customers", "summary">>, <<"GET", "read", "customers">>>>

HealthRoutes == <<
  <<"GET", "read", "inventory-health">>, <<"GET", "read", "retention">>,
  <<"GET", "read", "job-logs">>, <<"GET", "read", "export">>>>

AdminReportsController == Controller("reports", <<"admin", "reports">>, ReportRoutes \o HealthRoutes)

RequestRoutes == <<
  <<"GET", "read">>, <<"GET", "read", ":">>, <<"PUT", "update", ":", "status">>,
  <<"GET", "read", ":", "assets">>, <<"PATCH", "update", ":", "confirm-received">>,
  <<"PATCH", "update", ":", "inspection">>, <<"POST", "update", ":", "complete-inspection">>,
  <<"PATCH", "update", ":", "reject-after-inspection">>, <<"POST", "update", ":", "assets">>>>

ResolutionRoutes == <<
  <<"POST", "update", ":", "process-refund">>,
  <<"PATCH", "update", ":", "change-resolution">>,
  <<"POST", "update", ":", "process-exchange">>,
  <<"PATCH", "update", "resolutions", ":", "confirm-delivered">>,
  <<"POST", "update", ":", "init-warranty">>,
  <<"PATCH", "update", "resolutions", ":", "warranty-status">>,
  <<"POST", "update", ":", "process-warranty">>,
  <<"PATCH", "update", "resolutions", ":", "defective-handling">>,
  <<"PATCH", "update", "resolutions", ":", "complete-reuse">>>>

AdminReturnsController == Controller("returns", <<"admin", "returns">>, RequestRoutes \o ResolutionRoutes)

ReturnsController == Controller("", <<"returns">>, <<
  <<"POST", "signed in">>, <<"GET", "signed in">>, <<"GET", "signed in", ":">>>>)

AdminReviewsController == Controller("reviews", <<"admin", "reviews">>, <<
  <<"GET", "read">>, <<"GET", "read", "stats">>, <<"GET", "read", ":">>,
  <<"POST", "update", "bulk-moderate">>, <<"PUT", "update", ":", "approve">>,
  <<"PUT", "update", ":", "reject">>, <<"PUT", "update", ":", "hide">>,
  <<"POST", "update", ":", "reply">>, <<"GET", "read", ":", "messages">>>>)

ReviewsController == Controller("", <<>>, <<
  <<"GET", "anyone", "products", ":", "reviews">>, <<"POST", "signed in", "reviews">>>>)

RolesController == Controller("roles", <<"admin", "roles">>, <<
  <<"GET", "read">>, <<"GET", "read", ":">>, <<"POST", "create">>, <<"PUT", "update", ":">>,
  <<"DELETE", "delete", ":">>, <<"PUT", "update", ":", "permissions">>>>)

PermissionsController == Controller("roles", <<"admin", "permissions">>, <<
  <<"GET", "read">>>>)

SearchController == Controller("", <<"search">>, <<
  <<"GET", "anyone">>, <<"GET", "anyone", "suggestions">>,
  <<"GET", "anyone", "products", ":", "variants">>, <<"POST", "signed in", "history">>,
  <<"GET", "signed in", "history">>>>)

GeneralRoutes == <<
  <<"GET", "read", "general">>, <<"PUT", "update", "general">>, <<"GET", "read", "payments">>,
  <<"PUT", "update", "payments">>>>

ShippingRoutes == <<
  <<"GET", "read", "shipping">>, <<"PUT", "update", "shipping">>,
  <<"GET", "read", "notifications">>, <<"PUT", "update", "notifications">>,
  <<"GET", "read", "tax">>, <<"PUT", "update", "tax">>>>

AdminSettingsController == Controller("settings", <<"admin", "settings">>, GeneralRoutes \o ShippingRoutes)

SettingsController == Controller("", <<"settings">>, <<
  <<"GET", "anyone", "public">>>>)

GroupRoutes == <<
  <<"GET", "read", "groups">>, <<"POST", "create", "groups">>,
  <<"PUT", "update", "groups", ":">>, <<"GET", "read", "groups", ":">>,
  <<"DELETE", "delete", "groups", ":">>, <<"GET", "read", "types">>,
  <<"POST", "create", "types">>, <<"PUT", "update", "types", ":">>,
  <<"PATCH", "update", "types", "reorder">>, <<"DELETE", "delete", "types", ":">>,
  <<"GET", "read", "template">>>>

LinkRoutes == <<
  <<"GET", "read", "category-groups", "resolved">>, <<"GET", "read", "category-groups">>,
  <<"POST", "update", "category-groups">>,
  <<"PATCH", "update", "category-groups", "reorder">>,
  <<"PATCH", "update", "category-groups", ":">>, <<"DELETE", "delete", "category-groups">>,
  <<"DELETE", "delete", "category-groups", ":">>>>

AdminSpecificationsController == Controller("specifications", <<"admin", "specs">>, GroupRoutes \o LinkRoutes)

SpecificationsController == Controller("", <<"specs">>, <<
  <<"GET", "anyone", "groups">>, <<"GET", "anyone", "types">>,
  <<"GET", "anyone", "categories", ":", "groups">>,
  <<"GET", "anyone", "categories", ":", "facets">>>>)

AdminSuppliersController == Controller("suppliers", <<"admin", "suppliers">>, <<
  <<"GET", "read">>, <<"GET", "read", ":">>, <<"POST", "create">>, <<"PUT", "update", ":">>,
  <<"DELETE", "delete", ":">>>>)

DeskRoutes == <<
  <<"GET", "read", "stats">>, <<"GET", "read", "assignee-stats">>, <<"GET", "read">>,
  <<"POST", "create">>, <<"GET", "read", ":">>, <<"PATCH", "update", ":">>>>

TicketRoutes == <<
  <<"PUT", "update", ":", "assign">>, <<"POST", "update", ":", "messages">>,
  <<"GET", "read", ":", "messages">>, <<"PUT", "update", ":", "close">>,
  <<"PUT", "update", ":", "resolve">>, <<"PUT", "update", ":", "reopen">>,
  <<"GET", "read", ":", "stream">>>>

AdminSupportController == Controller("support", <<"admin", "tickets">>, DeskRoutes \o TicketRoutes)

SupportController == Controller("", <<"support">>, <<
  <<"POST", "signed in", "tickets">>, <<"GET", "signed in", "tickets">>,
  <<"GET", "signed in", "tickets", ":">>, <<"POST", "signed in", "tickets", ":", "messages">>,
  <<"GET", "signed in", "tickets", ":", "messages">>,
  <<"GET", "signed in", "tickets", ":", "stream">>>>)

CustomerRoutes == <<
  <<"GET", "read">>, <<"POST", "create">>, <<"GET", "read", "next-code">>,
  <<"GET", "read", ":">>, <<"PATCH", "update", ":">>, <<"PUT", "update", ":", "status">>,
  <<"POST", "update", ":", "reset-password">>, <<"DELETE", "delete", ":">>>>

AddressRoutes == <<
  <<"POST", "update", ":", "addresses">>, <<"PUT", "update", ":", "addresses", ":">>,
  <<"DELETE", "update", ":", "addresses", ":">>,
  <<"PUT", "update", ":", "addresses", ":", "default">>>>

AdminUsersController == Controller("users", <<"admin", "customers">>, CustomerRoutes \o AddressRoutes)

UsersController == Controller("", <<"users">>, <<
  <<"GET", "signed in", "me">>, <<"PUT", "signed in", "me">>,
  <<"PATCH", "signed in", "me", "notification-preferences">>,
  <<"PATCH", "signed in", "me", "avatar">>, <<"GET", "signed in", "me", "addresses">>,
  <<"POST", "signed in", "me", "addresses">>, <<"PUT", "signed in", "me", "addresses", ":">>,
  <<"DELETE", "signed in", "me", "addresses", ":">>,
  <<"PUT", "signed in", "me", "addresses", ":", "default">>>>)

WishlistController == Controller("", <<"wishlist">>, <<
  <<"GET", "signed in">>, <<"POST", "signed in", "items">>,
  <<"DELETE", "signed in", "items", ":">>>>)

-----------------------------------------------------------------------------
(* AppModule: its own controller, then those of the modules it imports, each before the *)
(* modules that it imports in turn, as Nest scans them.                                 *)
AppModule == FlattenSeq(<<
  AppController, AuditLogsController, AuthController, GoogleOAuthController,
  UsersController, AdminUsersController, EmployeesController, AdminProfileController,
  MediaController, AdminMediaController, RolesController, PermissionsController,
  CategoriesController, AdminCategoriesController, SpecificationsController,
  AdminSpecificationsController, BrandsController, AdminBrandsController,
  ProductsController, AdminProductsController, BuildPcController, AdminBuildPcController,
  CartController, PromotionsController, AdminPromotionsController, OrdersController,
  AdminOrdersController, InventoryController, AdminInventoryController, PaymentsController,
  AdminTransactionsController, AdminSuppliersController, FlashSalesController,
  AdminFlashSalesController, LoyaltyController, AdminLoyaltyController, ReviewsController,
  AdminReviewsController, ReturnsController, AdminReturnsController, SupportController,
  AdminSupportController, ContactMessagesController, AdminContactMessagesController,
  NotificationsController, AdminNotificationsController, WishlistController,
  SearchController, CmsController, AdminCmsController, AdminCmsHomepageController,
  AdminCmsContentController, AdminCmsAnnouncementsController, StorefrontHomeController,
  AdminReportsController, AdminReportsAggController, SettingsController,
  AdminSettingsController, AdminDashboardController>>)

\* A parameter matches any segment.
Matches(pattern, path) ==
  /\ Len(pattern) = Len(path)
  /\ \A i \in DOMAIN path : pattern[i] \in {":", path[i]}

\* A path that the route is meant for: identifiers, codes and slugs are no words of a path.
Sample(route) == [i \in DOMAIN route.path |-> IF route.path[i] = ":" THEN "1" ELSE route.path[i]]

\* Express asks the routes one after the other.
Dispatch(routes, method, path) ==
  CHOOSE i \in DOMAIN routes :
    /\ routes[i].method = method /\ Matches(routes[i].path, path)
    /\ \A j \in 1..i-1 : ~(routes[j].method = method /\ Matches(routes[j].path, path))

-----------------------------------------------------------------------------
(* role-seed.constants.ts: the permissions there are, and what each of the roles *)
(* of the system is granted.  A permission is a pair of a module and an action. *)

May(modules, actions) == modules \X actions

PERMISSION_CATALOG ==
  May({"suppliers", "products", "categories", "brands", "specifications", "media", "build-pc",
       "promotions", "loyalty", "cms", "notifications", "employees", "users", "roles"},
      {"read", "create", "update", "delete"})
  \cup May({"inventory", "flash-sales", "support"}, {"read", "create", "update"})
  \cup May({"orders", "returns", "reviews", "settings"}, {"read", "update"})
  \cup May({"payments", "reports", "customers"}, {"read"})
  \cup May({"audit-logs"}, {"read", "export"})

SystemRoles == {"admin", "staff", "warehouse", "accountant", "support", "customer"}

resolveRolePermissions(role) ==
  CASE role = "admin" -> PERMISSION_CATALOG
    [] role = "staff" ->
         May({"orders", "returns", "reviews"}, {"read", "update"})
         \cup May({"products"}, {"read", "create", "update"}) \cup May({"media"}, {"read", "create"})
         \cup May({"categories", "brands", "specifications", "customers", "users", "promotions",
                   "reports"}, {"read"})
    [] role = "warehouse" ->
         May({"inventory", "suppliers"}, {"read", "create", "update"})
         \cup May({"products", "orders"}, {"read"})
    [] role = "accountant" -> May({"payments", "orders", "reports", "audit-logs"}, {"read"})
    [] role = "support" ->
         May({"support"}, {"read", "create", "update"})
         \cup May({"returns", "reviews"}, {"read", "update"})
         \cup May({"customers", "users", "orders"}, {"read"})
    [] OTHER -> {}

-----------------------------------------------------------------------------
\* No token, a customer's, or that of an employee with one role.
Tokens == {"none"} \cup SystemRoles

IsEmployee(token) == token \notin {"none", "customer"}

GuardsInit == call = <<>> /\ answer = <<>>

JwtAuthGuard(route, token) == route.action = "anyone" \/ token # "none"

\* @Roles of AdminContactMessagesController; the role of a customer's token is no role.
RolesGuard(route, token) ==
  route.action = "desk" => token \in {"admin", "support", "staff"}

\* Mutant of PermissionGuard: the permission is looked up under the name of the path.
PermissionOfPath(route, token) ==
  route.action \in {"anyone", "signed in", "desk"}
  \/ (IsEmployee(token) /\ <<Head(Tail(route.path)), route.action>> \in resolveRolePermissions(token))

PermissionGuard(route, token) ==
  route.action \in {"anyone", "signed in", "desk"}
  \/ (IsEmployee(token) /\ <<route.module, route.action>> \in resolveRolePermissions(token))

Answer(route, token) ==
  CASE ~JwtAuthGuard(route, token) -> 401
    [] JwtAuthGuard(route, token) /\ ~(RolesGuard(route, token) /\ PermissionGuard(route, token)) -> 403
    [] OTHER -> 200

Ask(r) ==
  LET routes == AppModule IN
  /\ AtOnce(r)
  /\ \E k \in DOMAIN routes :
       LET i == Dispatch(routes, routes[k].method, Sample(routes[k])) IN
       \E token \in Tokens :
         /\ call' = <<routes[k], token>>
         /\ answer' = <<Answer(routes[i], token), routes[i]>>

Next == \E r \in Requests : Ask(r)

-----------------------------------------------------------------------------
Asked == call # <<>>
Meant == call[1]
Reached == answer[2]

\* The type of every variable: the calls and the answers there are.
TypeOK ==
  /\ HandlersTypeOK /\ Asked = (answer # <<>>)
  /\ Asked => call[2] \in Tokens /\ answer[1] \in {200, 401, 403}

\* Every handler that is declared can be called: a request for its path reaches it and no
\* handler that was registered before it.
EveryHandlerIsReached == Asked => Reached = Meant

\* The routes of a controller are declared in such an order that no parameter takes the
\* place of a fixed word: a request that reaches another handler of the same prefix is lost.
FixedWordsFirst == Asked /\ Reached.prefix = Meant.prefix => Reached = Meant

\* The catalog has every permission that a route asks for: the administrator is refused
\* nothing.
AdminIsNeverRefused == Asked /\ call[2] = "admin" => answer[1] = 200

\* A role that may change something of a module may read it as well.
WritersMayRead ==
  Asked /\ answer[1] = 200 /\ IsEmployee(call[2])
        /\ Reached.action \notin {"anyone", "signed in", "desk", "read"} =>
    <<Reached.module, "read">> \in resolveRolePermissions(call[2])
=============================================================================
