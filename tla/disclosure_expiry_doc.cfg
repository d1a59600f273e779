SPECIFICATION Spec
CONSTANTS
    phone = phone
    stolen = stolen
    shop = shop
    self = self
    age = age
    voucher1 = voucher1
    DocumentValid = document_valid
    HolderPresent = holder_present
    None = None
    Keys = {phone, stolen}
    Documents <- MCExpiringDocuments
    Audiences = {shop, self}
    SelfAudiences = {self}
    Claims = {age, document_valid, holder_present}
    Vouchers = {voucher1}
    PaidBy <- MCPaidBy
    Covers <- MCCovers
    RequireWia = TRUE
    RequireVoucher = TRUE
    IvrTtl = 1
    Window = 0
    MaxTime = 2
    MaxIvrs = 1
    MaxSigned = 1
    MaxReceipts = 2
SYMMETRY Symmetry
INVARIANTS
    ProofsOnlyOfValidDocuments
