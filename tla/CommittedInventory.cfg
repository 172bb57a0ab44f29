CONSTANTS
  Invoices = {i1, i2}
  Items = {v1}
  Workers = {w1, w2}
  NoInvoice = NoInvoice
SPECIFICATION Spec
PROPERTY Converges
